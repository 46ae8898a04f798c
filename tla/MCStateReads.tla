---------------------------- MODULE MCStateReads ----------------------------
(* StateReads on small instances: an account that sends transactions, and  *)
(* one a transaction creates.                                              *)
EXTENDS StateReads, TLC

CONSTANTS t1, t2, eoa, ca, odd

MCAccount == {eoa, ca, odd}
MCClass == eoa :> "EOA" @@ ca :> "CA" @@ odd :> "other"
MCBumps == eoa :> {t1, t2} @@ ca :> {t2} @@ odd :> {t1}
MCHash == {1}
MCCollection == {}

Symmetry == Permutations(Client)
=============================================================================
