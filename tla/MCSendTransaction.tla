-------------------------- MODULE MCSendTransaction --------------------------
(* SendTransaction with 3-bit words for u64, 8 for 2^128, and balances and *)
(* signatures beyond them.  Of the chain ids, v fits with one, with one it *)
(* fits or wraps with the parity, and one is itself too large.             *)
EXTENDS SendTransaction, TLC

CONSTANT r1

MCSignature == {[r |-> 9, s |-> 16, parity |-> 0], [r |-> 56, s |-> 7, parity |-> 1]}
=============================================================================
