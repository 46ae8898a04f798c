-------------------------------- MODULE Words --------------------------------
(***************************************************************************)
(* 256-bit words on Starknet: a field element holds less than one, so a    *)
(* word is passed as two halves.  The widths are scaled down.              *)
(***************************************************************************)
EXTENDS Integers

CONSTANTS Half,    \* 2^128
          U64Max   \* u64::MAX

ASSUME HalfAssumption == Half \in Nat \ {0} /\ U64Max \in Nat

(***************************************************************************)
(* split_u256, and the sum it is undone with: low + (high << 128).         *)
(***************************************************************************)
SplitSwapped(n) == [low |-> n \div Half, high |-> n % Half]   \* a mutant of Split
Split(n) == [low |-> n % Half, high |-> n \div Half]
Joined(halves) == halves.low + halves.high * Half

(***************************************************************************)
(* A field element as a u64, or the default.                               *)
(***************************************************************************)
U64OrZero(felt) == IF felt <= U64Max THEN felt ELSE 0
=============================================================================
