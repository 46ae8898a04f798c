---------------------------- MODULE MockDatabase ----------------------------
(***************************************************************************)
(* mock_database: every test upserts the same documents, one after the     *)
(* other, into the one MongoDB container its binary shares.  An upsert     *)
(* without a unique index (external) looks its key up and then inserts or  *)
(* updates; two at a time may both insert.                                 *)
(***************************************************************************)
EXTENDS Integers, Sequences

CONSTANTS Test,   \* the tests of one binary, run by threads of one process
          Doc     \* the documents of the fixture that are followed

(***************************************************************************)
(* The fixture, by what update_many takes as a document's key: a header's  *)
(* number, the hash of a transaction, the transaction of a receipt.  All   *)
(* but the headers are of the block numbered last.                         *)
(***************************************************************************)
BlockNumber == 4660   \* BLOCK_NUMBER
Headers ==
  LET OfNumber(n) == [in |-> "headers", key |-> n]
  IN <<OfNumber(0), OfNumber(1), OfNumber(2), OfNumber(3), OfNumber(BlockNumber)>>
Transactions ==
  LET OfHash(h) == [in |-> "transactions", key |-> h] IN <<OfHash(0), OfHash(1), OfHash(2)>>
Receipts ==
  LET OfTx(h) == [in |-> "receipts", key |-> h] IN <<OfTx(0), OfTx(1), OfTx(2)>>
Fixture == Headers \o Transactions \o Receipts

\* The followed ones are in the order of the calls.
ASSUME DocAssumption ==
  /\ Doc \in Seq({Fixture[i] : i \in DOMAIN Fixture})
  /\ Doc = SelectSeq(Fixture, LAMBDA d : \E i \in DOMAIN Doc : Doc[i] = d)

VARIABLES copies,   \* how many documents have the key of the i-th
          at,       \* per test, the document it is upserting; 0 before the first
          found,    \* per test, what the lookup of its upsert found
          overlap   \* ghost: two fixtures were upserting at once

dbVars == <<copies, at, found, overlap>>

Over == Len(Doc) + 1

DbTypeOK ==
  /\ copies \in [DOMAIN Doc -> Nat]
  /\ at \in [Test -> 0..Over]
  /\ found \in [Test -> {"unknown", "none", "some"}]
  /\ overlap \in BOOLEAN

DbInit ==
  /\ copies = [d \in DOMAIN Doc |-> 0]
  /\ at = [t \in Test |-> 0]
  /\ found = [t \in Test |-> "unknown"]
  /\ overlap = FALSE

-----------------------------------------------------------------------------
Upserting(t) == at[t] \in 1..Len(Doc)

Connect(t) ==
  /\ at[t] = 0
  /\ at' = [at EXCEPT ![t] = 1]
  /\ overlap' = (overlap \/ \E u \in Test : Upserting(u))
  /\ UNCHANGED <<copies, found>>

Lookup(t) ==
  /\ Upserting(t) /\ found[t] = "unknown"
  /\ found' = [found EXCEPT ![t] = IF copies[at[t]] = 0 THEN "none" ELSE "some"]
  /\ UNCHANGED <<copies, at, overlap>>

\* A mutant of Write: a document that is there is inserted again.
WriteInserts(t) ==
  /\ Upserting(t) /\ found[t] # "unknown"
  /\ copies' = [copies EXCEPT ![at[t]] = @ + 1]
  /\ at' = [at EXCEPT ![t] = @ + 1]
  /\ found' = [found EXCEPT ![t] = "unknown"]
  /\ UNCHANGED overlap

Write(t) ==
  /\ Upserting(t) /\ found[t] # "unknown"
  /\ copies' = [copies EXCEPT ![at[t]] = IF found[t] = "none" THEN @ + 1 ELSE @]
  /\ at' = [at EXCEPT ![t] = @ + 1]
  /\ found' = [found EXCEPT ![t] = "unknown"]
  /\ UNCHANGED overlap

DbStep(t) == Connect(t) \/ Lookup(t) \/ Write(t)
Ready(t) == at[t] = Over

-----------------------------------------------------------------------------
(***************************************************************************)
(* A test that has its database finds every document in it, whatever the   *)
(* fixtures of other tests are doing to it.                                *)
(***************************************************************************)
FixtureComplete == \A t \in Test : Ready(t) => \A d \in DOMAIN Doc : copies[d] > 0

(***************************************************************************)
(* The counts the tests assert (three transactions, three receipts): a     *)
(* document is there once, however often the fixture ran, as long as no    *)
(* two of them ran at once.                                                *)
(***************************************************************************)
OneCopyEach == ~overlap => \A d \in DOMAIN Doc : copies[d] <= 1

(***************************************************************************)
(* The database every test reads is the fixture.                           *)
(***************************************************************************)
MockDocuments == FixtureComplete /\ OneCopyEach
=============================================================================
