------------------------------- MODULE Chain -------------------------------
(***************************************************************************)
(* The two stores the RPC server reads, neither of which is part of it.    *)
(*                                                                         *)
(* The Starknet node: blocks 0..head are sealed and numbered, and one      *)
(* block, which will become head + 1, is pending and takes transactions.   *)
(*                                                                         *)
(* MongoDB, filled by an indexer the repository only starts                *)
(* (docker-compose): one document per header, and per transaction one      *)
(* document in each collection.  A document of a pending block carries the *)
(* zero hash (provider.rs tests for it), that of a sealed block the        *)
(* block's hash; it is inserted once and updated in place, never deleted.  *)
(* The indexer follows the node block by block with any lag, and the       *)
(* documents of one block are written one at a time in any order.          *)
(***************************************************************************)
EXTENDS Integers, FiniteSets

CONSTANTS Tx,           \* the transactions
          Collection,   \* the collections with a document per transaction
          MaxBlock      \* bound: the last block that may become pending

ASSUME MaxBlockAssumption == MaxBlock \in Nat \ {0}

Block == 0..MaxBlock
Never == MaxBlock + 1   \* "included in" for a transaction not sent yet
ZeroHash == -1          \* FixedBytes::ZERO; the hash of a sealed block is its number

Status == {"none", "pending", "sealed"}

VARIABLES head,       \* the highest sealed block
          included,   \* the block each transaction is in, or Never
          headers,    \* collection "headers": the document of each block
          docs        \* the other collections: the document of each transaction

chainVars == <<head, included, headers, docs>>

ChainTypeOK ==
  /\ head \in 0..MaxBlock - 1
  /\ included \in [Tx -> Block \cup {Never}]
  /\ headers \in [Block -> Status]
  /\ docs \in [Collection -> [Tx -> Status]]

ChainInit ==
  /\ head = 0
  /\ included = [t \in Tx |-> Never]
  /\ headers = [n \in Block |-> "none"]
  /\ docs = [col \in Collection |-> [t \in Tx |-> "none"]]

(***************************************************************************)
(* The hash a document of block n carries.                                 *)
(***************************************************************************)
DocHash(n, status) == IF status = "pending" THEN ZeroHash ELSE n

(***************************************************************************)
(* What a query {blockHash: ..} or {blockNumber: ..} matches.              *)
(***************************************************************************)
Matches(key, n, status) ==
  /\ status # "none"
  /\ key.at = IF key.by = "hash" THEN DocHash(n, status) ELSE n

-----------------------------------------------------------------------------
AcceptTx(t) ==
  /\ included[t] = Never
  /\ included' = [included EXCEPT ![t] = head + 1]
  /\ UNCHANGED <<head, headers, docs>>

SealBlock ==
  /\ head + 1 < MaxBlock
  /\ head' = head + 1
  /\ UNCHANGED <<included, headers, docs>>

(***************************************************************************)
(* The indexer has stored block n in its final form.                       *)
(***************************************************************************)
Stored(n) ==
  /\ headers[n] = "sealed"
  /\ \A col \in Collection, t \in Tx : included[t] = n => docs[col][t] = "sealed"

(***************************************************************************)
(* A document of block n, now "old", may be written as status.  The status *)
(* may be out of date by the time it is written, so a pending document can *)
(* be inserted after its block was sealed.                                 *)
(***************************************************************************)
MayWrite(n, old, status) ==
  /\ \A m \in Block : m < n => Stored(m)
  /\ \/ status = "pending" /\ old = "none" /\ n > 0 /\ n <= head + 1
     \/ status = "sealed" /\ old # "sealed" /\ n <= head

IndexHeader(n, status) ==
  /\ MayWrite(n, headers[n], status)
  /\ headers' = [headers EXCEPT ![n] = status]
  /\ UNCHANGED <<head, included, docs>>

IndexDoc(col, t, status) ==
  /\ MayWrite(included[t], docs[col][t], status)
  /\ docs' = [docs EXCEPT ![col][t] = status]
  /\ UNCHANGED <<head, included, headers>>

ChainNext ==
  \/ \E t \in Tx : AcceptTx(t)
  \/ SealBlock
  \/ \E n \in Block, status \in Status : IndexHeader(n, status)
  \/ \E col \in Collection, t \in Tx, status \in Status : IndexDoc(col, t, status)
=============================================================================
