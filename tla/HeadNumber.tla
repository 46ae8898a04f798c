----------------------------- MODULE HeadNumber -----------------------------
(***************************************************************************)
(* EthDataProvider::block_number and tag_into_block_number: the first      *)
(* await of every handler that takes a block number or a tag.  The number  *)
(* of the latest block is the highest header in the database; only when    *)
(* there is none is the Starknet node asked, in a second await.            *)
(*                                                                         *)
(* An asked block is [by |-> "number", at |-> n], [by |-> "hash", at |->   *)
(* h], or a tag with at = 0: "latest" stands for Latest, Pending, Safe and *)
(* Finalized, which the code resolves alike, "earliest" for itself.        *)
(***************************************************************************)
EXTENDS Chain

CONSTANTS Client

VARIABLES pc,       \* where the request each client has in flight is
          number,   \* the number its tag resolved to
          viaHeader, \* ghost: that number was taken from a header
          newest    \* ghost: the highest number ever taken from a header

headVars == <<pc, number, viaHeader, newest>>

HeadInit ==
  /\ pc = [c \in Client |-> "idle"]
  /\ number = [c \in Client |-> 0]
  /\ viaHeader = [c \in Client |-> FALSE]
  /\ newest = 0

Indexed == {n \in Block : headers[n] # "none"}

\* Mutants of TopHeader: one block too far, the node's number although the
\* index lags, and the pending header or else the first one stored.
TopHeaderPlusOne == (CHOOSE n \in Indexed : \A m \in Indexed : m <= n) + 1
TopHeaderOfNode == head
TopHeaderPendingFirst ==
  IF \E n \in Indexed : headers[n] = "pending"
    THEN CHOOSE n \in Indexed : headers[n] = "pending"
    ELSE CHOOSE n \in Indexed : \A m \in Indexed : n <= m

TopHeader == CHOOSE n \in Indexed : \A m \in Indexed : m <= n

(***************************************************************************)
(* tag_into_block_number before its await: where the request goes next and *)
(* the number it already knows.                                            *)
(***************************************************************************)
ResolveTag(c, id, next) ==
  /\ pc' = [pc EXCEPT ![c] = IF id.by = "latest" THEN "newest" ELSE next]
  /\ number' = [number EXCEPT ![c] = IF id.by = "latest" THEN 0 ELSE id.at]
  /\ viaHeader' = [viaHeader EXCEPT ![c] = FALSE]
  /\ UNCHANGED newest

(***************************************************************************)
(* get_one("headers", {}, sort -1)                                         *)
(***************************************************************************)
NewestHeader(c, next) ==
  /\ pc[c] = "newest"
  /\ IF Indexed = {}
       THEN /\ pc' = [pc EXCEPT ![c] = "fallback"]
            /\ UNCHANGED <<number, viaHeader, newest>>
       ELSE /\ pc' = [pc EXCEPT ![c] = next]
            /\ number' = [number EXCEPT ![c] = TopHeader]
            /\ viaHeader' = [viaHeader EXCEPT ![c] = TRUE]
            /\ newest' = IF TopHeader > newest THEN TopHeader ELSE newest

(***************************************************************************)
(* starknet_provider.block_number(), when the database was empty           *)
(***************************************************************************)
StarknetHead(c, next) ==
  /\ pc[c] = "fallback"
  /\ pc' = [pc EXCEPT ![c] = next]
  /\ number' = [number EXCEPT ![c] = head]
  /\ UNCHANGED <<viaHeader, newest>>
=============================================================================
