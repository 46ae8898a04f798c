----------------------------- MODULE HiveImport -----------------------------
(***************************************************************************)
(* hive_chain: the blocks of a file are decoded, then sent to the node     *)
(* body by body, transaction by transaction, each body once the node has   *)
(* sealed as many blocks.  One counter stands for the nonce of every       *)
(* signer.  The node (external) seals a block every --block-time, takes a  *)
(* transaction only with its account's next nonce, and may refuse any.     *)
(***************************************************************************)
EXTENDS Integers, Sequences, FiniteSets

CONSTANTS File,     \* the chain files: [bodies, tail], tail a corrupt last block
          MaxHead   \* bound: the last block the node seals

(***************************************************************************)
(* A transaction has a signer, a nonce, and is sound when its signer and   *)
(* chain id can be recovered.                                              *)
(***************************************************************************)
IsList(s) == Len(s) \in Nat /\ DOMAIN s = 1..Len(s)
ASSUME FileAssumption ==
  /\ MaxHead \in Nat
  /\ \A f \in File :
       /\ f.tail \in BOOLEAN
       /\ IsList(f.bodies) /\ Len(f.bodies) <= MaxHead + 1
       /\ \A b \in DOMAIN f.bodies : IsList(f.bodies[b].txs)

VARIABLES step,     \* where the import is
          file,     \* the file at CHAIN_PATH
          bodies,   \* the bodies decoded
          body,     \* block_number: the index of the current body
          tx,       \* how many of its transactions were sent
          counter,  \* current_nonce
          head,     \* the node: its sealed blocks
          taken,    \* the node: the transactions it took, with the head at that time
          known     \* the node: the EOAs its genesis deployed where the import looks

importVars == <<step, file, bodies, body, tx, counter, head, taken, known>>

Stopped == {"done", "failed", "panicked"}

ImportTypeOK ==
  /\ step \in {"off", "decode", "wait", "send"} \cup Stopped
  /\ file \in File
  /\ bodies \in {<<>>, file.bodies}
  /\ body \in 0..Len(file.bodies)
  /\ counter \in Nat /\ tx \in 0..counter
  /\ head \in 0..MaxHead
  /\ \A i \in DOMAIN taken : taken[i].head \in 0..head

ImportInit ==
  /\ step = "off"
  /\ file \in File
  /\ bodies = <<>> /\ taken = <<>>
  /\ body = 0 /\ tx = 0 /\ counter = 0 /\ head = 0
  /\ known = {}

Body == bodies[body + 1].txs
NodeNonce(signer) == Cardinality({i \in DOMAIN taken : taken[i].signer = signer})

-----------------------------------------------------------------------------
(***************************************************************************)
(* FramedRead over BlockFileCodec: a block that does not decode ends the   *)
(* program before anything was sent.                                       *)
(***************************************************************************)
Decode ==
  /\ step = "decode"
  /\ IF file.tail
       THEN step' = "failed" /\ UNCHANGED bodies
       ELSE bodies' = file.bodies /\ step' = "wait"
  /\ UNCHANGED <<file, body, tx, counter, head, taken, known>>

\* Mutants of MayStart: one block less is waited for; no later one will do.
MayStartEarly == head + 1 >= body
MayStartExactly == head = body
MayStart == head >= body

(***************************************************************************)
(* The wait for the node's block number; while it is too low the import    *)
(* sleeps and asks again.                                                  *)
(***************************************************************************)
AwaitBlock ==
  /\ step = "wait"
  /\ \/ body = Len(bodies) /\ step' = "done"
     \/ body < Len(bodies) /\ MayStart /\ step' = "send"
  /\ UNCHANGED <<file, bodies, body, tx, counter, head, taken, known>>

NoBlockNumber ==
  /\ step = "wait" /\ body < Len(bodies)
  /\ step' = "failed"
  /\ UNCHANGED <<file, bodies, body, tx, counter, head, taken, known>>

\* A mutant of NonceFits: the nonce is not compared.
NonceUnchecked(t) == t.nonce >= 0
NonceFits(t) == t.nonce = counter

(***************************************************************************)
(* One transaction: recovered, converted, its nonce asserted, and sent.    *)
(* The node's answer may be lost.                                          *)
(***************************************************************************)
SendTx ==
  /\ step = "send" /\ tx < Len(Body)
  /\ LET t == Body[tx + 1]
         Takes == taken' = Append(taken, [signer |-> t.signer, nonce |-> t.nonce, head |-> head])
     IN \/ /\ t.sound /\ NonceFits(t)
           /\ t.signer \in known /\ t.nonce = NodeNonce(t.signer)
           /\ Takes
           /\ \/ tx' = tx + 1 /\ counter' = counter + 1 /\ UNCHANGED step
              \/ step' = "failed" /\ UNCHANGED <<tx, counter>>
        \/ /\ step' = IF t.sound /\ ~NonceFits(t) THEN "panicked" ELSE "failed"
           /\ UNCHANGED <<tx, counter, taken>>
  /\ UNCHANGED <<file, bodies, body, head, known>>

NextBody ==
  /\ step = "send" /\ tx = Len(Body)
  /\ body' = body + 1 /\ tx' = 0 /\ step' = "wait"
  /\ UNCHANGED <<file, bodies, counter, head, taken, known>>

ImportStep == Decode \/ AwaitBlock \/ SendTx \/ NextBody

(***************************************************************************)
(* The node seals blocks by the clock, with or without transactions.       *)
(***************************************************************************)
Seal ==
  /\ step # "off"
  /\ head < MaxHead
  /\ head' = head + 1
  /\ UNCHANGED <<step, file, bodies, body, tx, counter, taken, known>>

-----------------------------------------------------------------------------
(***************************************************************************)
(* The places of transactions in a file, and the rank of one: how many     *)
(* there are up to it, body by body.                                       *)
(***************************************************************************)
Places(f) == UNION {{b} \X DOMAIN f.bodies[b].txs : b \in DOMAIN f.bodies}
Earlier(f, b, j) == {p \in Places(f) : p[1] < b \/ (p[1] = b /\ p[2] < j)}
Rank(f, p) == Cardinality(Earlier(f, p[1], p[2])) + 1

(***************************************************************************)
(* What the node took is a beginning of the file, in the file's order, and *)
(* nothing at all when the file does not decode to its end: no transaction *)
(* is skipped, sent twice or sent before the file was known to be good.    *)
(***************************************************************************)
TakenIsPrefix ==
  /\ file.tail => taken = <<>>
  /\ Len(taken) <= Cardinality(Places(file))
  /\ \A p \in Places(file) : Rank(file, p) <= Len(taken) =>
       LET t == file.bodies[p[1]].txs[p[2]]
       IN /\ taken[Rank(file, p)].signer = t.signer
          /\ taken[Rank(file, p)].nonce = t.nonce

(***************************************************************************)
(* The import either sends the transactions of one signer, with the nonces *)
(* 0, 1, 2 ..., or stops: by its own assertion or by the node's check.     *)
(***************************************************************************)
OneSigner ==
  \A i \in DOMAIN taken : taken[i].nonce = i - 1 /\ taken[i].signer = taken[1].signer

(***************************************************************************)
(* Whatever stops the import, what it got into the node is the beginning   *)
(* of one signer's part in the file.                                       *)
(***************************************************************************)
ImportFaithful == TakenIsPrefix /\ OneSigner

(***************************************************************************)
(* No transaction reaches the node before as many blocks are sealed as its *)
(* body has predecessors, so none is in a block of a lower number than in  *)
(* the file; empty bodies are waited for as well.                          *)
(***************************************************************************)
InBodyOrder ==
  \A p \in Places(file) :
    Rank(file, p) <= Len(taken) => taken[Rank(file, p)].head >= p[1] - 1

(***************************************************************************)
(* The import ends: the node keeps sealing, so every wait does.            *)
(***************************************************************************)
ImportEnds == step = "decode" ~> step \in Stopped
=============================================================================
