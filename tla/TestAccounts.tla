---------------------------- MODULE TestAccounts ----------------------------
(***************************************************************************)
(* The test environment: each test has the mock database, a Katana of its  *)
(* own that mines on demand, and one account, KakarotEOA.  Its operations  *)
(* read the nonce, sign, send, and, except for transfer, poll the receipt  *)
(* (watch_tx) a bounded number of times; deploy then reads the receipt     *)
(* again and wants the one of a sealed block.                              *)
(*                                                                         *)
(* The node (external) takes any transaction into its pool, executes them  *)
(* in order, and drops those whose nonce is not the account's.             *)
(***************************************************************************)
EXTENDS MockDatabase, FiniteSets

CONSTANTS MaxOps,    \* bound: operations per test
          MaxPolls   \* the count given to watch_tx, scaled down

ASSUME PollAssumption == MaxPolls \in Nat

VARIABLES pc,       \* where each test is
          op,       \* its operation
          nonce,    \* the nonce it read
          hash,     \* the transaction it sent: its place in the pool
          polls,    \* watch_tx: i
          ops,      \* how many operations it began
          pool,     \* its node: the nonces of the transactions taken
          outcome,  \* its node: what became of those executed
          sealed,   \* its node: how many of those are in sealed blocks
          watched   \* ghost: every earlier operation waited for its transaction

acctVars == <<pc, op, nonce, hash, polls, ops, pool, outcome, sealed, watched>>
vars == <<dbVars, acctVars>>

Op == {"transfer", "call", "deploy"}

TypeOK ==
  /\ DbTypeOK
  /\ pc \in [Test -> {"setup", "idle", "nonce", "send", "watch", "receipt", "failed", "panicked"}]
  /\ op \in [Test -> Op]
  /\ nonce \in [Test -> Nat]
  /\ \A t \in Test : hash[t] \in 0..Len(pool[t])
  /\ polls \in [Test -> 0..MaxPolls]
  /\ ops \in [Test -> 0..MaxOps]
  /\ \A t \in Test : Len(outcome[t]) <= Len(pool[t]) /\ sealed[t] <= Len(outcome[t])
  /\ watched \in [Test -> BOOLEAN]

Init ==
  /\ DbInit
  /\ pc = [t \in Test |-> "setup"]
  /\ op \in [Test -> {"call"}]
  /\ nonce = [t \in Test |-> 0] /\ hash = [t \in Test |-> 0]
  /\ polls = [t \in Test |-> 0] /\ ops = [t \in Test |-> 0]
  /\ pool = [t \in Test |-> <<>>] /\ outcome = [t \in Test |-> <<>>]
  /\ sealed = [t \in Test |-> 0]
  /\ watched = [t \in Test |-> TRUE]

-----------------------------------------------------------------------------
Goto(t, where) == pc' = [pc EXCEPT ![t] = where]

(***************************************************************************)
(* The node.                                                               *)
(***************************************************************************)
Nonce(t, n) == Cardinality({i \in 1..n : outcome[t][i] # "dropped"})

Outcomes(t) ==
  IF pool[t][Len(outcome[t]) + 1] = Nonce(t, Len(outcome[t])) THEN {"succeeded", "reverted"}
  ELSE {"dropped"}

\* A mutant of Mine: blocks are mined by the clock, with receipts in between.
MineLater(t) ==
  /\ \/ /\ Len(outcome[t]) < Len(pool[t])
        /\ \E o \in Outcomes(t) : outcome' = [outcome EXCEPT ![t] = Append(@, o)]
        /\ UNCHANGED sealed
     \/ /\ sealed[t] < Len(outcome[t])
        /\ sealed' = [sealed EXCEPT ![t] = Len(outcome[t])]
        /\ UNCHANGED outcome
  /\ UNCHANGED <<dbVars, pc, op, nonce, hash, polls, ops, pool, watched>>

(***************************************************************************)
(* The sequencer is started without a block time: it executes the next     *)
(* transaction and seals a block with it at once.                          *)
(***************************************************************************)
Mine(t) ==
  /\ Len(outcome[t]) < Len(pool[t])
  /\ \E o \in Outcomes(t) : outcome' = [outcome EXCEPT ![t] = Append(@, o)]
  /\ sealed' = [sealed EXCEPT ![t] = Len(outcome[t]) + 1]
  /\ UNCHANGED <<dbVars, pc, op, nonce, hash, polls, ops, pool, watched>>

Receipt(t) ==
  IF hash[t] > Len(outcome[t]) \/ outcome[t][hash[t]] = "dropped" THEN "not_found"
  ELSE outcome[t][hash[t]]

-----------------------------------------------------------------------------
SetUp(t) ==
  /\ pc[t] = "setup"
  /\ IF Ready(t) THEN Goto(t, "idle") /\ UNCHANGED dbVars
     ELSE DbStep(t) /\ UNCHANGED pc
  /\ UNCHANGED <<op, nonce, hash, polls, ops, pool, outcome, sealed, watched>>

Begin(t, o) ==
  /\ pc[t] = "idle" /\ ops[t] < MaxOps
  /\ op' = [op EXCEPT ![t] = o]
  /\ ops' = [ops EXCEPT ![t] = @ + 1]
  /\ Goto(t, "nonce")
  /\ UNCHANGED <<dbVars, nonce, hash, polls, pool, outcome, sealed, watched>>

(***************************************************************************)
(* nonce(): transaction_count at the pending tag.                          *)
(***************************************************************************)
ReadNonce(t) ==
  /\ pc[t] = "nonce"
  /\ \/ nonce' = [nonce EXCEPT ![t] = Nonce(t, Len(outcome[t]))] /\ Goto(t, "send")
     \/ Goto(t, "failed") /\ UNCHANGED nonce
  /\ UNCHANGED <<dbVars, op, hash, polls, ops, pool, outcome, sealed, watched>>

(***************************************************************************)
(* chain_id, the transaction, its signature and send_raw_transaction.      *)
(* transfer returns without waiting.                                       *)
(***************************************************************************)
Send(t) ==
  /\ pc[t] = "send"
  /\ \/ /\ pool' = [pool EXCEPT ![t] = Append(@, nonce[t])]
        /\ hash' = [hash EXCEPT ![t] = Len(pool[t]) + 1]
        /\ polls' = [polls EXCEPT ![t] = 0]
        /\ Goto(t, IF op[t] = "transfer" THEN "idle" ELSE "watch")
        /\ watched' = [watched EXCEPT ![t] = @ /\ op[t] # "transfer"]
     \/ /\ Goto(t, "failed")
        /\ UNCHANGED <<pool, hash, polls, watched>>
  /\ UNCHANGED <<dbVars, op, nonce, ops, outcome, sealed>>

\* A mutant of Confirmed: a transaction that is not there yet will do.
ConfirmedAbsent(t) == Receipt(t) \in {"succeeded", "not_found"}
Confirmed(t) == Receipt(t) = "succeeded"

(***************************************************************************)
(* One turn of watch_tx.  Its callers panic on an error.                   *)
(***************************************************************************)
PollEndless(t) ==   \* a mutant of Poll: the turns are not counted
  /\ pc[t] = "watch"
  /\ IF Confirmed(t) THEN Goto(t, IF op[t] = "deploy" THEN "receipt" ELSE "idle")
     ELSE IF Receipt(t) = "reverted" THEN Goto(t, "panicked") ELSE UNCHANGED pc
  /\ UNCHANGED <<dbVars, op, nonce, hash, polls, ops, pool, outcome, sealed, watched>>
Poll(t) ==
  /\ pc[t] = "watch"
  /\ \/ /\ polls[t] < MaxPolls /\ Confirmed(t)
        /\ Goto(t, IF op[t] = "deploy" THEN "receipt" ELSE "idle")
        /\ UNCHANGED polls
     \/ /\ polls[t] < MaxPolls /\ ~Confirmed(t) /\ Receipt(t) = "not_found"
        /\ polls' = [polls EXCEPT ![t] = @ + 1]
        /\ UNCHANGED pc
     \/ /\ polls[t] = MaxPolls \/ (~Confirmed(t) /\ Receipt(t) = "reverted")
        /\ Goto(t, "panicked")
        /\ UNCHANGED polls
  /\ UNCHANGED <<dbVars, op, nonce, hash, ops, pool, outcome, sealed, watched>>

(***************************************************************************)
(* Any other error of the node ends the polling.                           *)
(***************************************************************************)
PollFails(t) ==
  /\ pc[t] = "watch" /\ polls[t] < MaxPolls
  /\ Goto(t, "panicked")
  /\ UNCHANGED <<dbVars, op, nonce, hash, polls, ops, pool, outcome, sealed, watched>>

(***************************************************************************)
(* deploy: the receipt once more.  An error of the node panics; a pending  *)
(* receipt, or one without the event of the deployment, is an error.       *)
(***************************************************************************)
SealedReceipt(t) == hash[t] <= sealed[t]
ReadReceipt(t) ==
  /\ pc[t] = "receipt"
  /\ \/ SealedReceipt(t) /\ Goto(t, "idle")
     \/ Goto(t, "failed")
     \/ Goto(t, "panicked")
  /\ UNCHANGED <<dbVars, op, nonce, hash, polls, ops, pool, outcome, sealed, watched>>

TestStep(t) ==
  \/ SetUp(t)
  \/ ReadNonce(t)
  \/ Send(t)
  \/ Poll(t)
  \/ ReadReceipt(t)

AllOver ==
  /\ \A t \in Test : pc[t] \in {"failed", "panicked"} \/ (pc[t] = "idle" /\ ops[t] = MaxOps)
  /\ UNCHANGED vars

Next ==
  \/ \E t \in Test :
       \/ TestStep(t)
       \/ \E o \in Op : Begin(t, o)
       \/ PollFails(t)
       \/ Mine(t)
  \/ AllOver

(***************************************************************************)
(* The tests' threads run; nothing is assumed of the nodes.                *)
(***************************************************************************)
Spec == Init /\ [][Next]_vars /\ \A t \in Test : WF_vars(TestStep(t))

-----------------------------------------------------------------------------
(***************************************************************************)
(* As long as a test waits for its transactions, no nonce is drawn twice   *)
(* and none left out: the next one sent is the one the node expects.  Only *)
(* transfer, which does not wait, can make the next operation fail.        *)
(***************************************************************************)
NonceIsNext ==
  \A t \in Test : pc[t] = "send" /\ watched[t] => nonce[t] = Len(pool[t])

(***************************************************************************)
(* watch_tx is content with a pending receipt, deploy_evm_contract is not: *)
(* that a confirmed deployment is never reported as failed rests on the    *)
(* sequencer mining on demand.                                             *)
(***************************************************************************)
ConfirmedIsSealed == \A t \in Test : pc[t] = "receipt" => SealedReceipt(t)

(***************************************************************************)
(* The polling ends, also when the node never executes the transaction.    *)
(***************************************************************************)
WatchEnds == \A t \in Test : pc[t] = "watch" ~> pc[t] # "watch"
=============================================================================
