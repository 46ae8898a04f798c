--------------------------- MODULE DeploySequencer ---------------------------
(***************************************************************************)
(* What the deployer's nonce counter promises to the requests that use it, *)
(* without the counter, the mutex and the messages: each request that asks *)
(* is given, in one step, the deployer's next nonce and a deployment under *)
(* it, or is settled without one.  No deployment is ever offered to the    *)
(* node under a nonce it does not expect, unless the sequencer is behind:  *)
(* an answer for a deployment was lost, or a restart missed some.  Behind  *)
(* it deploys nothing; each request that is settled may let it catch up by *)
(* one deployment, and a restart starts anew.                              *)
(***************************************************************************)
EXTENDS Naturals, Sequences

CONSTANT Request

VARIABLES stage,   \* "idle", "asked", "deployed" or "settled", per request
          ledger,  \* the deployments in the order of their nonces
          behind   \* how many of them the sequencer does not know of

seqVars == <<stage, ledger, behind>>

SeqInit ==
  /\ stage = [r \in Request |-> "idle"]
  /\ ledger = <<>>
  /\ behind = 0

Ask(r) ==
  /\ stage[r] = "idle"
  /\ stage' = [stage EXCEPT ![r] = "asked"]
  /\ UNCHANGED <<ledger, behind>>

Deploy(r) ==
  /\ stage[r] = "asked" /\ behind = 0
  /\ stage' = [stage EXCEPT ![r] = "deployed"]
  /\ ledger' = Append(ledger, r)
  /\ UNCHANGED behind

Settle(r) ==
  /\ stage[r] \in {"idle", "asked"}
  /\ stage' = [stage EXCEPT ![r] = "settled"]
  /\ UNCHANGED <<ledger, behind>>

(***************************************************************************)
(* The request draws a nonce that is taken: its deployment is for nothing. *)
(***************************************************************************)
Waste(r) ==
  /\ stage[r] = "asked" /\ behind > 0
  /\ stage' = [stage EXCEPT ![r] = "settled"]
  /\ behind' = behind - 1
  /\ UNCHANGED ledger

LoseAnswer ==
  /\ behind < Len(ledger)
  /\ behind' = behind + 1
  /\ UNCHANGED <<stage, ledger>>

Restarted ==
  /\ stage' = [r \in Request |-> IF stage[r] = "asked" THEN "settled" ELSE stage[r]]
  /\ behind' \in 0..Len(ledger)
  /\ UNCHANGED ledger

SeqNext ==
  \/ \E r \in Request : Ask(r) \/ Deploy(r) \/ Settle(r) \/ Waste(r)
  \/ LoseAnswer
  \/ Restarted

SeqSafety == SeqInit /\ [][SeqNext]_seqVars

SeqSpec ==
  /\ SeqSafety
  /\ \A r \in Request : WF_seqVars(stage[r] = "asked" /\ (Deploy(r) \/ Settle(r) \/ Waste(r)))
=============================================================================
