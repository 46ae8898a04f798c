---------------------------- MODULE DeployWallet ----------------------------
(***************************************************************************)
(* eth_sendRawTransaction in the hive build, where a transaction of an     *)
(* account the node does not know first deploys that account with a        *)
(* transaction of the deployer.  Any number of requests run at once; they  *)
(* share the deployer's next nonce, DEPLOY_WALLET_NONCE, a counter behind  *)
(* a tokio mutex (first come, first served) that the code holds across the *)
(* await that hands the deployment to the node.                            *)
(*                                                                         *)
(* The node executes a deployer transaction only with the nonce that       *)
(* follows the ones it took.  With another it refuses it, or, as Katana    *)
(* does, takes it into its pool, answers Ok and drops it later.  It may    *)
(* refuse any transaction, its answer may be lost after it took one, and   *)
(* the server may be stopped and started.                                  *)
(***************************************************************************)
EXTENDS Integers, Sequences, FiniteSets

CONSTANTS Request,      \* the eth_sendRawTransaction calls
          Signer,       \* per request the account that signed
          Genesis,      \* the accounts deployed from the start
          NoOne,        \* no request
          MayLose,      \* whether an answer of the node may be lost
          MaxRestarts   \* bound: how often the server is restarted

ASSUME RequestAssumption == NoOne \notin Request
ASSUME FaultAssumption == MayLose \in BOOLEAN /\ MaxRestarts \in Nat

VARIABLES pc,        \* where each request is
          current,   \* per request, current_nonce: its copy of the counter
          nonce,     \* *DEPLOY_WALLET_NONCE
          holder,    \* the request that holds the mutex, or NoOne
          queue,     \* the requests waiting for it
          pool,      \* the node: the requests whose deployment it took, in order
          sealed,    \* the node: how many of them are in sealed blocks
          submitted, \* the node: the requests whose own transaction it got
          unchecked, \* ghost: requests whose account check failed otherwise
          missed,    \* ghost: how many deployments the counter is behind
          overlooked, \* ghost: how many it ever missed
          wasted,    \* ghost: requests told Ok whose deployment was dropped
          restarts   \* how often the server was restarted

missVars == <<missed, overlooked, wasted>>
vars == <<pc, current, nonce, holder, queue, pool, sealed, submitted, unchecked,
          missVars, restarts>>

Waiting == {"check", "queued"}
Critical == {"prepare", "send", "answer", "dropped", "refused", "bad_nonce"}  \* holding the mutex
Ended == {"ok", "err"}

TypeOK ==
  /\ pc \in [Request -> {"idle", "submit"} \cup Waiting \cup Critical \cup Ended]
  /\ current \in [Request -> Nat]
  /\ nonce \in Nat
  /\ holder \in Request \cup {NoOne}
  /\ queue \in Seq(Request)
  /\ pool \in Seq(Request)
  /\ sealed \in 0..Len(pool)
  /\ submitted \subseteq Request
  /\ unchecked \subseteq Request
  /\ missed \in Nat /\ overlooked \in Nat /\ wasted \subseteq Request
  /\ restarts \in 0..MaxRestarts

Init ==
  /\ pc = [r \in Request |-> "idle"]
  /\ current = [r \in Request |-> 0]
  /\ nonce = 0
  /\ holder = NoOne
  /\ queue = <<>>
  /\ pool = <<>>
  /\ sealed = 0
  /\ submitted = {}
  /\ unchecked = {}
  /\ missed = 0 /\ overlooked = 0 /\ wasted = {}
  /\ restarts = 0

(***************************************************************************)
(* The node's sealed state: what a call at the Latest tag sees.            *)
(***************************************************************************)
DeployedBy(n) == {Signer[pool[i]] : i \in 1..n}
SealedAccounts == Genesis \cup DeployedBy(sealed)

Goto(r, where) == pc' = [pc EXCEPT ![r] = where]

-----------------------------------------------------------------------------
(***************************************************************************)
(* Up to the account check: decoding, chain_id() and recovering the signer *)
(* fail without any effect.                                                *)
(***************************************************************************)
Receive(r) ==
  /\ pc[r] = "idle"
  /\ \E where \in {"check", "err"} : Goto(r, where)
  /\ UNCHANGED <<current, nonce, holder, queue, pool, sealed, submitted, unchecked,
                 missVars, restarts>>

(***************************************************************************)
(* get_implementation at Latest.  Only "contract not found" leads to a     *)
(* deployment; any other error is dropped and the request goes on.         *)
(***************************************************************************)
CheckAccount(r) ==
  /\ pc[r] = "check"
  /\ \/ /\ Signer[r] \in SealedAccounts
        /\ Goto(r, "submit")
        /\ UNCHANGED <<queue, unchecked>>
     \/ /\ Signer[r] \notin SealedAccounts
        /\ Goto(r, "queued")
        /\ queue' = Append(queue, r)
        /\ UNCHANGED unchecked
     \/ /\ Goto(r, "submit")
        /\ unchecked' = unchecked \cup {r}
        /\ UNCHANGED queue
  /\ UNCHANGED <<current, nonce, holder, pool, sealed, submitted, missVars, restarts>>

(***************************************************************************)
(* DEPLOY_WALLET_NONCE.lock().await, and the copy taken under it.          *)
(***************************************************************************)
Lock(r) ==
  /\ holder = NoOne
  /\ queue # <<>> /\ Head(queue) = r
  /\ queue' = Tail(queue)
  /\ holder' = r
  /\ current' = [current EXCEPT ![r] = nonce]
  /\ Goto(r, "prepare")
  /\ UNCHANGED <<nonce, pool, sealed, submitted, unchecked, missVars, restarts>>

\* Mutants of Prepare: an error keeps the guard, and the guard lives only until
\* the request is built.
PrepareKeepsLock(r) ==
  /\ pc[r] = "prepare"
  /\ \E where \in {"send", "err"} : Goto(r, where)
  /\ UNCHANGED <<current, nonce, holder, queue, pool, sealed, submitted, unchecked,
                 missVars, restarts>>
PrepareUnlocks(r) ==
  /\ pc[r] = "prepare"
  /\ \E where \in {"send", "err"} : Goto(r, where)
  /\ holder' = NoOne
  /\ UNCHANGED <<current, nonce, queue, pool, sealed, submitted, unchecked, missVars,
                 restarts>>

(***************************************************************************)
(* prepared() and get_invoke_request().  An error drops the guard.         *)
(***************************************************************************)
Prepare(r) ==
  /\ pc[r] = "prepare"
  /\ \/ Goto(r, "send") /\ UNCHANGED holder
     \/ Goto(r, "err") /\ holder' = NoOne
  /\ UNCHANGED <<current, nonce, queue, pool, sealed, submitted, unchecked, missVars,
                 restarts>>

(***************************************************************************)
(* The node gets the deployment: it takes it if its nonce is next, may     *)
(* pool it if not, and may refuse it in any case.                          *)
(***************************************************************************)
NodeTakes(r) ==
  /\ pc[r] = "send"
  /\ current[r] = Len(pool)
  /\ pool' = Append(pool, r)
  /\ Goto(r, "answer")
  /\ UNCHANGED <<current, nonce, holder, queue, sealed, submitted, unchecked, missVars,
                 restarts>>

NodePools(r) ==
  /\ pc[r] = "send"
  /\ current[r] # Len(pool)
  /\ Goto(r, "dropped")
  /\ UNCHANGED <<current, nonce, holder, queue, pool, sealed, submitted, unchecked,
                 missVars, restarts>>

NodeRefuses(r) ==
  /\ pc[r] = "send"
  /\ Goto(r, IF current[r] = Len(pool) THEN "refused" ELSE "bad_nonce")
  /\ UNCHANGED <<current, nonce, holder, queue, pool, sealed, submitted, unchecked,
                 missVars, restarts>>

(***************************************************************************)
(* The node says Ok to a deployment it takes, or to one it will drop.  The *)
(* nonce of the latter was another's, so the counter gains on the node.    *)
(***************************************************************************)
DeploymentAccepted(r) ==
  \/ pc[r] = "answer" /\ UNCHANGED <<missed, wasted>>
  \/ pc[r] = "dropped" /\ missed' = missed - 1 /\ wasted' = wasted \cup {r}

\* A mutant of Deployed: the increment is forgotten.
DeployedUncounted(r) ==
  /\ DeploymentAccepted(r)
  /\ holder' = NoOne
  /\ Goto(r, "submit")
  /\ UNCHANGED <<current, nonce, queue, pool, sealed, submitted, unchecked, overlooked,
                 restarts>>

(***************************************************************************)
(* add_invoke_transaction returned Ok: *nonce += 1; drop(nonce).           *)
(***************************************************************************)
Deployed(r) ==
  /\ DeploymentAccepted(r)
  /\ nonce' = nonce + 1
  /\ holder' = NoOne
  /\ Goto(r, "submit")
  /\ UNCHANGED <<current, queue, pool, sealed, submitted, unchecked, overlooked, restarts>>

(***************************************************************************)
(* The node refused, or its answer is lost.                                *)
(***************************************************************************)
DeploymentFailed(r) ==
  /\ \/ pc[r] \in {"refused", "bad_nonce"} /\ UNCHANGED <<missed, overlooked>>
     \/ pc[r] = "dropped" /\ MayLose /\ UNCHANGED <<missed, overlooked>>
     \/ /\ pc[r] = "answer" /\ MayLose
        /\ missed' = missed + 1 /\ overlooked' = overlooked + 1
  /\ UNCHANGED wasted

\* Mutants of DeployFails: the counter is raised before the "?", or put back
\* after it, and an error sends the request on instead of ending it.
DeployFailsAs(r, next, counter) ==
  /\ DeploymentFailed(r)
  /\ holder' = NoOne
  /\ nonce' = counter
  /\ Goto(r, next)
  /\ UNCHANGED <<current, queue, pool, sealed, submitted, unchecked, restarts>>
DeployFailsRaised(r) == DeployFailsAs(r, "err", nonce + 1)
DeployFailsPutBack(r) == DeployFailsAs(r, "err", nonce - 1)
DeployFailsGoesOn(r) == DeployFailsAs(r, "submit", nonce)

(***************************************************************************)
(* add_invoke_transaction returned an error: "?" drops the guard and skips *)
(* the increment, also when the node did take the transaction and only its *)
(* answer was lost.                                                        *)
(***************************************************************************)
DeployFails(r) ==
  /\ DeploymentFailed(r)
  /\ holder' = NoOne
  /\ Goto(r, "err")
  /\ UNCHANGED <<current, nonce, queue, pool, sealed, submitted, unchecked, restarts>>

(***************************************************************************)
(* The request's own transaction.                                          *)
(***************************************************************************)
Submit(r) ==
  /\ pc[r] = "submit"
  /\ \E where \in Ended : Goto(r, where)
  /\ submitted' = submitted \cup {r}
  /\ UNCHANGED <<current, nonce, holder, queue, pool, sealed, unchecked, missVars, restarts>>

(***************************************************************************)
(* The node seals a block with the deployments it took so far.             *)
(***************************************************************************)
Seal ==
  /\ sealed < Len(pool)
  /\ sealed' = Len(pool)
  /\ UNCHANGED <<pc, current, nonce, holder, queue, pool, submitted, unchecked, missVars,
                 restarts>>

\* A mutant of Restart: main() does not set the counter, which starts from 0.
RestartFromZero ==
  /\ restarts < MaxRestarts
  /\ restarts' = restarts + 1
  /\ pc' = [r \in Request |-> IF pc[r] = "idle" THEN "idle"
                              ELSE IF pc[r] = "ok" THEN "ok" ELSE "err"]
  /\ nonce' = 0
  /\ holder' = NoOne
  /\ queue' = <<>>
  /\ missed' = Len(pool) - sealed
  /\ overlooked' = overlooked + missed'
  /\ UNCHANGED <<current, pool, sealed, submitted, unchecked, wasted>>

(***************************************************************************)
(* The server stops, losing every request in flight, and main() sets the   *)
(* counter to the deployer's nonce at Latest.                              *)
(***************************************************************************)
Restart ==
  /\ restarts < MaxRestarts
  /\ restarts' = restarts + 1
  /\ pc' = [r \in Request |-> IF pc[r] = "idle" THEN "idle"
                              ELSE IF pc[r] = "ok" THEN "ok" ELSE "err"]
  /\ nonce' = sealed
  /\ holder' = NoOne
  /\ queue' = <<>>
  /\ missed' = Len(pool) - sealed
  /\ overlooked' = overlooked + missed'
  /\ UNCHANGED <<current, pool, sealed, submitted, unchecked, wasted>>

(***************************************************************************)
(* The only way to stop: every call was answered.                          *)
(***************************************************************************)
AllEnded == (\A r \in Request : pc[r] \in Ended) /\ UNCHANGED vars

Step(r) ==
  \/ CheckAccount(r)
  \/ Lock(r)
  \/ Prepare(r)
  \/ NodeTakes(r)
  \/ NodePools(r)
  \/ NodeRefuses(r)
  \/ Deployed(r)
  \/ DeployFails(r)
  \/ Submit(r)

Next ==
  \/ \E r \in Request : Receive(r) \/ Step(r)
  \/ Seal
  \/ Restart
  \/ AllEnded

(***************************************************************************)
(* A request once received is polled until it ends: the runtime runs every *)
(* task and each await completes, if only with an error.                   *)
(***************************************************************************)
Fairness == \A r \in Request : WF_vars(Step(r))

Spec == Init /\ [][Next]_vars /\ Fairness

-----------------------------------------------------------------------------
(***************************************************************************)
(* The counter never runs ahead of the node: no error path, lost answer or *)
(* restart makes the server skip a nonce, which would leave every later    *)
(* deployment waiting for one that never comes.                            *)
(***************************************************************************)
NeverAhead == nonce <= Len(pool)

(***************************************************************************)
(* Whenever the mutex is free the counter is the nonce the node expects,   *)
(* less the deployments it missed: by a lost answer, or by a restart       *)
(* before the node had sealed what it took.                                *)
(***************************************************************************)
InStep == holder = NoOne => nonce + missed = Len(pool)

(***************************************************************************)
(* A request's own transaction reaches the node only after a deployment of *)
(* its account did, or when the account was there, or when the check       *)
(* itself failed and told nothing, or when the node said Ok to a           *)
(* deployment and dropped it.                                              *)
(***************************************************************************)
DeployBeforeSubmit ==
  \A r \in submitted \ (unchecked \cup wasted) :
    Signer[r] \in Genesis \cup DeployedBy(Len(pool))

(***************************************************************************)
(* Of the requests whose deployment was accepted, no more go without it    *)
(* than deployments were missed, over any sequence of faults: a node that  *)
(* drops a stale one lets the counter catch up by it.  (A node that        *)
(* refuses it leaves the counter behind, and the request ends in error.)   *)
(***************************************************************************)
EachMissWastesOne == Cardinality(wasted) <= overlooked

(***************************************************************************)
(* The mutex and the counter make drawing a nonce and using it one step:   *)
(* DeployWallet implements DeploySequencer, whatever is refused, dropped,  *)
(* lost or restarted and whoever waits.  A deployment with a wrong nonce   *)
(* while the counter is not behind has no stage there.                     *)
(***************************************************************************)
Stage(r) ==
  CASE pc[r] = "idle"                                                   -> "idle"
    [] pc[r] \in {"bad_nonce", "dropped"} /\ missed = 0                 -> "bad_nonce"
    [] \E i \in 1..Len(pool) : pool[i] = r                              -> "deployed"
    [] pc[r] \in Waiting \cup {"prepare", "send", "dropped", "bad_nonce"} -> "asked"
    [] OTHER                                                            -> "settled"

Sequencer == INSTANCE DeploySequencer WITH
  stage <- [r \in Request |-> Stage(r)],
  ledger <- pool,
  behind <- missed

ImplementsSequencer == Sequencer!SeqSpec

(***************************************************************************)
(* Every request received ends: the mutex is released on each path, and    *)
(* whoever waits for it gets its turn.                                     *)
(***************************************************************************)
EveryRequestEnds == \A r \in Request : pc[r] = "check" ~> pc[r] \in Ended
=============================================================================
