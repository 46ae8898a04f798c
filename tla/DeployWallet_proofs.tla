------------------------ MODULE DeployWallet_proofs ------------------------
(***************************************************************************)
(* What the deployer's counter guarantees for any number of requests,      *)
(* signers, lost answers and restarts.  The argument: whoever is between   *)
(* lock() and the end of its guard holds the mutex and has a true copy of  *)
(* the counter; so the node takes a deployment only from the holder and    *)
(* only while the counter has missed none, and the one deployment the      *)
(* counter does not include yet is the one whose answer is on its way.     *)
(* So drawing a nonce and deploying with it looks like one step, which is  *)
(* what DeploySequencer specifies.                                         *)
(***************************************************************************)
EXTENDS DeployWallet, SequenceTheorems, FiniteSetTheorems, TLAPS

(***************************************************************************)
(* The guard is held exactly between lock().await and its drop.            *)
(***************************************************************************)
Mutex == \A r \in Request : pc[r] \in Critical <=> holder = r

(***************************************************************************)
(* current_nonce is the counter for as long as the guard is held.          *)
(***************************************************************************)
TrueCopy == \A r \in Request : pc[r] \in Critical => current[r] = nonce

(***************************************************************************)
(* The counter against the deployments the node took: short of them by     *)
(* those it missed, and by the one whose answer is on its way.  A nonce    *)
(* that is another's is drawn only when some were missed.                  *)
(***************************************************************************)
OneUncounted ==
  \A r \in Request : pc[r] = "answer" =>
    missed = 0 /\ Len(pool) = nonce + 1 /\ pool[Len(pool)] = r
AllCounted == (\A r \in Request : pc[r] # "answer") => Len(pool) = nonce + missed
StaleBehind == \A r \in Request : pc[r] \in {"dropped", "bad_nonce"} => missed > 0

IInv == TypeOK /\ Mutex /\ TrueCopy /\ OneUncounted /\ AllCounted /\ StaleBehind

LEMMA TypeInit == Init => TypeOK
<1> SUFFICES ASSUME Init PROVE TypeOK
  OBVIOUS
<1>1. queue \in Seq(Request) /\ pool \in Seq(Request) /\ Len(pool) = 0
  BY DEF Init
<1>2. restarts \in 0..MaxRestarts /\ sealed \in 0..Len(pool)
  BY <1>1, FaultAssumption DEF Init
<1>3. QED
  BY <1>1, <1>2 DEF Init, TypeOK

LEMMA TypeStep == TypeOK /\ StaleBehind /\ [Next]_vars => TypeOK'
<1> SUFFICES ASSUME TypeOK, StaleBehind, [Next]_vars PROVE TypeOK'
  OBVIOUS
<1> USE RequestAssumption, FaultAssumption DEF TypeOK, Waiting, Critical, Ended, Goto, missVars
<1>1. ASSUME NEW r \in Request, Receive(r) PROVE TypeOK'
  BY <1>1 DEF Receive
<1>2. ASSUME NEW r \in Request, CheckAccount(r) PROVE TypeOK'
  <2>1. unchecked' \subseteq Request
    BY <1>2 DEF CheckAccount
  <2>2. pc' \in [Request -> {"idle", "submit"} \cup Waiting \cup Critical \cup Ended]
    BY <1>2 DEF CheckAccount
  <2>3. queue' = queue \/ queue' = Append(queue, r)
    BY <1>2 DEF CheckAccount
  <2>4. queue' \in Seq(Request)
    <3> HIDE DEF TypeOK
    <3>1. queue \in Seq(Request)
      BY DEF TypeOK
    <3>2. Append(queue, r) \in Seq(Request)
      BY <3>1, AppendProperties
    <3>3. QED
      BY <2>3, <3>1, <3>2
  <2>5. QED
    BY <1>2, <2>1, <2>2, <2>4 DEF CheckAccount
<1>3. ASSUME NEW r \in Request, Lock(r) PROVE TypeOK'
  BY <1>3 DEF Lock
<1>4. ASSUME NEW r \in Request, Prepare(r) PROVE TypeOK'
  BY <1>4 DEF Prepare
<1>5. ASSUME NEW r \in Request, NodeTakes(r) PROVE TypeOK'
  BY <1>5 DEF NodeTakes
<1>6. ASSUME NEW r \in Request, NodeRefuses(r) PROVE TypeOK'
  BY <1>6 DEF NodeRefuses
<1>14. ASSUME NEW r \in Request, NodePools(r) PROVE TypeOK'
  BY <1>14 DEF NodePools
<1>7. ASSUME NEW r \in Request, Deployed(r) PROVE TypeOK'
  <2>1. missed' \in Nat /\ wasted' \subseteq Request /\ overlooked' \in Nat
    <3>1. pc[r] = "dropped" => missed > 0
      BY DEF StaleBehind
    <3>2. QED
      BY <1>7, <3>1 DEF Deployed, DeploymentAccepted
  <2>2. QED
    BY <1>7, <2>1 DEF Deployed
<1>8. ASSUME NEW r \in Request, DeployFails(r) PROVE TypeOK'
  <2>1. missed' \in Nat /\ wasted' \subseteq Request /\ overlooked' \in Nat
    BY <1>8 DEF DeployFails, DeploymentFailed
  <2>2. QED
    BY <1>8, <2>1 DEF DeployFails
<1>9. ASSUME NEW r \in Request, Submit(r) PROVE TypeOK'
  BY <1>9 DEF Submit
<1>10. CASE Seal
  BY <1>10 DEF Seal
<1>11. CASE Restart
  BY <1>11 DEF Restart
<1>12. CASE AllEnded \/ UNCHANGED vars
  BY <1>12 DEF AllEnded, vars
<1>13. QED
  BY <1>1, <1>2, <1>3, <1>4, <1>5, <1>6, <1>7, <1>8, <1>9, <1>10, <1>11, <1>12, <1>14 DEF Next, Step

LEMMA InvInit == Init => IInv
<1> SUFFICES ASSUME Init PROVE IInv
  OBVIOUS
<1>1. Mutex /\ TrueCopy /\ OneUncounted
  BY RequestAssumption DEF Init, Mutex, TrueCopy, OneUncounted, Critical
<1>2. AllCounted /\ StaleBehind
  BY DEF Init, AllCounted, StaleBehind
<1>3. QED
  BY TypeInit, <1>1, <1>2 DEF IInv

(***************************************************************************)
(* The types the step needs, without the sequences they come from.         *)
(***************************************************************************)
LEMMA Shapes ==
  TypeOK => /\ pc \in [Request -> {"idle", "submit"} \cup Waiting \cup Critical \cup Ended]
            /\ current \in [Request -> Nat]
            /\ nonce \in Nat /\ Len(pool) \in Nat /\ sealed \in Nat /\ sealed <= Len(pool)
            /\ missed \in Nat
  BY DEF TypeOK

(***************************************************************************)
(* The invariant is inductive: only Lock enters the guard, only NodeTakes  *)
(* adds a deployment, and the counter follows it or has missed it.         *)
(***************************************************************************)
LEMMA InvStep == IInv /\ [Next]_vars => IInv'
<1> SUFFICES ASSUME IInv, [Next]_vars PROVE IInv'
  OBVIOUS
<1> DEFINE Guard == Mutex /\ TrueCopy
           Counter == OneUncounted /\ AllCounted /\ StaleBehind
<1>e. TypeOK'
  BY TypeStep DEF IInv
<1>a. /\ pc \in [Request -> {"idle", "submit"} \cup Waiting \cup Critical \cup Ended]
      /\ current \in [Request -> Nat]
      /\ nonce \in Nat /\ Len(pool) \in Nat /\ sealed \in Nat /\ sealed <= Len(pool)
  BY Shapes DEF IInv
<1>b. missed \in Nat /\ missed' \in Nat /\ pool \in Seq(Request)
  BY <1>e DEF IInv, TypeOK
<1>c. Guard /\ Counter
  BY DEF IInv
<1>d. SUFFICES Guard' /\ Counter'
  BY <1>e DEF IInv
<1> USE RequestAssumption, <1>a, <1>b, <1>c DEF Waiting, Critical, Ended, Goto, missVars
<1>1. ASSUME NEW r \in Request, Receive(r) PROVE Guard' /\ Counter'
  <2>1. Guard'
    BY <1>1 DEF Receive, Mutex, TrueCopy
  <2>2. Counter'
    BY <1>1 DEF Receive, OneUncounted, AllCounted, StaleBehind
  <2>3. QED
    BY <2>1, <2>2
<1>2. ASSUME NEW r \in Request, CheckAccount(r) PROVE Guard' /\ Counter'
  <2>1. UNCHANGED <<current, nonce, holder, pool, missed>>
    BY <1>2 DEF CheckAccount
  <2>2. pc[r] = "check" /\ (Goto(r, "submit") \/ Goto(r, "queued"))
    BY <1>2 DEF CheckAccount
  <2>3. Guard'
    BY <2>1, <2>2 DEF Mutex, TrueCopy
  <2>4. Counter'
    BY <2>1, <2>2 DEF OneUncounted, AllCounted, StaleBehind
  <2>5. QED
    BY <2>3, <2>4
<1>3. ASSUME NEW r \in Request, Lock(r) PROVE Guard' /\ Counter'
  <2>1. pc' = [pc EXCEPT ![r] = "prepare"] /\ current' = [current EXCEPT ![r] = nonce]
    BY <1>3 DEF Lock
  <2>2. holder' = r /\ UNCHANGED <<nonce, pool, missed>>
    BY <1>3 DEF Lock
  <2>3. \A q \in Request : pc[q] \notin Critical
    BY <1>3 DEF Lock, Mutex
  <2>4. Guard'
    BY <2>1, <2>2, <2>3 DEF Mutex, TrueCopy
  <2>5. Counter'
    BY <2>1, <2>2, <2>3 DEF OneUncounted, AllCounted, StaleBehind
  <2>6. QED
    BY <2>4, <2>5
<1>4. ASSUME NEW r \in Request, Prepare(r) PROVE Guard' /\ Counter'
  <2>1. Guard'
    BY <1>4 DEF Prepare, Mutex, TrueCopy
  <2>2. Counter'
    BY <1>4 DEF Prepare, OneUncounted, AllCounted, StaleBehind
  <2>3. QED
    BY <2>1, <2>2
<1>5. ASSUME NEW r \in Request, NodeTakes(r) PROVE Guard' /\ Counter'
  <2>1. Guard'
    BY <1>5 DEF NodeTakes, Mutex, TrueCopy
  <2>2. missed = 0 /\ Len(pool) = nonce
    BY <1>5 DEF NodeTakes, TrueCopy, Mutex, AllCounted
  <2>3. Len(pool') = nonce + 1 /\ pool'[Len(pool')] = r
    BY <1>5, <1>b, <2>2, AppendProperties DEF NodeTakes
  <2>4. \A q \in Request : pc'[q] \in Critical => q = r
    BY <1>5 DEF NodeTakes, Mutex
  <2>5. pc'[r] = "answer" /\ UNCHANGED <<nonce, missed>>
    BY <1>5 DEF NodeTakes
  <2>6. Counter'
    BY <2>2, <2>3, <2>4, <2>5 DEF OneUncounted, AllCounted, StaleBehind
  <2>7. QED
    BY <2>1, <2>6
<1>6. ASSUME NEW r \in Request, NodeRefuses(r) \/ NodePools(r) PROVE Guard' /\ Counter'
  <2>1. Guard'
    BY <1>6 DEF NodeRefuses, NodePools, Mutex, TrueCopy
  <2>2. pc[r] = "send" /\ current[r] = nonce
        /\ (\A q \in Request : pc[q] # "answer") /\ (\A q \in Request \ {r} : pc'[q] = pc[q])
    BY <1>6 DEF NodeRefuses, NodePools, TrueCopy, Mutex
  <2>4. pc'[r] \in {"dropped", "bad_nonce"} => missed > 0
    BY <1>6, <2>2 DEF NodeRefuses, NodePools, AllCounted
  <2>5. UNCHANGED <<nonce, pool, missed>> /\ pc'[r] # "answer"
    BY <1>6 DEF NodeRefuses, NodePools
  <2>6. Counter'
    BY <2>2, <2>4, <2>5 DEF OneUncounted, AllCounted, StaleBehind
  <2>3. QED
    BY <2>1, <2>6
<1>7. ASSUME NEW r \in Request, Deployed(r) PROVE Guard' /\ Counter'
  <2>1. Guard'
    BY <1>7 DEF Deployed, DeploymentAccepted, Mutex, TrueCopy
  <2>2. \A q \in Request : pc'[q] \notin Critical /\ (q # r => pc[q] \notin Critical)
    BY <1>7 DEF Deployed, DeploymentAccepted, Mutex
  <2>3. nonce' = nonce + 1 /\ pool' = pool
    BY <1>7 DEF Deployed
  <2>4. Len(pool) = nonce + 1 + missed'
    <3>1. CASE pc[r] = "answer" /\ missed' = missed
      BY <3>1 DEF OneUncounted
    <3>2. CASE pc[r] = "dropped" /\ missed' = missed - 1
      <4>1. \A q \in Request : pc[q] # "answer"
        BY <2>2, <3>2
      <4>2. Len(pool) = nonce + missed
        BY <4>1 DEF AllCounted
      <4>3. QED
        BY <3>2, <4>2
    <3>3. QED
      BY <1>7, <3>1, <3>2 DEF Deployed, DeploymentAccepted
  <2>5. Counter'
    BY <2>2, <2>3, <2>4 DEF OneUncounted, AllCounted, StaleBehind
  <2>6. QED
    BY <2>1, <2>5
<1>8. ASSUME NEW r \in Request, DeployFails(r) PROVE Guard' /\ Counter'
  <2>1. pc[r] \in Critical /\ Goto(r, "err") /\ holder' = NoOne
    BY <1>8 DEF DeployFails, DeploymentFailed
  <2>2. UNCHANGED <<current, nonce, pool>>
    BY <1>8 DEF DeployFails
  <2>3. Guard'
    BY <2>1, <2>2 DEF Mutex, TrueCopy
  <2>4. \A q \in Request : pc'[q] \notin Critical /\ (q # r => pc[q] \notin Critical)
    BY <2>1 DEF Mutex
  <2>5. Len(pool) = nonce + missed'
    <3>1. CASE pc[r] = "answer" /\ missed' = missed + 1
      BY <3>1 DEF OneUncounted
    <3>2. CASE pc[r] # "answer" /\ missed' = missed
      BY <2>4, <3>2 DEF AllCounted
    <3>3. QED
      BY <1>8, <3>1, <3>2 DEF DeployFails, DeploymentFailed
  <2>6. Counter'
    BY <2>2, <2>4, <2>5 DEF OneUncounted, AllCounted, StaleBehind
  <2>7. QED
    BY <2>3, <2>6
<1>9. ASSUME NEW r \in Request, Submit(r) PROVE Guard' /\ Counter'
  <2>1. Guard'
    BY <1>9 DEF Submit, Mutex, TrueCopy
  <2>2. Counter'
    BY <1>9 DEF Submit, OneUncounted, AllCounted, StaleBehind
  <2>3. QED
    BY <2>1, <2>2
<1>10. CASE Restart
  <2>1. \A q \in Request : pc'[q] \notin Critical
    BY <1>10 DEF Restart
  <2>2. nonce' = sealed /\ holder' = NoOne /\ UNCHANGED <<current, pool>>
    BY <1>10 DEF Restart
  <2>3. Guard'
    BY <2>1, <2>2 DEF Mutex, TrueCopy
  <2>4. missed' = Len(pool) - sealed
    BY <1>10 DEF Restart
  <2>5. Counter'
    BY <2>1, <2>2, <2>4 DEF OneUncounted, AllCounted, StaleBehind
  <2>6. QED
    BY <2>3, <2>5
<1>11. CASE Seal \/ AllEnded \/ UNCHANGED vars
  <2>1. UNCHANGED <<pc, current, nonce, holder, pool, missed>>
    BY <1>11 DEF Seal, AllEnded, vars
  <2>2. QED
    BY <2>1 DEF Mutex, TrueCopy, OneUncounted, AllCounted, StaleBehind
<1>12. QED
  BY <1>1, <1>2, <1>3, <1>4, <1>5, <1>6, <1>7, <1>8, <1>9, <1>10, <1>11 DEF Next, Step

LEMMA Invariance == Spec => []IInv
  BY InvInit, InvStep, PTL DEF Spec

(***************************************************************************)
(* TypeOK: the state of the hive build's send_raw_transaction stays in its *)
(* type; in particular the sealed deployments are among those taken, and   *)
(* the counter never gains more on the node than it had missed.            *)
(***************************************************************************)
THEOREM Typing == Spec => []TypeOK
<1>1. IInv => TypeOK
  BY DEF IInv
<1>2. QED
  BY <1>1, Invariance, PTL

(***************************************************************************)
(* NeverAhead: no refusal, lost answer, dropped deployment or restart      *)
(* makes the counter skip a nonce the node still waits for.                *)
(***************************************************************************)
THEOREM CounterNeverAhead == Spec => []NeverAhead
<1>1. IInv => NeverAhead
  BY DEF IInv, TypeOK, OneUncounted, AllCounted, NeverAhead
<1>2. QED
  BY <1>1, Invariance, PTL

(***************************************************************************)
(* InStep: with the mutex free the next deployment gets the nonce the node *)
(* expects, less what was missed.                                          *)
(***************************************************************************)
THEOREM CounterInStep == Spec => []InStep
<1>1. IInv => InStep
  BY RequestAssumption DEF IInv, TypeOK, Mutex, AllCounted, InStep, Critical
<1>2. QED
  BY <1>1, Invariance, PTL

(***************************************************************************)
(* EachMissWastesOne: whoever goes without its deployment used up one that *)
(* was missed, so there are no more of the former than of the latter.      *)
(***************************************************************************)
Paid == IsFiniteSet(wasted) /\ Cardinality(wasted) + missed <= overlooked

THEOREM MissesArePaidOnce == Spec => []EachMissWastesOne
<1>1. Init => Paid
  BY FS_EmptySet DEF Init, Paid
<1>2. IInv /\ IInv' /\ Paid /\ [Next]_vars => Paid'
  <2> SUFFICES ASSUME IInv, IInv', Paid, [Next]_vars PROVE Paid'
    OBVIOUS
  <2>1. /\ missed \in Nat /\ missed' \in Nat /\ overlooked \in Nat /\ Cardinality(wasted) \in Nat
        /\ Cardinality(wasted) + missed <= overlooked /\ IsFiniteSet(wasted)
        /\ Len(pool) \in Nat /\ sealed \in Nat /\ sealed <= Len(pool)
    BY FS_CardinalityType DEF IInv, TypeOK, Paid
  <2>2. ASSUME NEW r \in Request, Deployed(r) PROVE Paid'
    <3>1. CASE UNCHANGED missVars
      BY <2>1, <3>1 DEF Paid, missVars
    <3>2. CASE missed' = missed - 1 /\ wasted' = wasted \cup {r} /\ overlooked' = overlooked
      <4>1. IsFiniteSet(wasted') /\ Cardinality(wasted') \in {Cardinality(wasted), Cardinality(wasted) + 1}
        BY <2>1, <3>2, FS_AddElement
      <4>2. QED
        BY <2>1, <3>2, <4>1 DEF Paid
    <3>3. QED
      BY <2>2, <3>1, <3>2 DEF Deployed, DeploymentAccepted, missVars
  <2>3. ASSUME NEW r \in Request, DeployFails(r) PROVE Paid'
    BY <2>1, <2>3 DEF DeployFails, DeploymentFailed, Paid
  <2>4. CASE Restart
    BY <2>1, <2>4 DEF Restart, Paid
  <2>5. CASE UNCHANGED missVars
    BY <2>1, <2>5 DEF Paid, missVars
  <2>6. QED
    BY <2>2, <2>3, <2>4, <2>5 DEF Next, Step, Receive, CheckAccount, Lock, Prepare, NodeTakes,
                                  NodePools, NodeRefuses, Submit, Seal, AllEnded, vars
<1>3. IInv /\ Paid => EachMissWastesOne
  <2>1. ASSUME Paid, TypeOK
        PROVE  Cardinality(wasted) <= overlooked
    BY <2>1, FS_CardinalityType DEF Paid, TypeOK
  <2>2. QED
    BY <2>1 DEF IInv, EachMissWastesOne
<1>4. QED
  BY <1>1, <1>2, <1>3, Invariance, PTL DEF Spec

(***************************************************************************)
(* For DeployBeforeSubmit: a request gets to its own transaction with its  *)
(* account deployed, unless its check failed otherwise or its deployment   *)
(* was dropped.                                                            *)
(***************************************************************************)
HasAccount(r) == Signer[r] \in Genesis \cup DeployedBy(Len(pool))
Excused == unchecked \cup wasted
ReadyHasAccount == \A r \in Request : pc[r] = "submit" /\ r \notin Excused => HasAccount(r)
Backed == DeployBeforeSubmit /\ ReadyHasAccount

(***************************************************************************)
(* An account once deployed stays so: the node's deployments only grow.    *)
(***************************************************************************)
LEMMA DeployedByGrows ==
  ASSUME TypeOK, TypeOK',
         pool' = pool \/ \E r \in Request : pool' = Append(pool, r)
  PROVE  \A r \in Request : HasAccount(r) => HasAccount(r)'
<1>1. Len(pool) <= Len(pool') /\ \A i \in 1..Len(pool) : pool'[i] = pool[i]
  <2>1. pool \in Seq(Request)
    BY DEF TypeOK
  <2>2. QED
    BY <2>1, AppendProperties
<1>2. Len(pool) \in Nat /\ Len(pool') \in Nat
  BY DEF TypeOK
<1>3. QED
  BY <1>1, <1>2 DEF HasAccount, DeployedBy

(***************************************************************************)
(* DeployBeforeSubmit: no request's own transaction reaches the node       *)
(* before its account does.                                                *)
(***************************************************************************)
THEOREM DeployedFirst == Spec => []DeployBeforeSubmit
<1>1. Init => Backed
  BY DEF Init, Backed, DeployBeforeSubmit, ReadyHasAccount
<1>2. IInv /\ IInv' /\ Backed /\ [Next]_vars => Backed'
  <2> SUFFICES ASSUME IInv, IInv', Backed, [Next]_vars PROVE Backed'
    OBVIOUS
  <2>1. pool' = pool \/ \E r \in Request : pool' = Append(pool, r)
    BY DEF Next, Step, Receive, CheckAccount, Lock, Prepare, NodeTakes, NodePools, NodeRefuses,
           Deployed, DeployFails, Submit, Seal, Restart, AllEnded, vars
  <2>2. \A r \in Request : HasAccount(r) => HasAccount(r)'
    BY <2>1, DeployedByGrows DEF IInv
  <2>3. pc \in [Request -> {"idle", "submit"} \cup Waiting \cup Critical \cup Ended]
    BY DEF IInv, TypeOK
  <2>4. submitted \subseteq Request /\ pool \in Seq(Request) /\ Len(pool) \in Nat
        /\ sealed \in Nat /\ sealed <= Len(pool)
    BY DEF IInv, TypeOK
  <2>5. \A r \in submitted : r \notin Excused => HasAccount(r)
    BY DEF Backed, DeployBeforeSubmit, HasAccount, Excused
  <2>6. ReadyHasAccount
    BY DEF Backed
  <2>7. SUFFICES /\ \A r \in submitted' : r \notin Excused' => HasAccount(r)'
                 /\ ReadyHasAccount'
    BY DEF Backed, DeployBeforeSubmit, HasAccount, Excused
  <2> USE <2>3, <2>4, <2>5, <2>6 DEF Goto
  <2>8. ASSUME NEW q \in Request, CheckAccount(q)
        PROVE  /\ \A r \in submitted' : r \notin Excused' => HasAccount(r)'
               /\ ReadyHasAccount'
    <3>1. submitted' = submitted /\ unchecked' \subseteq Excused' /\ Excused \subseteq Excused'
      BY <2>8 DEF CheckAccount, Excused, missVars
    <3>2. \A r \in Request : r # q => pc'[r] = pc[r]
      BY <2>8 DEF CheckAccount
    <3>3. pc'[q] = "submit" => q \in unchecked' \/ Signer[q] \in SealedAccounts
      BY <2>8 DEF CheckAccount
    <3>4. Signer[q] \in SealedAccounts => HasAccount(q)
      <4>1. \A i \in 1..sealed : i \in 1..Len(pool)
        BY <2>4
      <4>2. DeployedBy(sealed) \subseteq DeployedBy(Len(pool))
        BY <4>1 DEF DeployedBy
      <4>3. QED
        BY <4>2 DEF SealedAccounts, HasAccount
    <3>5. QED
      BY <2>2, <3>1, <3>2, <3>3, <3>4 DEF ReadyHasAccount
  <2>9. ASSUME NEW q \in Request, Deployed(q)
        PROVE  /\ \A r \in submitted' : r \notin Excused' => HasAccount(r)'
               /\ ReadyHasAccount'
    <3>1. /\ submitted' = submitted /\ Excused \subseteq Excused'
          /\ \A r \in Request : r # q => pc'[r] = pc[r]
      BY <2>9 DEF Deployed, DeploymentAccepted, Excused
    <3>2. ASSUME pc[q] = "answer" PROVE HasAccount(q)
      <4>1. OneUncounted /\ nonce \in Nat
        BY DEF IInv, TypeOK
      <4>2. Len(pool) > 0 /\ pool[Len(pool)] = q
        BY <3>2, <4>1 DEF OneUncounted
      <4>3. QED
        BY <4>2 DEF HasAccount, DeployedBy
    <3>3. HasAccount(q) \/ q \in Excused'
      BY <2>9, <3>2 DEF Deployed, DeploymentAccepted, Excused
    <3>4. QED
      BY <2>2, <3>1, <3>3 DEF ReadyHasAccount
  <2>10. ASSUME NEW q \in Request, Submit(q)
         PROVE  /\ \A r \in submitted' : r \notin Excused' => HasAccount(r)'
                /\ ReadyHasAccount'
    <3>1. submitted' = submitted \cup {q} /\ Excused' = Excused
      BY <2>10 DEF Submit, Excused, missVars
    <3>2. pc[q] = "submit" /\ \A r \in Request : pc'[r] = "submit" => pc[r] = "submit"
      BY <2>10 DEF Submit, Ended
    <3>3. QED
      BY <2>2, <3>1, <3>2 DEF ReadyHasAccount
  <2>11. ASSUME submitted' = submitted, Excused' = Excused,
                \A r \in Request : pc'[r] = "submit" => pc[r] = "submit"
         PROVE  /\ \A r \in submitted' : r \notin Excused' => HasAccount(r)'
                /\ ReadyHasAccount'
    BY <2>2, <2>11 DEF ReadyHasAccount
  <2>12. ASSUME NEW q \in Request,
                Receive(q) \/ Lock(q) \/ Prepare(q) \/ NodeTakes(q) \/ NodePools(q)
                  \/ NodeRefuses(q) \/ DeployFails(q)
         PROVE  /\ submitted' = submitted /\ Excused' = Excused
                /\ \A r \in Request : pc'[r] = "submit" => pc[r] = "submit"
    BY <2>12 DEF Receive, Lock, Prepare, NodeTakes, NodePools, NodeRefuses, DeployFails,
                 DeploymentFailed, Excused, missVars
  <2>13. ASSUME Seal \/ Restart \/ AllEnded \/ UNCHANGED vars
         PROVE  /\ submitted' = submitted /\ Excused' = Excused
                /\ \A r \in Request : pc'[r] = "submit" => pc[r] = "submit"
    BY <2>13 DEF Seal, Restart, AllEnded, vars, Excused, missVars
  <2>14. QED
    BY <2>8, <2>9, <2>10, <2>11, <2>12, <2>13 DEF Next, Step
<1>3. Backed => DeployBeforeSubmit
  BY DEF Backed
<1>4. QED
  BY <1>1, <1>2, <1>3, Invariance, PTL DEF Spec

-----------------------------------------------------------------------------
(***************************************************************************)
(* For the refinement: who is in the queue waits and is in it once; who    *)
(* was deployed is past the deployment.                                    *)
(***************************************************************************)
InQueue == \A i \in 1..Len(queue) : pc[queue[i]] = "queued"
QueuedOnce == \A i, j \in 1..Len(queue) : queue[i] = queue[j] => i = j
Past == {"answer", "submit", "ok", "err"}
DeployedArePast == \A i \in 1..Len(pool) : pc[pool[i]] \in Past

StageInv == IInv /\ InQueue /\ QueuedOnce /\ DeployedArePast

LEMMA StageInvInit == Init => StageInv
<1> SUFFICES ASSUME Init PROVE StageInv
  OBVIOUS
<1>1. InQueue /\ QueuedOnce /\ DeployedArePast
  BY DEF Init, InQueue, QueuedOnce, DeployedArePast
<1>2. QED
  BY InvInit, <1>1 DEF StageInv

(***************************************************************************)
(* A queue whose members wait stays one when a member moves that is not in *)
(* it.                                                                     *)
(***************************************************************************)
LEMMA QueueStays ==
  ASSUME TypeOK, InQueue, QueuedOnce, queue' = queue, NEW r \in Request, pc[r] # "queued",
         \A q \in Request \ {r} : pc'[q] = pc[q]
  PROVE  InQueue' /\ QueuedOnce'
<1>1. queue \in Seq(Request) /\ Len(queue) \in Nat
  BY DEF TypeOK
<1>2. \A i \in 1..Len(queue) : queue[i] \in Request /\ queue[i] # r
  BY <1>1 DEF InQueue
<1>3. QED
  BY <1>1, <1>2 DEF InQueue, QueuedOnce

LEMMA QueueGrows ==
  ASSUME TypeOK, TypeOK', InQueue, QueuedOnce, NEW r \in Request, pc[r] # "queued",
         queue' = Append(queue, r), pc'[r] = "queued",
         \A q \in Request \ {r} : pc'[q] = pc[q]
  PROVE  InQueue' /\ QueuedOnce'
<1>1. queue \in Seq(Request) /\ Len(queue) \in Nat
  BY DEF TypeOK
<1>2. /\ Len(queue') = Len(queue) + 1 /\ queue'[Len(queue) + 1] = r
      /\ \A i \in 1..Len(queue) : queue'[i] = queue[i]
  BY <1>1, AppendProperties
<1>3. \A i \in 1..Len(queue) : queue[i] \in Request /\ queue[i] # r
  BY <1>1 DEF InQueue
<1>4. \A i \in 1..Len(queue') : i = Len(queue) + 1 \/ i \in 1..Len(queue)
  BY <1>1, <1>2
<1>5. InQueue'
  BY <1>2, <1>3, <1>4 DEF InQueue
<1>6. QueuedOnce'
  BY <1>2, <1>3, <1>4 DEF QueuedOnce
<1>7. QED
  BY <1>5, <1>6

LEMMA QueueShrinks ==
  ASSUME TypeOK, TypeOK', InQueue, QueuedOnce, NEW r \in Request, queue # <<>>, Head(queue) = r,
         queue' = Tail(queue), \A q \in Request \ {r} : pc'[q] = pc[q]
  PROVE  InQueue' /\ QueuedOnce' /\ pc[r] = "queued"
<1>1. queue \in Seq(Request) /\ Len(queue) \in Nat
  BY DEF TypeOK
<1>2. Len(queue) > 0 /\ queue[1] = r /\ 1 \in 1..Len(queue)
  BY <1>1
<1>3. /\ Len(queue') = Len(queue) - 1
      /\ \A i \in 1..Len(queue') : i + 1 \in 1..Len(queue) /\ queue'[i] = queue[i + 1]
  BY <1>1, <1>2, HeadTailProperties
<1>4. pc[r] = "queued"
  BY <1>2 DEF InQueue
<1>5. \A i \in 1..Len(queue') : queue'[i] \in Request \ {r}
  <2>1. SUFFICES ASSUME NEW i \in 1..Len(queue')
                 PROVE  queue'[i] \in Request \ {r}
    OBVIOUS
  <2>2. i + 1 # 1 /\ i + 1 \in 1..Len(queue)
    BY <1>1, <1>3
  <2>3. queue[i + 1] \in Request /\ queue[i + 1] # queue[1]
    BY <1>1, <1>2, <2>2 DEF QueuedOnce
  <2>4. QED
    BY <1>2, <1>3, <2>3
<1>6. InQueue'
  BY <1>3, <1>5 DEF InQueue
<1>7. QueuedOnce'
  <2>1. SUFFICES ASSUME NEW i \in 1..Len(queue'), NEW j \in 1..Len(queue'), queue'[i] = queue'[j]
                 PROVE  i = j
    BY DEF QueuedOnce
  <2>2. queue[i + 1] = queue[j + 1] /\ i + 1 \in 1..Len(queue) /\ j + 1 \in 1..Len(queue)
    BY <1>3, <2>1
  <2>3. i + 1 = j + 1
    BY <2>2 DEF QueuedOnce
  <2>4. QED
    BY <1>1, <1>3, <2>3
<1>8. QED
  BY <1>4, <1>6, <1>7

LEMMA PastStays ==
  ASSUME TypeOK, DeployedArePast, pool' = pool,
         \A q \in Request : pc[q] \in Past => pc'[q] \in Past
  PROVE  DeployedArePast'
<1>1. \A i \in 1..Len(pool) : pool[i] \in Request
  BY DEF TypeOK
<1>2. QED
  BY <1>1 DEF DeployedArePast

(***************************************************************************)
(* The additions are inductive.                                            *)
(***************************************************************************)
LEMMA StageInvStep == StageInv /\ [Next]_vars => StageInv'
<1> SUFFICES ASSUME StageInv, [Next]_vars PROVE StageInv'
  OBVIOUS
<1> DEFINE Queued == InQueue /\ QueuedOnce
<1>a. /\ pc \in [Request -> {"idle", "submit"} \cup Waiting \cup Critical \cup Ended]
      /\ nonce \in Nat /\ Len(pool) \in Nat
  BY Shapes DEF StageInv, IInv
<1>b. TypeOK /\ TypeOK' /\ IInv' /\ InQueue /\ QueuedOnce /\ DeployedArePast
  BY InvStep DEF StageInv, IInv
<1>c. SUFFICES Queued' /\ DeployedArePast'
  BY <1>b DEF StageInv
<1> USE <1>a DEF Waiting, Critical, Ended, Goto, Past
<1>1. ASSUME NEW r \in Request, Receive(r) PROVE Queued' /\ DeployedArePast'
  <2>1. pc[r] = "idle" /\ UNCHANGED <<queue, pool>> /\ (\A q \in Request \ {r} : pc'[q] = pc[q])
        /\ pc'[r] \in {"check", "err"}
    BY <1>1 DEF Receive
  <2>2. Queued'
    BY <1>b, <2>1, QueueStays
  <2>3. DeployedArePast'
    BY <1>b, <2>1, PastStays
  <2>4. QED
    BY <2>2, <2>3
<1>2. ASSUME NEW r \in Request, CheckAccount(r) PROVE Queued' /\ DeployedArePast'
  <2>1. pc[r] = "check" /\ pool' = pool /\ (\A q \in Request \ {r} : pc'[q] = pc[q])
        /\ pc'[r] \in {"submit", "queued"}
    BY <1>2 DEF CheckAccount
  <2>2. (pc'[r] = "queued" /\ queue' = Append(queue, r)) \/ queue' = queue
    BY <1>2 DEF CheckAccount
  <2>3. Queued'
    BY <1>b, <2>1, <2>2, QueueStays, QueueGrows
  <2>4. DeployedArePast'
    BY <1>b, <2>1, PastStays
  <2>5. QED
    BY <2>3, <2>4
<1>3. ASSUME NEW r \in Request, Lock(r) PROVE Queued' /\ DeployedArePast'
  <2>1. queue # <<>> /\ Head(queue) = r /\ queue' = Tail(queue)
        /\ pool' = pool /\ (\A q \in Request \ {r} : pc'[q] = pc[q])
        /\ pc'[r] = "prepare"
    BY <1>3 DEF Lock
  <2>2. Queued' /\ pc[r] = "queued"
    BY <1>b, <2>1, QueueShrinks
  <2>3. DeployedArePast'
    BY <1>b, <2>1, <2>2, PastStays
  <2>4. QED
    BY <2>2, <2>3
<1>4. ASSUME NEW r \in Request, Prepare(r) \/ Deployed(r) \/ Submit(r)
      PROVE Queued' /\ DeployedArePast'
  <2>1. pc[r] \in {"prepare", "answer", "dropped", "submit"} /\ UNCHANGED <<queue, pool>>
        /\ (\A q \in Request \ {r} : pc'[q] = pc[q])
        /\ (pc[r] = "prepare" => pc'[r] \in {"send", "err"})
        /\ (pc[r] # "prepare" => pc'[r] \in Past)
    BY <1>4 DEF Prepare, Deployed, DeploymentAccepted, Submit
  <2>2. Queued'
    BY <1>b, <2>1, QueueStays
  <2>3. DeployedArePast'
    BY <1>b, <2>1, PastStays
  <2>4. QED
    BY <2>2, <2>3
<1>5. ASSUME NEW r \in Request, NodeTakes(r) PROVE Queued' /\ DeployedArePast'
  <2>1. pc[r] = "send" /\ queue' = queue /\ (\A q \in Request \ {r} : pc'[q] = pc[q])
        /\ pc'[r] = "answer" /\ pool' = Append(pool, r)
    BY <1>5 DEF NodeTakes
  <2>2. Queued'
    BY <1>b, <2>1, QueueStays
  <2>3. pool \in Seq(Request)
    BY <1>b DEF TypeOK
  <2>4. /\ Len(pool') = Len(pool) + 1 /\ pool'[Len(pool) + 1] = r
        /\ \A i \in 1..Len(pool) : pool'[i] = pool[i] /\ pool[i] \in Request
    BY <2>1, <2>3, AppendProperties
  <2>5. \A i \in 1..Len(pool') : i = Len(pool) + 1 \/ i \in 1..Len(pool)
    BY <2>4
  <2>6. \A q \in Request : pc[q] \in Past => pc'[q] \in Past
    BY <2>1
  <2>7. DeployedArePast'
    BY <1>b, <2>1, <2>4, <2>5, <2>6 DEF DeployedArePast
  <2>8. QED
    BY <2>2, <2>7
<1>6. ASSUME NEW r \in Request, NodeRefuses(r) \/ NodePools(r) \/ DeployFails(r)
      PROVE  Queued' /\ DeployedArePast'
  <2>1. /\ pc[r] # "queued" /\ (pc[r] \in Past => pc'[r] = "err")
        /\ UNCHANGED <<queue, pool>> /\ (\A q \in Request \ {r} : pc'[q] = pc[q])
    BY <1>6 DEF NodeRefuses, NodePools, DeployFails, DeploymentFailed
  <2>2. Queued'
    BY <1>b, <2>1, QueueStays
  <2>3. DeployedArePast'
    BY <1>b, <2>1, PastStays
  <2>4. QED
    BY <2>2, <2>3
<1>8. CASE Restart
  <2>1. queue' = <<>> /\ pool' = pool
        /\ pc' = [r \in Request |-> IF pc[r] = "idle" THEN "idle"
                                    ELSE IF pc[r] = "ok" THEN "ok" ELSE "err"]
    BY <1>8 DEF Restart
  <2>2. Queued'
    BY <2>1 DEF InQueue, QueuedOnce
  <2>3. DeployedArePast'
    BY <1>b, <2>1, PastStays
  <2>4. QED
    BY <2>2, <2>3
<1>9. CASE Seal \/ AllEnded \/ UNCHANGED vars
  <2>1. UNCHANGED <<pc, queue, pool>>
    BY <1>9 DEF Seal, AllEnded, vars
  <2>2. QED
    BY <1>b, <2>1 DEF InQueue, QueuedOnce, DeployedArePast
<1>10. QED
  BY <1>1, <1>2, <1>3, <1>4, <1>5, <1>6, <1>8, <1>9 DEF Next, Step

LEMMA StageInvariance == Spec => []StageInv
  BY StageInvInit, StageInvStep, PTL DEF Spec

(***************************************************************************)
(* The refinement mapping, arm by arm: under the invariant no two apply.   *)
(***************************************************************************)
Asking == Waiting \cup {"prepare", "send", "dropped", "bad_nonce"}
InPool(r) == \E i \in 1..Len(pool) : pool[i] = r

Mapped(r) ==
  /\ pc[r] = "idle" => Stage(r) = "idle"
  /\ pc[r] \in Asking => Stage(r) = "asked"
  /\ InPool(r) => Stage(r) = "deployed" /\ pc[r] \in Past
  /\ ~InPool(r) /\ pc[r] \notin Asking \cup {"idle"} => Stage(r) = "settled"

AllMapped == \A r \in Request : Mapped(r)

LEMMA StageIs == StageInv => AllMapped
<1> SUFFICES ASSUME StageInv, NEW r \in Request
             PROVE  Mapped(r)
  BY DEF AllMapped
<1>1. InPool(r) => pc[r] \in Past
  BY DEF StageInv, DeployedArePast, InPool
<1>2. ~(pc[r] \in {"bad_nonce", "dropped"} /\ missed = 0)
  BY DEF StageInv, IInv, StaleBehind
<1>3. pc[r] \in Asking \cup {"idle"} => pc[r] \notin Past
  BY DEF Asking, Past, Waiting
<1>4. pc[r] = "idle" => Stage(r) = "idle"
  BY <1>1, <1>2, <1>3 DEF Stage, InPool, Waiting
<1>5. pc[r] \in Asking => Stage(r) = "asked"
  BY <1>1, <1>2, <1>3 DEF Stage, InPool, Asking, Waiting
<1>6. InPool(r) => Stage(r) = "deployed"
  BY <1>1, <1>2, <1>3 DEF Stage, InPool, Asking
<1>7. ~InPool(r) /\ pc[r] \notin Asking \cup {"idle"} => Stage(r) = "settled"
  BY <1>2 DEF Stage, InPool, Asking
<1>8. QED
  BY <1>1, <1>4, <1>5, <1>6, <1>7 DEF Mapped

(***************************************************************************)
(* A step that moves one request at most, and deploys no other.            *)
(***************************************************************************)
LEMMA OthersStage ==
  ASSUME StageInv, StageInv', NEW r \in Request,
         \A q \in Request \ {r} : pc'[q] = pc[q] /\ (InPool(q)' <=> InPool(q))
  PROVE  \A q \in Request \ {r} : Stage(q)' = Stage(q)
<1>1. SUFFICES ASSUME NEW q \in Request \ {r}
               PROVE  Stage(q)' = Stage(q)
  OBVIOUS
<1>2. AllMapped /\ AllMapped'
  BY StageIs, PTL
<1>3. Mapped(q) /\ Mapped(q)'
  BY <1>2 DEF AllMapped
<1>4. QED
  BY <1>3 DEF Mapped, Asking, Waiting

(***************************************************************************)
(* The stage of the request that moves.                                    *)
(***************************************************************************)
LEMMA ThisStage ==
  ASSUME StageInv, StageInv', NEW r \in Request
  PROVE  Mapped(r) /\ Mapped(r)'
<1>1. AllMapped /\ AllMapped'
  BY StageIs, PTL
<1>2. QED
  BY <1>1 DEF AllMapped

(***************************************************************************)
(* A step of a request that deploys nothing: its stage stays, or it asks   *)
(* or settles.                                                             *)
(***************************************************************************)
LEMMA SequencerMoves ==
  ASSUME StageInv, StageInv', NEW r \in Request, UNCHANGED <<pool, missed>>,
         \A q \in Request \ {r} : pc'[q] = pc[q],
         \/ pc[r] = "idle" /\ pc'[r] \in Asking
         \/ pc[r] \in Asking \cup {"idle"} /\ pc'[r] \notin Asking \cup {"idle"}
         \/ pc[r] \in Asking /\ pc'[r] \in Asking
         \/ pc[r] \notin Asking \cup {"idle"} /\ pc'[r] \notin Asking \cup {"idle"}
  PROVE  [Sequencer!SeqNext]_(Sequencer!seqVars)
<1>1. \A q \in Request : InPool(q)' <=> InPool(q)
  BY DEF InPool
<1>2. \A q \in Request \ {r} : Stage(q)' = Stage(q)
  BY <1>1, OthersStage
<1>3. Mapped(r) /\ Mapped(r)'
  BY ThisStage
<1>4. (\E i \in Past : pc[r] = i) => pc[r] \notin Asking \cup {"idle"}
  BY DEF Past, Asking, Waiting
<1>5. CASE pc[r] = "idle" /\ pc'[r] \in Asking
  <2>1. Stage(r) = "idle" /\ Stage(r)' = "asked"
    BY <1>3, <1>5 DEF Mapped, Asking, Waiting
  <2>2. Sequencer!Ask(r)
    BY <1>2, <2>1 DEF Sequencer!Ask
  <2>3. QED
    BY <2>2 DEF Sequencer!SeqNext
<1>6. CASE pc[r] \in Asking \cup {"idle"} /\ pc'[r] \notin Asking \cup {"idle"}
  <2>1. ~InPool(r)
    BY <1>3, <1>4, <1>6 DEF Mapped
  <2>2. Stage(r) \in {"idle", "asked"} /\ Stage(r)' = "settled"
    BY <1>1, <1>3, <1>6, <2>1 DEF Mapped, Asking, Waiting
  <2>3. Sequencer!Settle(r)
    BY <1>2, <2>2 DEF Sequencer!Settle
  <2>4. QED
    BY <2>3 DEF Sequencer!SeqNext
<1>7. CASE Stage(r)' = Stage(r)
  <2>1. \A q \in Request : Stage(q)' = Stage(q)
    BY <1>2, <1>7
  <2>2. QED
    BY <2>1 DEF Sequencer!seqVars
<1>8. CASE pc[r] \in Asking /\ pc'[r] \in Asking
  BY <1>3, <1>7, <1>8 DEF Mapped, Asking, Waiting
<1>9. CASE pc[r] \notin Asking \cup {"idle"} /\ pc'[r] \notin Asking \cup {"idle"}
  BY <1>1, <1>3, <1>7, <1>9 DEF Mapped, Asking, Waiting
<1>10. QED
  BY <1>5, <1>6, <1>8, <1>9

(***************************************************************************)
(* The safety part of ImplementsSequencer: the mutex, the counter and its  *)
(* copies, the node's answers and refusals, lost answers and restarts make *)
(* up a sequencer that draws a nonce and deploys under it in one step.     *)
(***************************************************************************)
THEOREM DrawingANonceIsAtomic == Spec => Sequencer!SeqSafety
<1>1. Init => Sequencer!SeqInit
  <2> SUFFICES ASSUME Init PROVE Sequencer!SeqInit
    OBVIOUS
  <2>1. \A r \in Request : Stage(r) = "idle"
    <3>1. AllMapped
      BY StageInvInit, StageIs
    <3>2. QED
      BY <3>1 DEF AllMapped, Mapped, Init
  <2>2. QED
    BY <2>1 DEF Init, Sequencer!SeqInit
<1>2. StageInv /\ StageInv' /\ [Next]_vars => [Sequencer!SeqNext]_(Sequencer!seqVars)
  <2> SUFFICES ASSUME StageInv, StageInv', [Next]_vars
               PROVE  [Sequencer!SeqNext]_(Sequencer!seqVars)
    OBVIOUS
  <2>a. /\ pc \in [Request -> {"idle", "submit"} \cup Waiting \cup Critical \cup Ended]
        /\ pool \in Seq(Request)
    BY DEF StageInv, IInv, TypeOK
  <2>1. ASSUME NEW r \in Request, Receive(r)
        PROVE  [Sequencer!SeqNext]_(Sequencer!seqVars)
    <3>1. pc[r] = "idle" /\ pc'[r] \in {"check", "err"} /\ UNCHANGED <<pool, missed>>
          /\ (\A q \in Request \ {r} : pc'[q] = pc[q])
      BY <2>1, <2>a DEF Receive, Goto, missVars
    <3>2. QED
      BY <3>1, SequencerMoves DEF Asking, Waiting
  <2>2. ASSUME NEW r \in Request, CheckAccount(r)
        PROVE  [Sequencer!SeqNext]_(Sequencer!seqVars)
    <3>1. pc[r] = "check" /\ pc'[r] \in {"submit", "queued"} /\ UNCHANGED <<pool, missed>>
          /\ (\A q \in Request \ {r} : pc'[q] = pc[q])
      BY <2>2, <2>a DEF CheckAccount, Goto, missVars
    <3>2. QED
      BY <3>1, SequencerMoves DEF Asking, Waiting
  <2>3. ASSUME NEW r \in Request, Lock(r)
        PROVE  [Sequencer!SeqNext]_(Sequencer!seqVars)
    <3>1. pc[r] = "queued"
      BY <2>3, <2>a, QueueShrinks DEF Lock, Goto, StageInv, IInv
    <3>2. pc'[r] = "prepare" /\ UNCHANGED <<pool, missed>>
          /\ (\A q \in Request \ {r} : pc'[q] = pc[q])
      BY <2>3, <2>a DEF Lock, Goto, missVars
    <3>3. QED
      BY <3>1, <3>2, SequencerMoves DEF Asking, Waiting
  <2>4. ASSUME NEW r \in Request, Prepare(r) \/ Submit(r)
        PROVE  [Sequencer!SeqNext]_(Sequencer!seqVars)
    <3>1. /\ pc[r] \in {"prepare", "submit"} /\ UNCHANGED <<pool, missed>>
          /\ pc[r] = "prepare" => pc'[r] \in {"send", "err"}
          /\ pc[r] = "submit" => pc'[r] \in {"ok", "err"}
          /\ \A q \in Request \ {r} : pc'[q] = pc[q]
      BY <2>4, <2>a DEF Prepare, Submit, Goto, Ended, missVars
    <3>2. QED
      BY <3>1, SequencerMoves DEF Asking, Waiting
  <2>5. ASSUME NEW r \in Request, NodeTakes(r)
        PROVE  [Sequencer!SeqNext]_(Sequencer!seqVars)
    <3>1. pc[r] = "send" /\ pc'[r] = "answer" /\ missed' = missed
          /\ pool' = Append(pool, r) /\ (\A q \in Request \ {r} : pc'[q] = pc[q])
      BY <2>5, <2>a DEF NodeTakes, Goto, missVars
    <3>2. missed = 0
      BY <2>5 DEF NodeTakes, StageInv, IInv, TypeOK, Mutex, TrueCopy, AllCounted, Critical
    <3>3. /\ Len(pool) \in Nat /\ Len(pool') = Len(pool) + 1 /\ pool'[Len(pool) + 1] = r
          /\ \A i \in 1..Len(pool) : pool'[i] = pool[i]
      BY <2>a, <3>1, AppendProperties
    <3>4. \A i \in 1..Len(pool') : i = Len(pool) + 1 \/ i \in 1..Len(pool)
      BY <3>3
    <3>5. \A q \in Request \ {r} : InPool(q)' <=> InPool(q)
      BY <3>3, <3>4 DEF InPool
    <3>6. InPool(r)'
      <4>1. Len(pool) + 1 \in 1..Len(pool')
        BY <3>3
      <4>2. QED
        BY <3>3, <4>1 DEF InPool
    <3>7. \A q \in Request \ {r} : Stage(q)' = Stage(q)
      BY <3>1, <3>5, OthersStage
    <3>8. Stage(r) = "asked" /\ Stage(r)' = "deployed"
      BY <3>1, <3>6, ThisStage DEF Mapped, Asking
    <3>9. Sequencer!Deploy(r)
      BY <3>1, <3>2, <3>7, <3>8 DEF Sequencer!Deploy
    <3>10. QED
      BY <3>9 DEF Sequencer!SeqNext
  <2>6. ASSUME NEW r \in Request, NodeRefuses(r) \/ NodePools(r)
        PROVE  [Sequencer!SeqNext]_(Sequencer!seqVars)
    <3>1. pc[r] = "send" /\ pc'[r] \in {"refused", "dropped", "bad_nonce"} /\ UNCHANGED <<pool, missed>>
          /\ (\A q \in Request \ {r} : pc'[q] = pc[q])
      BY <2>6, <2>a DEF NodeRefuses, NodePools, Goto, missVars
    <3>2. QED
      BY <3>1, SequencerMoves DEF Asking, Waiting
  <2>7. ASSUME NEW r \in Request, DeployFails(r)
        PROVE  [Sequencer!SeqNext]_(Sequencer!seqVars)
    <3>1. pc'[r] = "err" /\ pool' = pool /\ (\A q \in Request \ {r} : pc'[q] = pc[q])
      BY <2>7, <2>a DEF DeployFails, Goto
    <3>2. CASE pc[r] \in {"refused", "bad_nonce", "dropped"} /\ missed' = missed
      BY <3>1, <3>2, SequencerMoves DEF Asking, Waiting
    <3>3. CASE pc[r] = "answer" /\ missed' = missed + 1
      <4>1. \A q \in Request : InPool(q)' <=> InPool(q)
        BY <3>1 DEF InPool
      <4>2. \A q \in Request \ {r} : Stage(q)' = Stage(q)
        BY <3>1, <4>1, OthersStage
      <4>3. Stage(r)' = Stage(r)
        BY <3>1, <3>3, <4>1, ThisStage DEF Mapped, Asking, Waiting
      <4>4. missed < Len(pool)
        BY <3>3 DEF StageInv, IInv, OneUncounted, TypeOK
      <4>5. Sequencer!LoseAnswer
        BY <3>1, <3>3, <4>2, <4>3, <4>4 DEF Sequencer!LoseAnswer
      <4>6. QED
        BY <4>5 DEF Sequencer!SeqNext
    <3>4. QED
      BY <2>7, <3>2, <3>3 DEF DeployFails, DeploymentFailed
  <2>8. CASE Restart
    <3>1. /\ pool' = pool /\ missed' = Len(pool) - sealed
          /\ pc' = [r \in Request |-> IF pc[r] = "idle" THEN "idle"
                                      ELSE IF pc[r] = "ok" THEN "ok" ELSE "err"]
      BY <2>8 DEF Restart
    <3>2. \A r \in Request : InPool(r)' <=> InPool(r)
      BY <3>1 DEF InPool
    <3>3. ASSUME NEW r \in Request
          PROVE  Stage(r)' = IF Stage(r) = "asked" THEN "settled" ELSE Stage(r)
      <4>1. InPool(r) => pc[r] \notin Asking \cup {"idle"}
        BY ThisStage DEF Mapped, Past, Asking, Waiting
      <4>2. QED
        BY <3>1, <3>2, <4>1, ThisStage DEF Mapped, Asking, Waiting
    <3>4. missed' \in 0..Len(pool)
      BY <3>1 DEF StageInv, IInv, TypeOK
    <3>5. Sequencer!Restarted
      BY <3>1, <3>3, <3>4 DEF Sequencer!Restarted
    <3>6. QED
      BY <3>5 DEF Sequencer!SeqNext
  <2>9. CASE Seal \/ AllEnded \/ UNCHANGED vars
    <3>1. UNCHANGED <<pc, pool, missed>>
      BY <2>9 DEF Seal, AllEnded, vars, missVars
    <3>2. QED
      BY <3>1 DEF Stage, Sequencer!seqVars
  <2>10. ASSUME NEW r \in Request, Deployed(r)
         PROVE  [Sequencer!SeqNext]_(Sequencer!seqVars)
    <3>1. pc'[r] = "submit" /\ pool' = pool /\ (\A q \in Request \ {r} : pc'[q] = pc[q])
      BY <2>10, <2>a DEF Deployed, Goto
    <3>2. CASE pc[r] = "answer" /\ missed' = missed
      BY <3>1, <3>2, SequencerMoves DEF Asking, Waiting
    <3>3. CASE pc[r] = "dropped" /\ missed' = missed - 1
      <4>1. \A q \in Request : InPool(q)' <=> InPool(q)
        BY <3>1 DEF InPool
      <4>2. \A q \in Request \ {r} : Stage(q)' = Stage(q)
        BY <3>1, <4>1, OthersStage
      <4>3. ~InPool(r)
        BY <3>3, ThisStage DEF Mapped, Past
      <4>4. Stage(r) = "asked" /\ Stage(r)' = "settled"
        BY <3>1, <3>3, <4>1, <4>3, ThisStage DEF Mapped, Asking, Waiting
      <4>5. missed > 0
        BY <3>3 DEF StageInv, IInv, StaleBehind
      <4>6. Sequencer!Waste(r)
        BY <3>1, <3>3, <4>2, <4>4, <4>5 DEF Sequencer!Waste
      <4>7. QED
        BY <4>6 DEF Sequencer!SeqNext
    <3>4. QED
      BY <2>10, <3>2, <3>3 DEF Deployed, DeploymentAccepted
  <2>11. QED
    BY <2>1, <2>2, <2>3, <2>4, <2>5, <2>6, <2>7, <2>8, <2>9, <2>10 DEF Next, Step
<1>3. QED
  BY <1>1, <1>2, StageInvariance, PTL DEF Spec, Sequencer!SeqSafety
=============================================================================
