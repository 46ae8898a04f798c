-------------------------- MODULE TestUtils_proofs --------------------------
(***************************************************************************)
(* What the programs around the server keep, for constants of any size.    *)
(*                                                                         *)
(* TestAccounts: what an account of the tests may rely on, for any number  *)
(* of tests and operations, any bound on the polls and any behaviour of    *)
(* the nodes.  The argument: as long as each transaction was waited for,   *)
(* the node has executed all it took, and dropped none, whenever the next  *)
(* is made.  MockDatabase: a document has one copy as long as one fixture  *)
(* is upserted at a time.                                                  *)
(*                                                                         *)
(* Hive: the genesis is Kakarot and the accounts of its mapping, each at   *)
(* the address of its EVM address, so the import finds them; and what the  *)
(* import got into the node are the transactions before the place in the   *)
(* file that it has reached.                                               *)
(***************************************************************************)
EXTENDS TestAccounts, Hive, FiniteSetTheorems, SequenceTheorems, TLAPS

Outcome == {"succeeded", "reverted", "dropped"}
Place == {"setup", "idle", "nonce", "send", "watch", "receipt", "failed", "panicked"}

AcctTypes ==
  /\ pc \in [Test -> Place]
  /\ nonce \in [Test -> Nat]
  /\ hash \in [Test -> Nat]
  /\ pool \in [Test -> Seq(Nat)]
  /\ outcome \in [Test -> Seq(Outcome)]
  /\ sealed \in [Test -> Nat]
  /\ watched \in [Test -> BOOLEAN]

(***************************************************************************)
(* Nothing is under way between two operations that waited.                *)
(***************************************************************************)
Settled(t) ==
  /\ \A i \in 1..Len(pool[t]) : pool[t][i] = i - 1
  /\ \A i \in 1..Len(outcome[t]) : outcome[t][i] # "dropped"
  /\ pc[t] \in {"setup", "idle", "nonce", "send", "receipt"} => Len(outcome[t]) = Len(pool[t])
  /\ pc[t] = "watch" => hash[t] = Len(pool[t])
  /\ pc[t] = "send" => nonce[t] = Len(pool[t])

Kept(t) ==
  /\ Len(outcome[t]) <= Len(pool[t])
  /\ sealed[t] = Len(outcome[t])
  /\ pc[t] = "receipt" => hash[t] <= Len(outcome[t])
  /\ watched[t] => Settled(t)

IInv == AcctTypes /\ \A t \in Test : Kept(t)

LEMMA InvInit == Init => IInv
<1> SUFFICES ASSUME Init PROVE IInv
  OBVIOUS
<1>1. AcctTypes
  BY DEF Init, AcctTypes, Place
<1>2. ASSUME NEW t \in Test PROVE Kept(t)
  <2>1. /\ pc[t] = "setup" /\ pool[t] = <<>> /\ outcome[t] = <<>> /\ sealed[t] = 0
    BY DEF Init
  <2>2. Len(pool[t]) = 0 /\ Len(outcome[t]) = 0
    BY <2>1
  <2>3. QED
    BY <2>1, <2>2 DEF Kept, Settled
<1>3. QED
  BY <1>1, <1>2 DEF IInv

(***************************************************************************)
(* The nonce the node gives an account none of whose transactions it has   *)
(* dropped.                                                                *)
(***************************************************************************)
LEMMA NonceIsCount ==
  ASSUME AcctTypes, NEW t \in Test,
         \A i \in 1..Len(outcome[t]) : outcome[t][i] # "dropped"
  PROVE  Nonce(t, Len(outcome[t])) = Len(outcome[t])
<1>1. Len(outcome[t]) \in Nat
  BY DEF AcctTypes
<1>2. {i \in 1..Len(outcome[t]) : outcome[t][i] # "dropped"} = 1..Len(outcome[t])
  OBVIOUS
<1>3. Cardinality(1..Len(outcome[t])) = Len(outcome[t])
  <2>1. Cardinality(1..Len(outcome[t])) = IF 1 > Len(outcome[t]) THEN 0 ELSE Len(outcome[t]) - 1 + 1
    BY <1>1, FS_Interval
  <2>2. QED
    BY <1>1, <2>1
<1>4. QED
  BY <1>2, <1>3 DEF Nonce

LEMMA NonceIsNat ==
  ASSUME NEW t \in Test, NEW n \in Nat
  PROVE  Nonce(t, n) \in Nat
<1>1. IsFiniteSet(1..n)
  BY FS_Interval
<1>2. IsFiniteSet({i \in 1..n : outcome[t][i] # "dropped"})
  BY <1>1, FS_Subset
<1>3. QED
  BY <1>2, FS_CardinalityType DEF Nonce

(***************************************************************************)
(* A test none of whose steps is taken.                                    *)
(***************************************************************************)
LEMMA OthersKept ==
  ASSUME NEW t \in Test, Kept(t),
         pc'[t] = pc[t], nonce'[t] = nonce[t], hash'[t] = hash[t], pool'[t] = pool[t],
         outcome'[t] = outcome[t], sealed'[t] = sealed[t], watched'[t] = watched[t]
  PROVE  Kept(t)'
  BY DEF Kept, Settled

-----------------------------------------------------------------------------
LEMMA InvStep == IInv /\ [Next]_vars => IInv'
<1> SUFFICES ASSUME IInv, [Next]_vars PROVE IInv'
  OBVIOUS
<1>a. AcctTypes /\ \A t \in Test : Kept(t)
  BY DEF IInv
<1>1. ASSUME UNCHANGED acctVars PROVE IInv'
  <2>1. UNCHANGED <<pc, nonce, hash, pool, outcome, sealed, watched>>
    BY <1>1 DEF acctVars
  <2>2. AcctTypes'
    BY <1>a, <2>1 DEF AcctTypes
  <2>3. QED
    BY <1>a, <2>1, <2>2, OthersKept DEF IInv
<1>2. ASSUME NEW t \in Test, SetUp(t) \/ (\E o \in Op : Begin(t, o))
      PROVE  IInv'
  <2>1. /\ UNCHANGED <<nonce, hash, pool, outcome, sealed, watched>>
        /\ \/ pc' = pc
           \/ pc[t] = "setup" /\ pc' = [pc EXCEPT ![t] = "idle"]
           \/ pc[t] = "idle" /\ pc' = [pc EXCEPT ![t] = "nonce"]
    BY <1>2 DEF SetUp, Begin, Goto
  <2>2. AcctTypes'
    BY <1>a, <2>1 DEF AcctTypes, Place
  <2>3. \A u \in Test \ {t} : Kept(u)'
    BY <1>a, <2>1, OthersKept DEF AcctTypes
  <2>4. Kept(t)'
    BY <1>a, <2>1 DEF AcctTypes, Kept, Settled
  <2>5. QED
    BY <2>2, <2>3, <2>4 DEF IInv
<1>3. ASSUME NEW t \in Test, ReadNonce(t) PROVE IInv'
  <2>1. /\ UNCHANGED <<hash, pool, outcome, sealed, watched>> /\ pc[t] = "nonce"
        /\ \/ /\ pc' = [pc EXCEPT ![t] = "send"]
              /\ nonce' = [nonce EXCEPT ![t] = Nonce(t, Len(outcome[t]))]
           \/ pc' = [pc EXCEPT ![t] = "failed"] /\ nonce' = nonce
    BY <1>3 DEF ReadNonce, Goto
  <2>2. Nonce(t, Len(outcome[t])) \in Nat
    BY <1>a, NonceIsNat DEF AcctTypes
  <2>3. AcctTypes'
    BY <1>a, <2>1, <2>2 DEF AcctTypes, Place
  <2>4. \A u \in Test \ {t} : Kept(u)'
    BY <1>a, <2>1, OthersKept DEF AcctTypes
  <2>5. watched[t] => Nonce(t, Len(outcome[t])) = Len(pool[t])
    BY <1>a, <2>1, NonceIsCount DEF Kept, Settled
  <2>6. Kept(t)'
    BY <1>a, <2>1, <2>5 DEF AcctTypes, Kept, Settled
  <2>7. QED
    BY <2>3, <2>4, <2>6 DEF IInv
<1>4. ASSUME NEW t \in Test, Send(t) PROVE IInv'
  <2>1. /\ UNCHANGED <<nonce, outcome, sealed>> /\ pc[t] = "send"
        /\ \/ /\ pool' = [pool EXCEPT ![t] = Append(@, nonce[t])]
              /\ hash' = [hash EXCEPT ![t] = Len(pool[t]) + 1]
              /\ \/ /\ pc' = [pc EXCEPT ![t] = "idle"]
                    /\ watched' = [watched EXCEPT ![t] = FALSE]
                 \/ pc' = [pc EXCEPT ![t] = "watch"] /\ watched' = watched
           \/ pc' = [pc EXCEPT ![t] = "failed"] /\ UNCHANGED <<pool, hash, watched>>
    <3>1. watched = [watched EXCEPT ![t] = watched[t]]
      BY <1>a DEF AcctTypes
    <3>2. CASE op[t] = "transfer"
      BY <1>4, <3>2 DEF Send, Goto
    <3>3. CASE op[t] # "transfer"
      <4>1. watched[t] \in BOOLEAN
        BY <1>a DEF AcctTypes
      <4>2. (watched[t] /\ op[t] # "transfer") = watched[t]
        BY <3>3, <4>1
      <4>3. QED
        BY <1>4, <3>1, <3>3, <4>2 DEF Send, Goto
    <3>4. QED
      BY <3>2, <3>3
  <2>2. Append(pool[t], nonce[t]) \in Seq(Nat)
    BY <1>a DEF AcctTypes
  <2>3. AcctTypes'
    <3>1. pool' \in [Test -> Seq(Nat)]
      BY <1>a, <2>1, <2>2 DEF AcctTypes
    <3>2. Len(pool[t]) + 1 \in Nat
      BY <1>a DEF AcctTypes
    <3>3. hash' \in [Test -> Nat]
      BY <1>a, <2>1, <3>2 DEF AcctTypes
    <3>4. pc' \in [Test -> Place]
      BY <1>a, <2>1 DEF AcctTypes, Place
    <3>5. watched' \in [Test -> BOOLEAN]
      BY <1>a, <2>1 DEF AcctTypes
    <3>6. QED
      BY <1>a, <2>1, <3>1, <3>3, <3>4, <3>5 DEF AcctTypes
  <2>4. \A u \in Test \ {t} : Kept(u)'
    BY <1>a, <2>1, OthersKept DEF AcctTypes
  <2>5. CASE pc' = [pc EXCEPT ![t] = "failed"] /\ UNCHANGED <<pool, hash, watched>>
    <3>1. Kept(t)'
      BY <1>a, <2>1, <2>5 DEF AcctTypes, Kept, Settled
    <3>2. QED
      BY <2>3, <2>4, <3>1 DEF IInv
  <2>6. ASSUME pool' = [pool EXCEPT ![t] = Append(@, nonce[t])],
               hash' = [hash EXCEPT ![t] = Len(pool[t]) + 1],
               \/ pc'[t] = "idle" /\ ~watched'[t]
               \/ pc'[t] = "watch" /\ watched'[t] = watched[t]
        PROVE  IInv'
    <3>1. /\ pool'[t] = Append(pool[t], nonce[t]) /\ hash'[t] = Len(pool[t]) + 1
          /\ pool[t] \in Seq(Nat) /\ Len(pool[t]) \in Nat /\ Len(outcome[t]) \in Nat
          /\ outcome'[t] = outcome[t] /\ sealed'[t] = sealed[t] /\ nonce'[t] = nonce[t]
      BY <1>a, <2>1, <2>6 DEF AcctTypes
    <3>2. /\ Len(pool'[t]) = Len(pool[t]) + 1
          /\ \A i \in 1..Len(pool[t]) : pool'[t][i] = pool[t][i]
          /\ pool'[t][Len(pool[t]) + 1] = nonce[t]
      BY <3>1, <1>a DEF AcctTypes
    <3>3. watched'[t] => Settled(t)'
      <4>1. SUFFICES ASSUME watched'[t] PROVE Settled(t)'
        OBVIOUS
      <4>2. Settled(t) /\ nonce[t] = Len(pool[t]) /\ pc'[t] = "watch"
        BY <1>a, <2>1, <2>6, <4>1 DEF Kept, Settled
      <4>3. \A i \in 1..(Len(pool[t]) + 1) : pool'[t][i] = i - 1
        BY <3>1, <3>2, <4>2 DEF Settled
      <4>4. QED
        BY <3>1, <3>2, <4>2, <4>3 DEF Settled
    <3>4. Kept(t)'
      BY <1>a, <2>6, <3>1, <3>2, <3>3 DEF Kept
    <3>5. QED
      BY <2>3, <2>4, <3>4 DEF IInv
  <2>7. QED
    <3>1. \/ pc' = [pc EXCEPT ![t] = "failed"] /\ UNCHANGED <<pool, hash, watched>>
          \/ /\ pool' = [pool EXCEPT ![t] = Append(@, nonce[t])]
             /\ hash' = [hash EXCEPT ![t] = Len(pool[t]) + 1]
             /\ \/ pc'[t] = "idle" /\ ~watched'[t]
                \/ pc'[t] = "watch" /\ watched'[t] = watched[t]
      BY <1>a, <2>1 DEF AcctTypes
    <3>2. QED
      BY <2>5, <2>6, <3>1
<1>5. ASSUME NEW t \in Test, Mine(t) PROVE IInv'
  <2>1. PICK o \in Outcomes(t) : outcome' = [outcome EXCEPT ![t] = Append(@, o)]
    BY <1>5 DEF Mine
  <2>2. /\ sealed' = [sealed EXCEPT ![t] = Len(outcome[t]) + 1]
        /\ Len(outcome[t]) < Len(pool[t])
        /\ UNCHANGED <<pc, nonce, hash, pool, watched>>
    BY <1>5 DEF Mine
  <2>3. o \in Outcome
    BY DEF Outcomes, Outcome
  <2>4. /\ outcome[t] \in Seq(Outcome) /\ Len(outcome[t]) \in Nat /\ Len(pool[t]) \in Nat
        /\ outcome'[t] = Append(outcome[t], o) /\ sealed'[t] = Len(outcome[t]) + 1
        /\ hash[t] \in Nat
    BY <1>a, <2>1, <2>2 DEF AcctTypes
  <2>5. /\ Len(outcome'[t]) = Len(outcome[t]) + 1 /\ outcome'[t] \in Seq(Outcome)
        /\ \A i \in 1..Len(outcome[t]) : outcome'[t][i] = outcome[t][i]
        /\ outcome'[t][Len(outcome[t]) + 1] = o
    BY <2>3, <2>4
  <2>6. AcctTypes'
    <3>1. outcome' \in [Test -> Seq(Outcome)]
      BY <1>a, <2>1, <2>4, <2>5 DEF AcctTypes
    <3>2. Len(outcome[t]) + 1 \in Nat
      BY <2>4
    <3>3. sealed' \in [Test -> Nat]
      BY <1>a, <2>2, <3>2 DEF AcctTypes
    <3>4. QED
      BY <1>a, <2>2, <3>1, <3>3 DEF AcctTypes
  <2>7. \A u \in Test \ {t} : Kept(u)'
    BY <1>a, <2>1, <2>2, OthersKept DEF AcctTypes
  <2>8. watched[t] => Settled(t)'
    <3>1. SUFFICES ASSUME watched[t] PROVE Settled(t)'
      OBVIOUS
    <3>2. Settled(t)
      BY <1>a, <3>1 DEF Kept
    <3>3. Nonce(t, Len(outcome[t])) = Len(outcome[t])
      BY <1>a, <3>2, NonceIsCount DEF Settled
    <3>4. pool[t][Len(outcome[t]) + 1] = Len(outcome[t])
      BY <2>2, <2>4, <3>2 DEF Settled
    <3>5. o # "dropped"
      BY <3>3, <3>4 DEF Outcomes
    <3>6. \A i \in 1..(Len(outcome[t]) + 1) : outcome'[t][i] # "dropped"
      BY <2>4, <2>5, <3>2, <3>5 DEF Settled
    <3>7. pc[t] \notin {"setup", "idle", "nonce", "send", "receipt"}
      BY <2>2, <2>4, <3>2 DEF Settled
    <3>8. QED
      BY <2>2, <2>5, <3>2, <3>6, <3>7 DEF Settled
  <2>9. Kept(t)'
    BY <1>a, <2>2, <2>4, <2>5, <2>8 DEF Kept
  <2>10. QED
    BY <2>6, <2>7, <2>9 DEF IInv
<1>6. ASSUME NEW t \in Test, Poll(t) \/ PollFails(t) \/ ReadReceipt(t) PROVE IInv'
  <2>1. /\ UNCHANGED <<nonce, hash, pool, outcome, sealed, watched>>
        /\ \/ pc' = pc
           \/ pc' = [pc EXCEPT ![t] = "failed"]
           \/ pc' = [pc EXCEPT ![t] = "panicked"]
           \/ /\ pc[t] = "watch" /\ hash[t] <= Len(outcome[t])
              /\ pc' = [pc EXCEPT ![t] = "receipt"] \/ pc' = [pc EXCEPT ![t] = "idle"]
           \/ pc[t] = "receipt" /\ pc' = [pc EXCEPT ![t] = "idle"]
    <3>1. CASE Poll(t)
      <4>1. Confirmed(t) => hash[t] <= Len(outcome[t])
        BY <1>a DEF Confirmed, Receipt, AcctTypes
      <4>2. QED
        BY <3>1, <4>1 DEF Poll, Goto
    <3>2. CASE PollFails(t)
      BY <3>2 DEF PollFails, Goto
    <3>3. CASE ReadReceipt(t)
      BY <3>3 DEF ReadReceipt, Goto
    <3>4. QED
      BY <1>6, <3>1, <3>2, <3>3
  <2>2. AcctTypes'
    BY <1>a, <2>1 DEF AcctTypes, Place
  <2>3. \A u \in Test \ {t} : Kept(u)'
    BY <1>a, <2>1, OthersKept DEF AcctTypes
  <2>4. Len(outcome[t]) \in Nat /\ Len(pool[t]) \in Nat /\ hash[t] \in Nat
    BY <1>a DEF AcctTypes
  <2>5. Kept(t)'
    BY <1>a, <2>1, <2>4 DEF AcctTypes, Kept, Settled
  <2>6. QED
    BY <2>2, <2>3, <2>5 DEF IInv
<1>7. CASE AllOver \/ UNCHANGED vars
  BY <1>1, <1>7 DEF AllOver, vars
<1>8. QED
  BY <1>2, <1>3, <1>4, <1>5, <1>6, <1>7 DEF Next, TestStep

LEMMA Invariance == Spec => []IInv
  BY InvInit, InvStep, PTL DEF Spec

(***************************************************************************)
(* NonceIsNext: as long as watch_tx was called for every transaction, the  *)
(* nonce of the next one is that the node expects.                         *)
(***************************************************************************)
THEOREM NoncesLineUp == Spec => []NonceIsNext
<1>1. IInv => NonceIsNext
  BY DEF IInv, Kept, Settled, NonceIsNext
<1>2. QED
  BY <1>1, Invariance, PTL

(***************************************************************************)
(* ConfirmedIsSealed: the receipt deploy_evm_contract reads again after    *)
(* watch_tx is that of a sealed block.                                     *)
(***************************************************************************)
THEOREM ConfirmedSealed == Spec => []ConfirmedIsSealed
<1>1. IInv => ConfirmedIsSealed
  BY DEF IInv, Kept, ConfirmedIsSealed, SealedReceipt
<1>2. QED
  BY <1>1, Invariance, PTL

-----------------------------------------------------------------------------
(***************************************************************************)
(* The database: every document before the one a fixture is at is there,   *)
(* what a lookup saw stays, and, as long as no two fixtures overlapped,    *)
(* the one that is upserting sees what it will write over.                 *)
(***************************************************************************)
Passed(t) ==
  /\ \A d \in DOMAIN Doc : d < at[t] => copies[d] > 0
  /\ found[t] # "unknown" => Upserting(t)
  /\ found[t] = "some" => copies[at[t]] > 0

OneAtATime ==
  /\ \A d \in DOMAIN Doc : copies[d] <= 1
  /\ \A t \in Test : found[t] = "none" => copies[at[t]] = 0
  /\ \A t, u \in Test : Upserting(t) /\ Upserting(u) => t = u

DbInv ==
  /\ DbTypeOK
  /\ \A t \in Test : Passed(t)
  /\ ~overlap => OneAtATime

LEMMA DocLength == Len(Doc) \in Nat /\ DOMAIN Doc = 1..Len(Doc) /\ Over = Len(Doc) + 1
<1>1. Doc \in Seq({Fixture[i] : i \in DOMAIN Fixture})
  BY DocAssumption
<1>2. QED
  BY <1>1 DEF Over

LEMMA DbInvInit == Init => DbInv
<1> SUFFICES ASSUME Init PROVE DbInv
  OBVIOUS
<1>1. DbTypeOK
  <2>1. 0 \in 0..Over
    BY DocLength
  <2>2. QED
    BY <2>1 DEF Init, DbInit, DbTypeOK
<1>2. ASSUME NEW t \in Test PROVE Passed(t) /\ ~Upserting(t)
  BY DocLength DEF Init, DbInit, Passed, Upserting
<1>3. OneAtATime
  BY <1>2 DEF Init, DbInit, OneAtATime
<1>4. QED
  BY <1>1, <1>2, <1>3 DEF DbInv

(***************************************************************************)
(* An upsert: the lookup and the write of one fixture, with any steps of   *)
(* others before, between and after them.                                  *)
(***************************************************************************)
LEMMA DbInvDbStep ==
  ASSUME DbInv, NEW t \in Test, DbStep(t)
  PROVE  DbInv'
<1>a. DbTypeOK /\ (\A u \in Test : Passed(u)) /\ (~overlap => OneAtATime)
  BY DEF DbInv
<1>b. /\ copies \in [DOMAIN Doc -> Nat] /\ at \in [Test -> 0..Over] /\ overlap \in BOOLEAN
      /\ found \in [Test -> {"unknown", "none", "some"}]
  BY <1>a DEF DbTypeOK
<1>c. Len(Doc) \in Nat /\ DOMAIN Doc = 1..Len(Doc) /\ Over = Len(Doc) + 1
  BY DocLength
<1>1. CASE Connect(t)
  <2>1. /\ at[t] = 0 /\ at' = [at EXCEPT ![t] = 1] /\ UNCHANGED <<copies, found>>
        /\ overlap' = (overlap \/ \E u \in Test : Upserting(u))
    BY <1>1 DEF Connect
  <2>2. at' \in [Test -> 0..Over] /\ overlap' \in BOOLEAN
    BY <1>b, <1>c, <2>1
  <2>3. found[t] = "unknown"
    BY <1>a, <1>c, <2>1 DEF Passed, Upserting
  <2>4. \A u \in Test : Passed(u)'
    BY <1>a, <1>b, <1>c, <2>1, <2>3 DEF Passed, Upserting
  <2>5. ~overlap' => OneAtATime'
    <3>1. SUFFICES ASSUME ~overlap' PROVE OneAtATime'
      OBVIOUS
    <3>2. OneAtATime /\ \A u \in Test : ~Upserting(u)
      BY <1>a, <2>1, <3>1
    <3>3. \A u \in Test : Upserting(u)' => u = t
      BY <1>b, <2>1, <3>2 DEF Upserting
    <3>4. \A u \in Test : found[u] # "none"
      BY <1>a, <3>2 DEF Passed
    <3>5. QED
      BY <2>1, <3>2, <3>3, <3>4 DEF OneAtATime
  <2>6. QED
    BY <1>b, <2>1, <2>2, <2>4, <2>5 DEF DbInv, DbTypeOK
<1>2. CASE Lookup(t)
  <2>1. /\ Upserting(t) /\ UNCHANGED <<copies, at, overlap>>
        /\ found' = [found EXCEPT ![t] = IF copies[at[t]] = 0 THEN "none" ELSE "some"]
    BY <1>2 DEF Lookup
  <2>2. found' \in [Test -> {"unknown", "none", "some"}]
    BY <1>b, <2>1
  <2>3. at[t] \in DOMAIN Doc /\ copies[at[t]] \in Nat
    BY <1>b, <1>c, <2>1 DEF Upserting
  <2>4. \A u \in Test : Passed(u)'
    BY <1>a, <1>b, <2>1, <2>3 DEF Passed, Upserting
  <2>5. ~overlap' => OneAtATime'
    BY <1>a, <1>b, <2>1 DEF OneAtATime, Upserting
  <2>6. QED
    BY <1>b, <2>1, <2>2, <2>4, <2>5 DEF DbInv, DbTypeOK
<1>3. CASE Write(t)
  <2>1. /\ Upserting(t) /\ found[t] # "unknown" /\ overlap' = overlap
        /\ copies' = [copies EXCEPT ![at[t]] = IF found[t] = "none" THEN @ + 1 ELSE @]
        /\ at' = [at EXCEPT ![t] = @ + 1]
        /\ found' = [found EXCEPT ![t] = "unknown"]
    BY <1>3 DEF Write
  <2>2. at[t] \in 1..Len(Doc) /\ at[t] + 1 \in 0..Over /\ copies[at[t]] \in Nat
    BY <1>b, <1>c, <2>1 DEF Upserting
  <2>3. at' \in [Test -> 0..Over] /\ found' \in [Test -> {"unknown", "none", "some"}]
    BY <1>b, <2>1, <2>2
  <2>4. copies[at[t]] + 1 \in Nat
    BY <2>2
  <2>5. copies' \in [DOMAIN Doc -> Nat]
    BY <1>b, <1>c, <2>1, <2>2, <2>4
  <2>6. \A d \in DOMAIN Doc : copies[d] > 0 => copies'[d] > 0
    BY <1>b, <1>c, <2>1, <2>2
  <2>7. copies'[at[t]] > 0
    BY <1>a, <1>b, <1>c, <2>1, <2>2 DEF Passed
  <2>8. Passed(t)'
    <3>1. at'[t] = at[t] + 1 /\ found'[t] = "unknown"
      BY <1>b, <2>1
    <3>2. \A d \in DOMAIN Doc : d < at'[t] => d < at[t] \/ d = at[t]
      BY <1>c, <2>2, <3>1
    <3>3. \A d \in DOMAIN Doc : d < at'[t] => copies'[d] > 0
      BY <1>a, <2>6, <2>7, <3>2 DEF Passed
    <3>4. QED
      BY <3>1, <3>3 DEF Passed
  <2>9. ASSUME NEW u \in Test \ {t} PROVE Passed(u)'
    <3>1. at'[u] = at[u] /\ found'[u] = found[u]
      BY <1>b, <2>1
    <3>2. found[u] = "some" => at[u] \in DOMAIN Doc
      BY <1>a, <1>c DEF Passed, Upserting
    <3>3. QED
      BY <1>a, <2>6, <3>1, <3>2 DEF Passed, Upserting
  <2>10. ~overlap' => OneAtATime'
    <3>1. SUFFICES ASSUME ~overlap' PROVE OneAtATime'
      OBVIOUS
    <3>2. OneAtATime
      BY <1>a, <2>1, <3>1
    <3>3. \A d \in DOMAIN Doc : copies'[d] <= 1
      <4>1. found[t] = "none" => copies[at[t]] = 0
        BY <3>2 DEF OneAtATime
      <4>2. QED
        BY <1>b, <1>c, <2>1, <2>2, <3>2, <4>1 DEF OneAtATime
    <3>4. \A u \in Test : Upserting(u)' => Upserting(u)
      BY <1>b, <1>c, <2>1, <2>2 DEF Upserting
    <3>5. \A u \in Test : found'[u] # "none"
      BY <1>a, <1>b, <2>1, <3>2 DEF Passed, OneAtATime
    <3>6. QED
      BY <3>2, <3>3, <3>4, <3>5 DEF OneAtATime
  <2>11. QED
    BY <2>1, <1>b, <2>3, <2>5, <2>8, <2>9, <2>10 DEF DbInv, DbTypeOK
<1>4. QED
  BY <1>1, <1>2, <1>3 DEF DbStep

LEMMA DbInvStep == DbInv /\ [Next]_vars => DbInv'
<1> SUFFICES ASSUME DbInv, [Next]_vars PROVE DbInv'
  OBVIOUS
<1>1. ASSUME UNCHANGED dbVars PROVE DbInv'
  BY <1>1 DEF dbVars, DbInv, DbTypeOK, Passed, OneAtATime, Upserting
<1>2. ASSUME NEW t \in Test, SetUp(t) PROVE DbInv'
  BY <1>1, <1>2, DbInvDbStep DEF SetUp
<1>3. ASSUME NEW t \in Test,
             \/ ReadNonce(t) \/ Send(t) \/ Poll(t) \/ ReadReceipt(t)
             \/ (\E o \in Op : Begin(t, o)) \/ PollFails(t) \/ Mine(t)
      PROVE  DbInv'
  BY <1>1, <1>3 DEF ReadNonce, Send, Poll, ReadReceipt, Begin, PollFails, Mine
<1>4. CASE AllOver \/ UNCHANGED vars
  BY <1>1, <1>4 DEF AllOver, vars
<1>5. QED
  BY <1>2, <1>3, <1>4 DEF Next, TestStep

LEMMA DbInvariance == Spec => []DbInv
  BY DbInvInit, DbInvStep, PTL DEF Spec

(***************************************************************************)
(* MockDocuments: a test that starts finds every document of the fixture,  *)
(* whatever other tests are upserting; and as long as no two fixtures ran  *)
(* at once it finds each of them once, however many tests ran before.      *)
(***************************************************************************)
THEOREM MockIsFixture == Spec => []MockDocuments
<1>1. DbInv => MockDocuments
  <2> SUFFICES ASSUME DbInv PROVE FixtureComplete /\ OneCopyEach
    BY DEF MockDocuments
  <2>1. FixtureComplete
    BY DocLength DEF DbInv, DbTypeOK, Passed, FixtureComplete, Ready
  <2>2. OneCopyEach
    BY DEF DbInv, OneAtATime, OneCopyEach
  <2>3. QED
    BY <2>1, <2>2
<1>2. QED
  BY <1>1, DbInvariance, PTL
-----------------------------------------------------------------------------
(***************************************************************************)
(* The genesis.  Whatever the builder was asked for, and in whatever       *)
(* order, its contracts are Kakarot and the accounts of Kakarot's mapping, *)
(* each at the address of its EVM address.                                 *)
(***************************************************************************)
TheAddress == KakarotAddress(classHashes, Coinbase)
Home(e) == StarknetAddress(e, TheAddress, classHashes)
Mapping == contracts[TheAddress].evmToStarknet

Loaded == \A s \in DOMAIN classHashes : \E a \in Artifact : Stem[a] = s /\ classHashes[s] = Hash[a]
Empty == DOMAIN funded = {} /\ allowances = {}
Wired ==
  /\ DOMAIN contracts[TheAddress] = {"class", "balance", "coinbase", "evmToStarknet"}
  /\ DOMAIN Mapping \subseteq Evm
  /\ \A e \in DOMAIN Mapping : Mapping[e] = Home(e)
  /\ DOMAIN contracts = {TheAddress} \cup {Home(e) : e \in DOMAIN Mapping}
  /\ allowances = {Home(e) : e \in DOMAIN Mapping}
  /\ \A e \in DOMAIN Mapping :
       /\ DOMAIN contracts[Home(e)] = {"class", "balance", "evm", "implementation", "kakarot"}
       /\ contracts[Home(e)].evm = e

(***************************************************************************)
(* What an account was funded with is in the fee token's storage, where it *)
(* outlives the account's contract, or the conversion put it in both.      *)
(***************************************************************************)
Saved(e) == Home(e) \in DOMAIN balances /\ Whole(balances[Home(e)]) = funded[e]
Funded ==
  \A e \in DOMAIN funded :
    /\ e \in DOMAIN Mapping /\ funded[e] \in Nat
    /\ contracts[Home(e)].balance \in {NoBalance, funded[e]}
    /\ stage = "initialized" => Saved(e)
    /\ contracts[Home(e)].balance = NoBalance => Saved(e)

Made == stage \in {"initialized", "converting"} \cup Complete
GenesisInv ==
  /\ Loaded
  /\ stage \in {"uninitialized", "loaded"} => Empty
  /\ Made => Needed \subseteq DOMAIN classHashes /\ Wired /\ Funded
  /\ stage \in Complete => manifest.kakarot = TheAddress /\ manifest.declarations = classHashes

(***************************************************************************)
(* A converted genesis has the entries of alloc the conversion has visited,*)
(* and the import is started from a converted one only.                    *)
(***************************************************************************)
Converted ==
  /\ DOMAIN Mapping = DOMAIN Alloc \ todo
  /\ \A e \in DOMAIN Mapping : contracts[Home(e)].implementation = classHashes[Implementation(e)]
HiveInv ==
  /\ GenesisInv
  /\ ofHive => stage \in {"converting", "failed"} \cup Complete
  /\ stage = "converting" => ofHive
  /\ ofHive /\ stage \in {"converting"} \cup Complete => Converted
  /\ ofHive /\ stage \in Complete => todo = {}
  /\ known \subseteq Evm
  /\ step # "off" => stage = "built" /\ SendersKnown

-----------------------------------------------------------------------------
(***************************************************************************)
(* The import.  Between two transactions the counter is the number the     *)
(* node took, which are the ones before the place the import has reached.  *)
(***************************************************************************)
Taken == [signer : Evm, nonce : Nat, head : Nat]
ImportTypes ==
  /\ file \in File
  /\ head \in Nat /\ body \in Nat /\ tx \in Nat /\ counter \in Nat
  /\ taken \in Seq(Taken)
Abreast ==
  /\ bodies = file.bodies /\ ~file.tail
  /\ body <= Len(bodies)
  /\ body < Len(bodies) => tx <= Len(Body)
  /\ Len(taken) = counter
  /\ Len(taken) = Cardinality(Earlier(file, body + 1, tx + 1))
ImportInv ==
  /\ ImportTypes
  /\ step \in {"off", "decode"} => taken = <<>> /\ body = 0 /\ tx = 0 /\ counter = 0
  /\ step \in {"wait", "send"} => Abreast
  /\ step = "wait" => tx = 0
  /\ step = "send" => body < Len(bodies) /\ head >= body
  /\ TakenIsPrefix /\ OneSigner /\ InBodyOrder

-----------------------------------------------------------------------------
(***************************************************************************)
(* The addresses of the accounts differ, and none is Kakarot's.            *)
(***************************************************************************)
LEMMA HomesDiffer ==
  /\ \A e : Home(e) # TheAddress
  /\ \A d, e : Home(d) = Home(e) => d = e
<1>1. TheAddress.name = "kakarot" /\ \A e : Home(e).name = "account" /\ Home(e).evm = e
  BY DEF TheAddress, Home, KakarotAddress, StarknetAddress
<1>2. "kakarot" # "account"
  OBVIOUS
<1>3. \A e : Home(e) # TheAddress
  BY <1>1, <1>2
<1>4. \A d, e : Home(d) = Home(e) => d = e
  BY <1>1
<1>5. QED
  BY <1>3, <1>4

LEMMA KakarotFound == Wired => TheKakarot = TheAddress
<1> SUFFICES ASSUME Wired PROVE TheKakarot = TheAddress
  OBVIOUS
<1>1. TheAddress.name = "kakarot" /\ \A e : Home(e).name = "account"
  BY DEF TheAddress, Home, KakarotAddress, StarknetAddress
<1>2. TheAddress \in DOMAIN contracts /\ \A a \in DOMAIN contracts : a.name = "kakarot" => a = TheAddress
  BY <1>1 DEF Wired
<1>3. QED
  BY <1>1, <1>2 DEF TheKakarot

(***************************************************************************)
(* An account is added, or one is replaced.                                *)
(***************************************************************************)
Joins(e, account) ==
  /\ classHashes' = classHashes
  /\ DOMAIN contracts' = DOMAIN contracts \cup {Home(e)}
  /\ contracts'[TheAddress] = Registered(contracts[TheAddress], e, Home(e))
  /\ contracts'[Home(e)] = account
  /\ \A a \in DOMAIN contracts \ {TheAddress, Home(e)} : contracts'[a] = contracts[a]
  /\ allowances' = allowances \cup {Home(e)}

LEMMA SamePlaces ==
  ASSUME classHashes' = classHashes
  PROVE  TheAddress' = TheAddress /\ \A e : Home(e)' = Home(e)
BY DEF TheAddress, Home, KakarotAddress, StarknetAddress

LEMMA AccountJoins ==
  ASSUME Wired, NEW e \in Evm, NEW account, Joins(e, account),
         DOMAIN account = {"class", "balance", "evm", "implementation", "kakarot"},
         account.evm = e
  PROVE  /\ Wired'
         /\ DOMAIN Mapping' = DOMAIN Mapping \cup {e}
         /\ \A d \in DOMAIN Mapping \ {e} : contracts'[Home(d)] = contracts[Home(d)]
<1>1. TheAddress' = TheAddress /\ \A d : Home(d)' = Home(d)
  BY SamePlaces DEF Joins
<1>2. /\ DOMAIN contracts'[TheAddress] = DOMAIN contracts[TheAddress]
      /\ contracts'[TheAddress].evmToStarknet = Extended(Mapping, Entry(e, Home(e)))
  BY DEF Joins, Registered, Wired, Mapping
<1>3. Mapping' = Extended(Mapping, Entry(e, Home(e)))
  BY <1>1, <1>2 DEF Mapping
<1>4. /\ DOMAIN Mapping' = DOMAIN Mapping \cup {e}
      /\ Mapping'[e] = Home(e)
      /\ \A d \in DOMAIN Mapping \ {e} : Mapping'[d] = Mapping[d]
  BY <1>3 DEF Extended, Entry
<1>5. \A d \in DOMAIN Mapping \ {e} : contracts'[Home(d)] = contracts[Home(d)]
  BY HomesDiffer DEF Joins, Wired
<1>6. DOMAIN contracts' = {TheAddress} \cup {Home(d) : d \in DOMAIN Mapping'}
  BY <1>4 DEF Joins, Wired
<1>7. allowances' = {Home(d) : d \in DOMAIN Mapping'}
  BY <1>4 DEF Joins, Wired
<1>8. ASSUME NEW d \in DOMAIN Mapping'
      PROVE  /\ Mapping'[d] = Home(d)
             /\ DOMAIN contracts'[Home(d)] = {"class", "balance", "evm", "implementation", "kakarot"}
             /\ contracts'[Home(d)].evm = d
  <2>1. CASE d = e
    BY <1>4, <2>1 DEF Joins
  <2>2. CASE d # e
    BY <1>4, <1>5, <1>8, <2>2 DEF Wired
  <2>3. QED
    BY <2>1, <2>2
<1>9. Wired'
  <2>1. DOMAIN contracts'[TheAddress'] = {"class", "balance", "coinbase", "evmToStarknet"}
    BY <1>1, <1>2 DEF Wired
  <2>2. DOMAIN Mapping' \subseteq Evm
    BY <1>4 DEF Wired
  <2>3. /\ DOMAIN contracts' = {TheAddress'} \cup {Home(d)' : d \in DOMAIN Mapping'}
        /\ allowances' = {Home(d)' : d \in DOMAIN Mapping'}
    BY <1>1, <1>6, <1>7
  <2>4. \A d \in DOMAIN Mapping' :
          /\ Mapping'[d] = Home(d)'
          /\ DOMAIN contracts'[Home(d)'] = {"class", "balance", "evm", "implementation", "kakarot"}
          /\ contracts'[Home(d)'].evm = d
    BY <1>1, <1>8
  <2>5. QED
    BY <2>1, <2>2, <2>3, <2>4 DEF Wired
<1>10. QED
  BY <1>4, <1>5, <1>9

(***************************************************************************)
(* The two halves of a 256-bit number are that number.                     *)
(***************************************************************************)
LEMMA HalvesAreWhole ==
  ASSUME NEW n \in Amount
  PROVE  Whole(Halves(n)) = n
<1>1. Base \in Nat /\ Base > 1 /\ n \in Nat
  BY BaseAssumption DEF Amount
<1>2. (n % Base) + (n \div Base) * Base = n
  BY <1>1
<1>3. QED
  BY <1>2 DEF Whole, Halves

LEMMA HiveInvInit == HiveInit => HiveInv
<1> SUFFICES ASSUME HiveInit PROVE HiveInv
  OBVIOUS
<1>1. /\ stage = "uninitialized" /\ classHashes = <<>> /\ funded = <<>> /\ allowances = {}
      /\ step = "off" /\ known = {} /\ ofHive = FALSE
  BY DEF HiveInit, GenesisInit, ImportInit
<1>2. DOMAIN classHashes = {} /\ DOMAIN funded = {}
  BY <1>1
<1>3. GenesisInv
  BY <1>1, <1>2 DEF GenesisInv, Loaded, Empty, Made, Complete
<1>4. QED
  BY <1>1, <1>3 DEF HiveInv

(***************************************************************************)
(* A step that leaves the classes and the contracts alone.                 *)
(***************************************************************************)
LEMMA WiringStays ==
  ASSUME UNCHANGED <<classHashes, contracts, allowances>>
  PROVE  /\ Mapping' = Mapping
         /\ Wired => Wired'
         /\ Loaded => Loaded'
         /\ todo' = todo /\ Converted => Converted'
<1>1. TheAddress' = TheAddress /\ \A d : Home(d)' = Home(d)
  BY SamePlaces
<1>2. Mapping' = Mapping
  BY <1>1 DEF Mapping
<1>3. Wired => Wired'
  <2>1. {Home(d)' : d \in DOMAIN Mapping} = {Home(d) : d \in DOMAIN Mapping}
    BY <1>1
  <2>2. QED
    BY <1>1, <1>2, <2>1 DEF Wired
<1>4. todo' = todo /\ Converted => Converted'
  BY <1>1, <1>2 DEF Converted
<1>5. QED
  BY <1>2, <1>3, <1>4 DEF Loaded

LEMMA FundsStay ==
  ASSUME UNCHANGED <<classHashes, contracts, allowances, balances, funded>>, Funded,
         stage' = "initialized" => stage = "initialized"
  PROVE  Funded'
<1>1. Mapping' = Mapping /\ \A d : Home(d)' = Home(d)
  BY WiringStays, SamePlaces
<1>2. \A d : Saved(d) => Saved(d)'
  BY <1>1 DEF Saved
<1>3. QED
  BY <1>1, <1>2 DEF Funded

(***************************************************************************)
(* with_kakarot leaves a genesis with Kakarot and no account.              *)
(***************************************************************************)
LEMMA KakarotAlone ==
  ASSUME Loaded, Empty, NEW next, WithKakarot(next), UNCHANGED <<classHashes, allowances, funded>>,
         next \in {"initialized", "converting"}
  PROVE  /\ Loaded'
         /\ stage' \in {next, "failed"}
         /\ stage' = next => /\ Needed \subseteq DOMAIN classHashes'
                             /\ Wired' /\ Funded' /\ DOMAIN Mapping' = {}
<1>1. Loaded'
  BY DEF Loaded
<1>2. stage' \in {next, "failed"}
  BY DEF WithKakarot
<1>3. ASSUME stage' = next
      PROVE  /\ Needed \subseteq DOMAIN classHashes'
             /\ Wired' /\ Funded' /\ DOMAIN Mapping' = {}
  <2>1. /\ Needed \subseteq DOMAIN classHashes
        /\ contracts' = Entry(TheAddress, Kakarot(Coinbase))
    BY <1>3 DEF WithKakarot, TheAddress
  <2>2. TheAddress' = TheAddress
    BY SamePlaces
  <2>3. DOMAIN contracts' = {TheAddress} /\ contracts'[TheAddress] = Kakarot(Coinbase)
    BY <2>1 DEF Entry
  <2>4. Mapping' = <<>> /\ DOMAIN contracts'[TheAddress] = {"class", "balance", "coinbase", "evmToStarknet"}
    BY <2>2, <2>3 DEF Mapping, Kakarot
  <2>5. DOMAIN Mapping' = {}
    BY <2>4
  <2>6. Wired'
    BY <2>2, <2>3, <2>4, <2>5 DEF Wired, Empty
  <2>7. Funded'
    BY DEF Funded, Empty
  <2>8. QED
    BY <2>1, <2>5, <2>6, <2>7
<1>4. QED
  BY <1>1, <1>2, <1>3

(***************************************************************************)
(* Every step of the two programs keeps the invariant.                     *)
(***************************************************************************)
LEMMA LoadClassesKeeps == GenesisInv /\ LoadClasses => GenesisInv'
<1> SUFFICES ASSUME GenesisInv, LoadClasses PROVE GenesisInv'
  OBVIOUS
<1>1. UNCHANGED <<contracts, allowances, funded>> /\ stage = "uninitialized" /\ stage' \in {"loaded", "failed"}
  BY DEF LoadClasses
<1>2. Loaded'
  <2>1. CASE UNCHANGED classHashes
    BY <2>1 DEF GenesisInv, Loaded
  <2>2. ASSUME NEW w \in SUBSET Artifact,
               classHashes' = [s \in {Stem[a] : a \in w} |-> Hash[CHOOSE a \in w : Stem[a] = s]]
        PROVE  Loaded'
    <3>1. ASSUME NEW s \in {Stem[a] : a \in w}
          PROVE  \E a \in Artifact : Stem[a] = s /\ classHashes'[s] = Hash[a]
      <4>1. PICK a \in w : a = CHOOSE b \in w : Stem[b] = s
        BY <3>1
      <4>2. Stem[a] = s
        BY <3>1, <4>1
      <4>3. classHashes'[s] = Hash[a]
        BY <2>2, <4>1
      <4>4. QED
        BY <4>2, <4>3
    <3>2. QED
      BY <2>2, <3>1 DEF Loaded
  <2>3. QED
    BY <2>1, <2>2 DEF LoadClasses
<1>3. QED
  BY <1>1, <1>2 DEF GenesisInv, Empty, Made, Complete

LEMMA WithEoaKeeps ==
  ASSUME GenesisInv, NEW e \in Evm, WithEoa(e), stage' # "failed"
  PROVE  GenesisInv'
<1>1. /\ Loaded /\ Needed \subseteq DOMAIN classHashes /\ Wired /\ Funded
      /\ UNCHANGED <<stage, classHashes, balances, funded>> /\ stage = "initialized"
  BY DEF WithEoa, GenesisInv, Made, Complete
<1>2. TheKakarot = TheAddress /\ AddressOf(e) = Home(e)
  BY <1>1, KakarotFound DEF AddressOf, Home
<1>3. PICK account : account = Account(e, "externally_owned_account", NoBalance)
  OBVIOUS
<1>4. /\ DOMAIN account = {"class", "balance", "evm", "implementation", "kakarot"}
      /\ account.evm = e /\ account.balance = NoBalance
  BY <1>3 DEF Account
<1>5. Joins(e, account)
  <2>1. contracts' = Extended(Extended(contracts, Entry(TheAddress, Registered(contracts[TheAddress], e, Home(e)))),
                              Entry(Home(e), account))
    BY <1>2, <1>3 DEF WithEoa, EoaAdded
  <2>2. TheAddress # Home(e) /\ TheAddress \in DOMAIN contracts
    BY <1>1, HomesDiffer DEF Wired
  <2>3. /\ DOMAIN contracts' = DOMAIN contracts \cup {Home(e)}
        /\ contracts'[TheAddress] = Registered(contracts[TheAddress], e, Home(e))
        /\ contracts'[Home(e)] = account
        /\ \A a \in DOMAIN contracts \ {TheAddress, Home(e)} : contracts'[a] = contracts[a]
    BY <2>1, <2>2 DEF Extended, Entry
  <2>4. QED
    BY <1>1, <1>2, <2>3 DEF Joins, WithEoa
<1>6. /\ Wired' /\ DOMAIN Mapping' = DOMAIN Mapping \cup {e}
      /\ \A d \in DOMAIN Mapping \ {e} : contracts'[Home(d)] = contracts[Home(d)]
      /\ contracts'[Home(e)] = account
  BY <1>1, <1>4, <1>5, AccountJoins DEF Joins
<1>7. Funded'
  <2>1. \A d : Home(d)' = Home(d) /\ (Saved(d) => Saved(d)')
    BY <1>1, SamePlaces DEF Saved
  <2>2. ASSUME NEW d \in DOMAIN funded
        PROVE  /\ d \in DOMAIN Mapping' /\ funded[d] \in Nat
               /\ contracts'[Home(d)].balance \in {NoBalance, funded[d]}
               /\ Saved(d)'
    <3>1. Saved(d) /\ d \in DOMAIN Mapping /\ funded[d] \in Nat
          /\ contracts[Home(d)].balance \in {NoBalance, funded[d]}
      BY <1>1 DEF Funded
    <3>2. QED
      BY <1>4, <1>6, <2>1, <3>1
  <2>3. QED
    BY <1>1, <2>1, <2>2 DEF Funded
<1>8. Loaded'
  BY <1>1 DEF Loaded
<1>9. QED
  BY <1>1, <1>6, <1>7, <1>8 DEF GenesisInv, Made, Complete

LEMMA FundKeeps ==
  ASSUME GenesisInv, NEW e \in Evm, NEW amount \in Amount, Fund(e, amount), stage' # "failed"
  PROVE  GenesisInv'
<1>1. /\ Loaded /\ Needed \subseteq DOMAIN classHashes /\ Wired /\ Funded
      /\ UNCHANGED <<classHashes, allowances>> /\ stage = "initialized"
  BY DEF Fund, GenesisInv, Made, Complete
<1>2. TheKakarot = TheAddress /\ AddressOf(e) = Home(e)
  BY <1>1, KakarotFound DEF AddressOf, Home
<1>3. Loaded'
  BY <1>1 DEF Loaded
<1>4. CASE Home(e) \in DOMAIN contracts
  <2>1. /\ balances' = Extended(balances, Entry(Home(e), Halves(amount)))
        /\ contracts' = [contracts EXCEPT ![Home(e)].balance = amount]
        /\ funded' = Extended(funded, Entry(e, amount))
        /\ stage' = stage
    BY <1>2, <1>4 DEF Fund, NewBalances
  <2>2. e \in DOMAIN Mapping /\ Home(e) # TheAddress
    BY <1>1, <1>4, HomesDiffer DEF Wired
  <2>3. TheAddress' = TheAddress /\ \A d : Home(d)' = Home(d)
    BY <1>1, SamePlaces
  <2>4. /\ DOMAIN contracts' = DOMAIN contracts
        /\ contracts'[Home(e)] = [contracts[Home(e)] EXCEPT !.balance = amount]
        /\ \A a \in DOMAIN contracts \ {Home(e)} : contracts'[a] = contracts[a]
    BY <1>4, <2>1
  <2>5. /\ DOMAIN contracts[Home(e)] = {"class", "balance", "evm", "implementation", "kakarot"}
        /\ contracts[Home(e)].evm = e
    BY <1>1, <2>2 DEF Wired
  <2>6. /\ DOMAIN contracts'[Home(e)] = {"class", "balance", "evm", "implementation", "kakarot"}
        /\ contracts'[Home(e)].evm = e /\ contracts'[Home(e)].balance = amount
    BY <2>4, <2>5
  <2>7. contracts'[TheAddress] = contracts[TheAddress] /\ Mapping' = Mapping
    BY <1>1, <2>2, <2>3, <2>4 DEF Wired, Mapping
  <2>8. \A d \in DOMAIN Mapping \ {e} : Home(d) # Home(e) /\ contracts'[Home(d)] = contracts[Home(d)]
    BY <1>1, <2>4, HomesDiffer DEF Wired
  <2>9. Wired'
    <3>1. \A d \in DOMAIN Mapping :
            /\ DOMAIN contracts'[Home(d)] = {"class", "balance", "evm", "implementation", "kakarot"}
            /\ contracts'[Home(d)].evm = d
      BY <1>1, <2>6, <2>8 DEF Wired
    <3>2. {Home(d)' : d \in DOMAIN Mapping} = {Home(d) : d \in DOMAIN Mapping}
      BY <2>3
    <3>3. QED
      BY <1>1, <2>3, <2>4, <2>7, <3>1, <3>2 DEF Wired
  <2>10. Funded'
    <3>1. /\ DOMAIN funded' = DOMAIN funded \cup {e} /\ funded'[e] = amount
          /\ \A d \in DOMAIN funded \ {e} : funded'[d] = funded[d]
      BY <2>1 DEF Extended, Entry
    <3>2. /\ DOMAIN balances' = DOMAIN balances \cup {Home(e)} /\ balances'[Home(e)] = Halves(amount)
          /\ \A a \in DOMAIN balances \ {Home(e)} : balances'[a] = balances[a]
      BY <2>1 DEF Extended, Entry
    <3>3. amount \in Nat /\ Whole(Halves(amount)) = amount
      BY BaseAssumption, HalvesAreWhole DEF Amount
    <3>4. ASSUME NEW d \in DOMAIN funded'
          PROVE  /\ d \in DOMAIN Mapping' /\ funded'[d] \in Nat
                 /\ contracts'[Home(d)].balance \in {NoBalance, funded'[d]}
                 /\ Saved(d)'
      <4>1. CASE d = e
        BY <2>2, <2>3, <2>6, <2>7, <3>1, <3>2, <3>3, <4>1 DEF Saved
      <4>2. CASE d # e
        <5>1. /\ d \in DOMAIN Mapping /\ funded[d] \in Nat /\ Saved(d) /\ d \in DOMAIN funded
              /\ contracts[Home(d)].balance \in {NoBalance, funded[d]}
          BY <1>1, <3>1, <4>2 DEF Funded
        <5>2. funded'[d] = funded[d] /\ contracts'[Home(d)] = contracts[Home(d)] /\ Home(d) # Home(e)
          BY <2>8, <3>1, <4>2, <5>1
        <5>3. Saved(d)'
          BY <2>3, <3>2, <5>1, <5>2 DEF Saved, Whole
        <5>4. QED
          BY <2>7, <5>1, <5>2, <5>3
      <4>3. QED
        BY <4>1, <4>2
    <3>5. QED
      BY <2>3, <3>4 DEF Funded
  <2>11. QED
    BY <1>1, <1>3, <2>1, <2>9, <2>10 DEF GenesisInv, Made, Complete
<1>5. CASE Home(e) \notin DOMAIN contracts
  BY <1>2, <1>3, <1>5 DEF Fund, GenesisInv, Made, Complete
<1>6. QED
  BY <1>4, <1>5

LEMMA ConvertEntryKeeps ==
  ASSUME HiveInv, NEW e \in DOMAIN Alloc, ConvertEntry(e), ofHive
  PROVE  GenesisInv' /\ (stage' = "converting" => Converted')
<1>1. /\ Loaded /\ Needed \subseteq DOMAIN classHashes /\ Wired /\ Funded /\ Converted
      /\ UNCHANGED <<classHashes, balances>> /\ stage = "converting" /\ e \in todo
      /\ e \in Evm
  BY AllocAssumption DEF ConvertEntry, HiveInv, GenesisInv, Made, Complete
<1>2. TheKakarot = TheAddress /\ AddressOf(e) = Home(e)
  BY <1>1, KakarotFound DEF AddressOf, Home
<1>3. Loaded'
  BY <1>1 DEF Loaded
<1>4. CASE stage' = "failed"
  BY <1>3, <1>4 DEF GenesisInv, Made, Complete
<1>5. CASE stage' # "failed"
  <2>1. PICK account : account = Account(e, Implementation(e), Alloc[e].balance)
    OBVIOUS
  <2>2. /\ DOMAIN account = {"class", "balance", "evm", "implementation", "kakarot"}
        /\ account.evm = e /\ account.balance = Alloc[e].balance
        /\ account.implementation = classHashes[Implementation(e)]
    BY <2>1 DEF Account
  <2>3. /\ contracts' = Extended([contracts EXCEPT ![TheAddress] = Registered(@, e, Home(e))],
                                 Entry(Home(e), account))
        /\ allowances' = allowances \cup {Home(e)}
        /\ funded' = Extended(funded, Entry(e, Alloc[e].balance))
        /\ todo' = todo \ {e} /\ stage' = stage
    BY <1>2, <1>5, <2>1 DEF ConvertEntry
  <2>4. Joins(e, account)
    <3>1. TheAddress # Home(e) /\ TheAddress \in DOMAIN contracts
      BY <1>1, HomesDiffer DEF Wired
    <3>2. /\ DOMAIN contracts' = DOMAIN contracts \cup {Home(e)}
          /\ contracts'[TheAddress] = Registered(contracts[TheAddress], e, Home(e))
          /\ contracts'[Home(e)] = account
          /\ \A a \in DOMAIN contracts \ {TheAddress, Home(e)} : contracts'[a] = contracts[a]
      BY <2>3, <3>1 DEF Extended, Entry
    <3>3. QED
      BY <1>1, <2>3, <3>2 DEF Joins
  <2>5. /\ Wired' /\ DOMAIN Mapping' = DOMAIN Mapping \cup {e}
        /\ \A d \in DOMAIN Mapping \ {e} : contracts'[Home(d)] = contracts[Home(d)]
        /\ contracts'[Home(e)] = account
    BY <1>1, <2>2, <2>4, AccountJoins DEF Joins
  <2>6. \A d : Home(d)' = Home(d)
    BY <1>1, SamePlaces
  <2>7. /\ DOMAIN funded' = DOMAIN funded \cup {e} /\ funded'[e] = Alloc[e].balance
        /\ \A d \in DOMAIN funded \ {e} : funded'[d] = funded[d]
    BY <2>3 DEF Extended, Entry
  <2>8. Alloc[e].balance \in Nat /\ Alloc[e].balance # NoBalance
    BY AllocAssumption, BaseAssumption DEF NoBalance
  <2>9. Funded'
    <3>1. ASSUME NEW d \in DOMAIN funded'
          PROVE  /\ d \in DOMAIN Mapping' /\ funded'[d] \in Nat
                 /\ contracts'[Home(d)].balance \in {NoBalance, funded'[d]}
                 /\ contracts'[Home(d)].balance = NoBalance => Saved(d)'
      <4>1. CASE d = e
        BY <2>2, <2>5, <2>7, <2>8, <4>1
      <4>2. CASE d # e
        <5>1. /\ d \in DOMAIN Mapping /\ funded[d] \in Nat /\ d \in DOMAIN funded
              /\ contracts[Home(d)].balance \in {NoBalance, funded[d]}
              /\ contracts[Home(d)].balance = NoBalance => Saved(d)
          BY <1>1, <2>7, <4>2 DEF Funded
        <5>2. funded'[d] = funded[d] /\ contracts'[Home(d)] = contracts[Home(d)]
          BY <2>5, <2>7, <4>2, <5>1
        <5>3. Saved(d) => Saved(d)'
          BY <1>1, <2>6, <5>2 DEF Saved
        <5>4. QED
          BY <2>5, <5>1, <5>2, <5>3
      <4>3. QED
        BY <4>1, <4>2
    <3>2. stage' # "initialized"
      BY <1>1, <2>3
    <3>3. QED
      BY <2>6, <3>1, <3>2 DEF Funded
  <2>10. Converted'
    <3>1. DOMAIN Mapping' = DOMAIN Alloc \ todo'
      BY <1>1, <2>3, <2>5 DEF Converted
    <3>2. ASSUME NEW d \in DOMAIN Mapping'
          PROVE  contracts'[Home(d)].implementation = classHashes[Implementation(d)]
      <4>1. CASE d = e
        BY <2>2, <2>5, <4>1
      <4>2. CASE d # e
        BY <1>1, <2>5, <4>2 DEF Converted
      <4>3. QED
        BY <4>1, <4>2
    <3>3. QED
      BY <1>1, <2>6, <3>1, <3>2 DEF Converted, Implementation
  <2>11. QED
    BY <1>1, <1>3, <2>3, <2>5, <2>9, <2>10 DEF GenesisInv, Made, Complete
<1>6. QED
  BY <1>4, <1>5

LEMMA FailureKeeps ==
  ASSUME GenesisInv, UNCHANGED classHashes, stage' = "failed"
  PROVE  GenesisInv'
BY DEF GenesisInv, Loaded, Made, Complete

(***************************************************************************)
(* The genesis is written with the manifest made for it.                   *)
(***************************************************************************)
LEMMA WrittenKeeps ==
  ASSUME GenesisInv, Made, UNCHANGED <<classHashes, contracts, balances, allowances, funded>>,
         stage' \in Complete, manifest' = ManifestOf(TheAddress)
  PROVE  GenesisInv'
<1>1. Loaded' /\ Wired' /\ Funded'
  BY WiringStays, FundsStay DEF GenesisInv, Complete
<1>2. manifest'.kakarot = TheAddress' /\ manifest'.declarations = classHashes'
  BY SamePlaces DEF ManifestOf
<1>3. QED
  BY <1>1, <1>2 DEF GenesisInv, Made, Complete

LEMMA MakeGenesisKeeps == HiveInv /\ MakeGenesis => HiveInv'
<1> SUFFICES ASSUME HiveInv, MakeGenesis PROVE HiveInv'
  OBVIOUS
<1>1. GenesisInv /\ GenesisNext /\ step' = step /\ known' = known
      /\ ofHive' = (ofHive \/ stage' = "converting")
  BY DEF HiveInv, MakeGenesis, importVars
<1>2. stage # "built"
  BY <1>1 DEF GenesisNext, LoadClasses, DevAllocation, SetUpKakarot, WithEoa, Fund, Build,
              BeginConversion, ConvertEntry, FinishConversion, WriteManifest
<1>3. step = "off" /\ step' = "off" /\ known' \subseteq Evm
  BY <1>1, <1>2 DEF HiveInv
<1>4. SUFFICES /\ GenesisInv'
               /\ ofHive' => stage' \in {"converting", "failed"} \cup Complete
               /\ ofHive' /\ stage' \in {"converting"} \cup Complete => Converted'
               /\ ofHive' /\ stage' \in Complete => todo' = {}
  BY <1>1, <1>3 DEF HiveInv
<1>5. CASE LoadClasses
  <2>1. stage = "uninitialized" /\ stage' \in {"loaded", "failed"}
    BY <1>5 DEF LoadClasses
  <2>2. QED
    BY <1>1, <1>5, <2>1, LoadClassesKeeps DEF HiveInv, Complete
<1>6. CASE DevAllocation
  <2>1. UNCHANGED <<stage, classHashes, contracts, balances, allowances, manifest, funded>>
        /\ stage \in {"uninitialized", "loaded", "initialized"}
    BY <1>6 DEF DevAllocation
  <2>2. (Loaded => Loaded') /\ (Wired => Wired') /\ (Funded => Funded')
    BY <2>1, WiringStays, FundsStay
  <2>3. GenesisInv'
    BY <1>1, <2>1, <2>2 DEF GenesisInv, Empty, Made, Complete
  <2>4. QED
    BY <1>1, <2>1, <2>3 DEF HiveInv, Complete
<1>7. CASE SetUpKakarot
  <2>1. /\ stage = "loaded" /\ WithKakarot("initialized") /\ Loaded /\ Empty
        /\ UNCHANGED <<classHashes, allowances, funded>>
    BY <1>1, <1>7 DEF SetUpKakarot, GenesisInv
  <2>2. /\ Loaded'
        /\ stage' \in {"initialized", "failed"}
        /\ stage' = "initialized" => Needed \subseteq DOMAIN classHashes' /\ Wired' /\ Funded'
    BY <2>1, KakarotAlone
  <2>3. GenesisInv'
    BY <2>2 DEF GenesisInv, Made, Complete
  <2>4. QED
    BY <1>1, <2>1, <2>2, <2>3 DEF HiveInv, Complete
<1>8. CASE \E e \in Evm : WithEoa(e) \/ \E amount \in Amount : Fund(e, amount)
  <2>1. stage = "initialized" /\ stage' \in {"initialized", "failed"} /\ UNCHANGED classHashes
    BY <1>8 DEF WithEoa, Fund
  <2>2. GenesisInv'
    BY <1>1, <1>8, <2>1, WithEoaKeeps, FundKeeps, FailureKeeps
  <2>3. QED
    BY <1>1, <2>1, <2>2 DEF HiveInv, Complete
<1>9. CASE Build
  <2>1. /\ stage = "initialized" /\ WriteGenesis(TheKakarot)
        /\ UNCHANGED <<classHashes, contracts, balances, allowances, funded>>
    BY <1>9 DEF Build
  <2>2. TheKakarot = TheAddress
    BY <1>1, <2>1, KakarotFound DEF GenesisInv, Made, Complete
  <2>3. GenesisInv' /\ stage' \in {"written", "failed"}
    BY <1>1, <2>1, <2>2, WrittenKeeps, FailureKeeps DEF Made, WriteGenesis, Complete
  <2>4. QED
    BY <1>1, <2>1, <2>3 DEF HiveInv, Complete
<1>10. CASE BeginConversion
  <2>1. /\ stage = "loaded" /\ WithKakarot("converting") /\ Loaded /\ Empty
        /\ UNCHANGED <<classHashes, allowances, funded>> /\ todo' = DOMAIN Alloc
    BY <1>1, <1>10 DEF BeginConversion, GenesisInv
  <2>2. /\ Loaded'
        /\ stage' \in {"converting", "failed"}
        /\ stage' = "converting" => /\ Needed \subseteq DOMAIN classHashes'
                                    /\ Wired' /\ Funded' /\ DOMAIN Mapping' = {}
    BY <2>1, KakarotAlone
  <2>3. GenesisInv'
    BY <2>2 DEF GenesisInv, Made, Complete
  <2>4. stage' = "converting" => Converted'
    BY <2>1, <2>2 DEF Converted
  <2>5. QED
    BY <1>1, <2>1, <2>2, <2>3, <2>4 DEF HiveInv, Complete
<1>11. CASE \E e \in DOMAIN Alloc : ConvertEntry(e)
  <2>1. stage = "converting" /\ stage' \in {"converting", "failed"} /\ ofHive
    BY <1>11 DEF ConvertEntry, HiveInv
  <2>2. QED
    BY <1>11, <2>1, ConvertEntryKeeps DEF Complete
<1>12. CASE FinishConversion
  <2>1. /\ stage = "converting" /\ WriteGenesis(TheAddress) /\ todo = {} /\ todo' = {}
        /\ UNCHANGED <<classHashes, contracts, balances, allowances, funded>>
    BY <1>12 DEF FinishConversion, TheAddress, KakarotAddress
  <2>2. GenesisInv' /\ stage' \in {"written", "failed"}
    BY <1>1, <2>1, WrittenKeeps, FailureKeeps DEF Made, WriteGenesis, Complete
  <2>3. ofHive /\ Converted
    BY <2>1 DEF HiveInv
  <2>4. Converted'
    BY <2>1, <2>3, WiringStays
  <2>5. QED
    BY <2>1, <2>2, <2>4 DEF Complete
<1>13. CASE WriteManifest
  <2>1. /\ stage = "written" /\ stage' \in {"built", "failed"} /\ UNCHANGED <<todo, manifest>>
        /\ UNCHANGED <<classHashes, contracts, balances, allowances, funded>>
    BY <1>13 DEF WriteManifest, Ended
  <2>2. GenesisInv'
    <3>1. CASE stage' = "failed"
      BY <1>1, <2>1, <3>1, FailureKeeps
    <3>2. CASE stage' = "built"
      <4>1. (Loaded => Loaded') /\ (Wired => Wired') /\ (Funded => Funded') /\ TheAddress' = TheAddress
        BY <2>1, <3>2, WiringStays, FundsStay, SamePlaces
      <4>2. QED
        BY <1>1, <2>1, <3>2, <4>1 DEF GenesisInv, Made, Complete
    <3>3. QED
      BY <2>1, <3>1, <3>2
  <2>3. Converted => Converted'
    BY <2>1, WiringStays
  <2>4. /\ ofHive => Converted /\ todo = {}
        /\ ofHive' => ofHive
    BY <1>1, <2>1 DEF HiveInv, Complete
  <2>5. QED
    BY <2>1, <2>2, <2>3, <2>4 DEF Complete
<1>14. QED
  BY <1>1, <1>5, <1>6, <1>7, <1>8, <1>9, <1>10, <1>11, <1>12, <1>13 DEF GenesisNext

(***************************************************************************)
(* The start script: the addresses the import computes from the manifest   *)
(* are the genesis' own, and the class tells a key's account from a        *)
(* contract's.                                                             *)
(***************************************************************************)
LEMMA StartNodeKeeps == HiveInv /\ StartNode => HiveInv'
<1> SUFFICES ASSUME HiveInv, StartNode PROVE HiveInv'
  OBVIOUS
<1>1. /\ GenesisInv /\ Loaded /\ Wired /\ Needed \subseteq DOMAIN classHashes /\ Converted /\ todo = {}
      /\ manifest.kakarot = TheAddress /\ manifest.declarations = classHashes
      /\ stage = "built" /\ ofHive
      /\ UNCHANGED <<stage, classHashes, contracts, accounts, balances, allowances, todo,
                     manifest, funded, ofHive>>
  BY DEF StartNode, HiveInv, GenesisInv, Made, genesisVars, Complete
<1>2. DOMAIN Mapping = DOMAIN Alloc /\ DOMAIN Alloc \subseteq Evm
  BY <1>1, AllocAssumption DEF Converted
<1>3. \A e : Sender(e) = Home(e)
  BY <1>1 DEF Sender, Home
<1>4. \A e : Home(e) \in DOMAIN contracts <=> e \in DOMAIN Alloc
  BY <1>1, <1>2, HomesDiffer DEF Wired
<1>5. classHashes["contract_account"] # classHashes["externally_owned_account"]
  <2>1. PICK a \in Artifact : /\ Stem[a] = "contract_account"
                              /\ classHashes["contract_account"] = Hash[a]
    BY <1>1 DEF Loaded, Needed
  <2>2. PICK b \in Artifact : /\ Stem[b] = "externally_owned_account"
                              /\ classHashes["externally_owned_account"] = Hash[b]
    BY <1>1 DEF Loaded, Needed
  <2>3. QED
    BY <2>1, <2>2, HashAssumption
<1>6. ASSUME NEW e \in DOMAIN Alloc
      PROVE  contracts[Home(e)].implementation = classHashes["externally_owned_account"]
               <=> ~Alloc[e].code
  <2>1. contracts[Home(e)].implementation = classHashes[Implementation(e)]
    BY <1>1, <1>2 DEF Converted
  <2>2. QED
    BY <1>5, <2>1 DEF Implementation
<1>7. known' = {e \in DOMAIN Alloc : ~Alloc[e].code}
  <2>1. known' = {e \in Evm : /\ Sender(e) \in DOMAIN contracts
                              /\ contracts[Sender(e)].implementation =
                                   classHashes["externally_owned_account"]}
    BY <1>1 DEF StartNode
  <2>2. QED
    BY <1>2, <1>3, <1>4, <1>6, <2>1
<1>8. GenesisInv'
  <2>1. Loaded' /\ Wired' /\ Funded'
    BY <1>1, WiringStays, FundsStay DEF GenesisInv, Made, Complete
  <2>2. TheAddress' = TheAddress
    BY <1>1, SamePlaces
  <2>3. QED
    BY <1>1, <2>1, <2>2 DEF GenesisInv, Made, Complete
<1>9. Converted' /\ todo' = {}
  BY <1>1, WiringStays
<1>10. QED
  BY <1>1, <1>2, <1>7, <1>8, <1>9 DEF HiveInv, SendersKnown

LEMMA HiveInvStep == HiveInv /\ [HiveNext]_hiveVars => HiveInv'
<1> SUFFICES ASSUME HiveInv, [HiveNext]_hiveVars PROVE HiveInv'
  OBVIOUS
<1>1. CASE MakeGenesis
  BY <1>1, MakeGenesisKeeps
<1>2. CASE StartNode
  BY <1>2, StartNodeKeeps
<1>3. CASE Import \/ UNCHANGED hiveVars
  <2>1. /\ UNCHANGED <<stage, classHashes, contracts, balances, allowances, todo,
                       manifest, funded, ofHive>>
        /\ known' = known
    BY <1>3 DEF Import, ImportStep, Decode, AwaitBlock, SendTx, NextBody, NoBlockNumber, Seal,
                hiveVars, genesisVars, importVars
  <2>2. step = "off" => step' = "off"
    BY <1>3 DEF Import, ImportStep, Decode, AwaitBlock, SendTx, NextBody, NoBlockNumber, Seal,
                hiveVars, importVars
  <2>3. /\ Loaded => Loaded'
        /\ Wired => Wired'
        /\ Funded => Funded'
        /\ Converted => Converted'
        /\ TheAddress' = TheAddress
    BY <2>1, WiringStays, FundsStay, SamePlaces
  <2>4. GenesisInv'
    BY <2>1, <2>3 DEF HiveInv, GenesisInv, Empty, Made, Complete
  <2>5. QED
    BY <2>1, <2>2, <2>3, <2>4 DEF HiveInv, SendersKnown
<1>4. QED
  BY <1>1, <1>2, <1>3 DEF HiveNext, Finished

LEMMA HiveInvariance == HiveSpec => []HiveInv
BY HiveInvInit, HiveInvStep, PTL DEF HiveSpec

(***************************************************************************)
(* SendersFound: the genesis, the manifest made by a second builder, and   *)
(* the import that reads the manifest agree on where the accounts are.     *)
(***************************************************************************)
THEOREM AccountsAreFound == HiveSpec => []SendersFound
<1>1. HiveInv => SendersFound
  <2> SUFFICES ASSUME HiveInv PROVE SendersFound
    OBVIOUS
  <2>1. SendersKnown
    BY DEF HiveInv, SendersKnown
  <2>2. ASSUME stage = "built"
        PROVE  /\ manifest.kakarot \in DOMAIN contracts
               /\ \A a \in DOMAIN contracts \ {manifest.kakarot} :
                    a = StarknetAddress(contracts[a].evm, manifest.kakarot, manifest.declarations)
    <3>1. /\ Wired /\ manifest.kakarot = TheAddress /\ manifest.declarations = classHashes
      BY <2>2 DEF HiveInv, GenesisInv, Made, Complete
    <3>2. \A a \in DOMAIN contracts \ {TheAddress} : a = Home(contracts[a].evm)
      BY <3>1 DEF Wired
    <3>3. QED
      BY <3>1, <3>2 DEF Wired, Home
  <2>3. QED
    BY <2>1, <2>2 DEF SendersFound, ManifestMatchesGenesis
<1>2. QED
  BY <1>1, HiveInvariance, PTL

(***************************************************************************)
(* AccountsRegistered: Kakarot's mapping, the accounts and the allowances  *)
(* agree after any sequence of builder calls and any order of conversion.  *)
(***************************************************************************)
THEOREM MappingIsComplete == HiveSpec => []AccountsRegistered
<1>1. HiveInv => AccountsRegistered
  <2> SUFFICES ASSUME HiveInv, Made
               PROVE  LET mapping == contracts[TheKakarot].evmToStarknet
                          deployed == DOMAIN contracts \ {TheKakarot}
                      IN /\ Range(mapping) = deployed /\ allowances = deployed
                         /\ \A evm \in DOMAIN mapping : contracts[mapping[evm]].evm = evm
    BY DEF AccountsRegistered, Made, Complete
  <2>1. Wired
    BY DEF HiveInv, GenesisInv
  <2>2. TheKakarot = TheAddress
    BY <2>1, KakarotFound
  <2>3. DOMAIN contracts \ {TheAddress} = {Home(e) : e \in DOMAIN Mapping}
    BY <2>1, HomesDiffer DEF Wired
  <2>4. Range(Mapping) = {Home(e) : e \in DOMAIN Mapping}
    BY <2>1 DEF Wired, Range
  <2>5. \A e \in DOMAIN Mapping : contracts[Mapping[e]].evm = e
    BY <2>1 DEF Wired
  <2>6. allowances = {Home(e) : e \in DOMAIN Mapping}
    BY <2>1 DEF Wired
  <2>7. QED
    BY <2>2, <2>3, <2>4, <2>5, <2>6 DEF Mapping
<1>2. QED
  BY <1>1, HiveInvariance, PTL

(***************************************************************************)
(* FundsSurvive: the node gives each account what it was last funded with, *)
(* also after with_eoa replaced its contract.                              *)
(***************************************************************************)
THEOREM FundsAreKept == HiveSpec => []FundsSurvive
<1>1. HiveInv => FundsSurvive
  <2> SUFFICES ASSUME HiveInv, stage \in {"initialized"} \cup Complete, NEW e \in DOMAIN funded
               PROVE  NodeBalance(AddressOf(e)) = funded[e]
    BY DEF FundsSurvive
  <2>1. Wired /\ Funded
    BY DEF HiveInv, GenesisInv, Made, Complete
  <2>2. AddressOf(e) = Home(e)
    BY <2>1, KakarotFound DEF AddressOf, Home
  <2>3. /\ contracts[Home(e)].balance \in {NoBalance, funded[e]}
        /\ contracts[Home(e)].balance = NoBalance => Saved(e)
    BY <2>1 DEF Funded
  <2>4. QED
    BY <2>2, <2>3 DEF NodeBalance, Saved
<1>2. QED
  BY <1>1, HiveInvariance, PTL

(***************************************************************************)
(* The places of a file: finitely many, in a total order their rank obeys. *)
(***************************************************************************)
LEMMA PlaceIs ==
  ASSUME NEW f \in File
  PROVE  /\ Len(f.bodies) \in Nat /\ DOMAIN f.bodies = 1..Len(f.bodies)
         /\ \A b \in 1..Len(f.bodies) : /\ Len(f.bodies[b].txs) \in Nat
                                        /\ DOMAIN f.bodies[b].txs = 1..Len(f.bodies[b].txs)
         /\ \A p \in Places(f) : /\ p = <<p[1], p[2]>>
                                 /\ p[1] \in 1..Len(f.bodies)
                                 /\ p[2] \in 1..Len(f.bodies[p[1]].txs)
                                 /\ p[1] \in Int /\ p[2] \in Int
         /\ \A b \in 1..Len(f.bodies) : \A j \in 1..Len(f.bodies[b].txs) : <<b, j>> \in Places(f)
<1>1. Len(f.bodies) \in Nat /\ DOMAIN f.bodies = 1..Len(f.bodies)
  BY FileAssumption DEF IsList
<1>2. \A b \in 1..Len(f.bodies) : /\ Len(f.bodies[b].txs) \in Nat
                                  /\ DOMAIN f.bodies[b].txs = 1..Len(f.bodies[b].txs)
  BY <1>1, FileAssumption DEF IsList
<1>3. ASSUME NEW p \in Places(f)
      PROVE  /\ p = <<p[1], p[2]>>
             /\ p[1] \in 1..Len(f.bodies)
             /\ p[2] \in 1..Len(f.bodies[p[1]].txs)
             /\ p[1] \in Int /\ p[2] \in Int
  <2>1. PICK b \in 1..Len(f.bodies) : p \in {b} \X DOMAIN f.bodies[b].txs
    BY <1>1 DEF Places
  <2>2. p = <<p[1], p[2]>> /\ p[1] = b /\ p[2] \in 1..Len(f.bodies[b].txs)
    BY <1>2, <2>1
  <2>3. b \in Int /\ p[2] \in Int
    BY <1>2, <2>2
  <2>4. QED
    BY <2>2, <2>3
<1>4. ASSUME NEW b \in 1..Len(f.bodies), NEW j \in 1..Len(f.bodies[b].txs)
      PROVE  <<b, j>> \in Places(f)
  <2>1. <<b, j>> \in {b} \X DOMAIN f.bodies[b].txs
    BY <1>2
  <2>2. QED
    BY <1>1, <2>1 DEF Places
<1>5. QED
  BY <1>1, <1>2, <1>3, <1>4

LEMMA PlacesFinite ==
  ASSUME NEW f \in File
  PROVE  /\ IsFiniteSet(Places(f))
         /\ \A b, j : Earlier(f, b, j) \in SUBSET Places(f) /\ IsFiniteSet(Earlier(f, b, j))
                      /\ Cardinality(Earlier(f, b, j)) \in Nat
                      /\ Cardinality(Earlier(f, b, j)) <= Cardinality(Places(f))
         /\ \A p : Rank(f, p) \in Nat \ {0}
<1> DEFINE Row(b) == {b} \X DOMAIN f.bodies[b].txs
           Rows == {Row(b) : b \in DOMAIN f.bodies}
           n == Len(f.bodies)
           rows == [b \in 1..n |-> Row(b)]
<1>1. IsFiniteSet(Rows)
  <2>1. n \in Nat /\ DOMAIN f.bodies = 1..n
    BY PlaceIs
  <2>2. IsFiniteSet(1..n)
    <3>1. 1 \in Int /\ n \in Int
      BY <2>1
    <3>2. QED
      BY <3>1, FS_Interval
  <2>3. rows \in Surjection(1..n, Rows)
    BY <2>1 DEF Surjection
  <2>4. QED
    BY <2>2, <2>3, FS_Surjection
<1>2. ASSUME NEW b \in DOMAIN f.bodies
      PROVE  IsFiniteSet(Row(b))
  <2>1. PICK m \in Nat : DOMAIN f.bodies[b].txs = 1..m
    BY PlaceIs
  <2>2. 1 \in Int /\ m \in Int
    OBVIOUS
  <2>3. IsFiniteSet(1..m) /\ IsFiniteSet({b})
    BY <2>2, FS_Interval, FS_Singleton
  <2>4. QED
    BY <2>1, <2>3, FS_Product
<1>3. IsFiniteSet(Places(f))
  <2>1. \A T \in Rows : IsFiniteSet(T)
    BY <1>2
  <2>2. IsFiniteSet(UNION Rows)
    BY <1>1, <2>1, FS_UNION
  <2>3. QED
    BY <2>2 DEF Places
<1>4. ASSUME NEW b, NEW j
      PROVE  /\ Earlier(f, b, j) \in SUBSET Places(f) /\ IsFiniteSet(Earlier(f, b, j))
             /\ Cardinality(Earlier(f, b, j)) \in Nat
             /\ Cardinality(Earlier(f, b, j)) <= Cardinality(Places(f))
  <2>1. Earlier(f, b, j) \in SUBSET Places(f)
    BY DEF Earlier
  <2>2. QED
    BY <1>3, <2>1, FS_Subset, FS_CardinalityType
<1>5. \A p : Rank(f, p) \in Nat \ {0}
  BY <1>4 DEF Rank
<1>6. QED
  BY <1>3, <1>4, <1>5

LEMMA RankOrders ==
  ASSUME NEW f \in File, NEW p \in Places(f), NEW q \in Places(f)
  PROVE  /\ p \in Earlier(f, q[1], q[2]) => Rank(f, p) <= Cardinality(Earlier(f, q[1], q[2]))
         /\ Rank(f, p) <= Rank(f, q) => p = q \/ p \in Earlier(f, q[1], q[2])
<1> DEFINE P == Earlier(f, p[1], p[2])
           Q == Earlier(f, q[1], q[2])
<1>1. /\ p = <<p[1], p[2]>> /\ q = <<q[1], q[2]>>
      /\ p[1] \in Int /\ p[2] \in Int /\ q[1] \in Int /\ q[2] \in Int
  BY PlaceIs
<1>2. \A r \in Places(f) : r[1] \in Int /\ r[2] \in Int
  BY PlaceIs
<1>3. ASSUME p \in Q
      PROVE  Cardinality(P) < Cardinality(Q)
  <2>1. p[1] < q[1] \/ (p[1] = q[1] /\ p[2] < q[2])
    BY <1>3 DEF Earlier
  <2>2. P \in SUBSET Q
    BY <1>1, <1>2, <2>1 DEF Earlier
  <2>3. p \notin P
    BY <1>1 DEF Earlier
  <2>4. /\ IsFiniteSet(Q) /\ Cardinality(Q) \in Nat /\ Cardinality(P) \in Nat
    BY PlacesFinite
  <2>5. Cardinality(P) <= Cardinality(Q) /\ Cardinality(P) # Cardinality(Q)
    BY <1>3, <2>2, <2>3, <2>4, FS_Subset
  <2>6. QED
    BY <2>4, <2>5
<1>4. ASSUME p # q, p \notin Q
      PROVE  Cardinality(Q) < Cardinality(P)
  <2>1. q[1] < p[1] \/ (q[1] = p[1] /\ q[2] < p[2])
    BY <1>1, <1>4 DEF Earlier
  <2>2. Q \in SUBSET P /\ q \in P
    BY <1>1, <1>2, <2>1 DEF Earlier
  <2>3. q \notin Q
    BY <1>1 DEF Earlier
  <2>4. /\ IsFiniteSet(P) /\ Cardinality(Q) \in Nat /\ Cardinality(P) \in Nat
    BY PlacesFinite
  <2>5. Cardinality(Q) <= Cardinality(P) /\ Cardinality(P) # Cardinality(Q)
    BY <2>2, <2>3, <2>4, FS_Subset
  <2>6. QED
    BY <2>4, <2>5
<1>5. Cardinality(P) \in Nat /\ Cardinality(Q) \in Nat
  BY PlacesFinite
<1>6. Rank(f, p) = Cardinality(P) + 1 /\ Rank(f, q) = Cardinality(Q) + 1
  BY DEF Rank
<1>7. QED
  BY <1>3, <1>4, <1>5, <1>6

(***************************************************************************)
(* The places before the first, after one more transaction, and across the *)
(* end of a body.                                                          *)
(***************************************************************************)
LEMMA Before ==
  ASSUME NEW f \in File
  PROVE  /\ Earlier(f, 1, 1) = {}
         /\ \A b \in 1..Len(f.bodies) : \A j \in 1..Len(f.bodies[b].txs) :
              /\ Earlier(f, b, j + 1) = Earlier(f, b, j) \cup {<<b, j>>}
              /\ <<b, j>> \notin Earlier(f, b, j)
         /\ \A b \in 1..Len(f.bodies) :
              Earlier(f, b + 1, 1) = Earlier(f, b, Len(f.bodies[b].txs) + 1)
<1>1. \A p \in Places(f) : /\ p = <<p[1], p[2]>>
                           /\ p[1] \in 1..Len(f.bodies)
                           /\ p[2] \in 1..Len(f.bodies[p[1]].txs)
                           /\ p[1] \in Int /\ p[2] \in Int
  BY PlaceIs
<1>2. Len(f.bodies) \in Nat /\ \A b \in 1..Len(f.bodies) : Len(f.bodies[b].txs) \in Nat
  BY PlaceIs
<1>3. Earlier(f, 1, 1) = {}
  BY <1>1, <1>2 DEF Earlier
<1>4. ASSUME NEW b \in 1..Len(f.bodies), NEW j \in 1..Len(f.bodies[b].txs)
      PROVE  /\ Earlier(f, b, j + 1) = Earlier(f, b, j) \cup {<<b, j>>}
             /\ <<b, j>> \notin Earlier(f, b, j)
  <2>1. <<b, j>> \in Places(f) /\ b \in Int /\ j \in Int
    BY <1>2, PlaceIs
  <2>2. ASSUME NEW p \in Places(f)
        PROVE  p \in Earlier(f, b, j + 1) <=> p \in Earlier(f, b, j) \/ p = <<b, j>>
    <3>1. p[2] < j + 1 <=> p[2] < j \/ p[2] = j
      BY <1>1, <2>1
    <3>2. p = <<b, j>> <=> p[1] = b /\ p[2] = j
      BY <1>1
    <3>3. ~(b < b)
      BY <2>1
    <3>4. QED
      BY <3>1, <3>2, <3>3 DEF Earlier
  <2>3. <<b, j>> \notin Earlier(f, b, j)
    BY <2>1 DEF Earlier
  <2>4. Earlier(f, b, j + 1) \subseteq Places(f) /\ Earlier(f, b, j) \subseteq Places(f)
    BY DEF Earlier
  <2>5. QED
    BY <2>1, <2>2, <2>3, <2>4
<1>5. ASSUME NEW b \in 1..Len(f.bodies)
      PROVE  Earlier(f, b + 1, 1) = Earlier(f, b, Len(f.bodies[b].txs) + 1)
  <2>1. ASSUME NEW p \in Places(f)
        PROVE  p[1] < b + 1 \/ (p[1] = b + 1 /\ p[2] < 1)
                 <=> p[1] < b \/ (p[1] = b /\ p[2] < Len(f.bodies[b].txs) + 1)
    <3>1. ~(p[2] < 1)
      BY <1>1
    <3>2. p[1] < b + 1 <=> p[1] < b \/ p[1] = b
      BY <1>1, <1>2
    <3>3. p[1] = b => p[2] < Len(f.bodies[b].txs) + 1
      BY <1>1, <1>2
    <3>4. QED
      BY <3>1, <3>2, <3>3
  <2>2. QED
    BY <2>1 DEF Earlier
<1>6. QED
  BY <1>3, <1>4, <1>5

LEMMA ImportInvInit == HiveInit => ImportInv
<1> SUFFICES ASSUME HiveInit PROVE ImportInv
  OBVIOUS
<1>1. /\ step = "off" /\ file \in File /\ taken = <<>>
      /\ body = 0 /\ tx = 0 /\ counter = 0 /\ head = 0
  BY DEF HiveInit, ImportInit
<1>2. Len(taken) = 0 /\ DOMAIN taken = {}
  BY <1>1
<1>3. ImportTypes
  BY <1>1 DEF ImportTypes
<1>4. TakenIsPrefix /\ InBodyOrder
  <2>1. \A p : Rank(file, p) \in Nat \ {0}
    BY <1>1, PlacesFinite
  <2>2. Cardinality(Places(file)) \in Nat
    BY <1>1, PlacesFinite, FS_CardinalityType
  <2>3. \A p : ~(Rank(file, p) <= Len(taken))
    BY <1>2, <2>1
  <2>4. QED
    BY <1>1, <1>2, <2>2, <2>3 DEF TakenIsPrefix, InBodyOrder
<1>5. OneSigner
  BY <1>2 DEF OneSigner
<1>6. QED
  BY <1>1, <1>3, <1>4, <1>5 DEF ImportInv

(***************************************************************************)
(* The node takes the transaction at the place the import has reached.     *)
(***************************************************************************)
LEMMA TakingKeeps ==
  ASSUME ImportInv, Abreast, body < Len(bodies), tx < Len(Body), head >= body, known \subseteq Evm,
         NonceFits(Body[tx + 1]), Body[tx + 1].signer \in known,
         Body[tx + 1].nonce = NodeNonce(Body[tx + 1].signer),
         taken' = Append(taken, [signer |-> Body[tx + 1].signer, nonce |-> Body[tx + 1].nonce,
                                 head |-> head]),
         file' = file
  PROVE  /\ taken' \in Seq(Taken) /\ Len(taken') = Len(taken) + 1
         /\ TakenIsPrefix' /\ OneSigner' /\ InBodyOrder'
         /\ Cardinality(Earlier(file, body + 1, tx + 2)) = Len(taken) + 1
<1>1. PICK f \in File : f = file
  BY DEF ImportInv, ImportTypes
<1>2. /\ taken \in Seq(Taken) /\ head \in Nat /\ body \in Nat /\ tx \in Nat /\ counter \in Nat
      /\ TakenIsPrefix /\ OneSigner /\ InBodyOrder
  BY DEF ImportInv, ImportTypes
<1>3. /\ bodies = f.bodies /\ ~f.tail /\ Len(taken) = counter
      /\ Len(taken) = Cardinality(Earlier(f, body + 1, tx + 1))
  BY <1>1 DEF Abreast
<1>4. PICK b \in 1..Len(f.bodies), j \in Nat \ {0} :
        b = body + 1 /\ j = tx + 1 /\ j \in 1..Len(f.bodies[b].txs)
  <2>1. body + 1 \in 1..Len(f.bodies)
    BY <1>2, <1>3, PlaceIs
  <2>2. Len(f.bodies[body + 1].txs) \in Nat /\ Body = f.bodies[body + 1].txs
    BY <1>3, <2>1, PlaceIs DEF Body
  <2>3. tx + 1 \in 1..Len(f.bodies[body + 1].txs) /\ tx + 1 \in Nat \ {0}
    BY <1>2, <2>2
  <2>4. QED
    BY <2>1, <2>3
<1>5. PICK t : t = f.bodies[b].txs[j]
  OBVIOUS
<1>6. Body[tx + 1] = t
  BY <1>3, <1>4, <1>5 DEF Body
<1>7. PICK n \in Nat : n = Len(taken)
  BY <1>2, LenProperties
<1>8. t.nonce = n /\ t.signer \in Evm /\ n = Cardinality({i \in DOMAIN taken : taken[i].signer = t.signer})
  BY <1>3, <1>6, <1>7 DEF NonceFits, NodeNonce
<1>9. PICK new \in Taken : new = [signer |-> t.signer, nonce |-> t.nonce, head |-> head]
  BY <1>2, <1>7, <1>8 DEF Taken
<1>10. taken' = Append(taken, new)
  BY <1>6, <1>9
<1>11. /\ taken' \in Seq(Taken) /\ Len(taken') = n + 1 /\ taken'[n + 1] = new
       /\ DOMAIN taken = 1..n /\ DOMAIN taken' = 1..n + 1
       /\ \A i \in 1..n : taken'[i] = taken[i]
  BY <1>2, <1>7, <1>10, AppendProperties, LenProperties
<1>12. /\ Earlier(f, b, j + 1) = Earlier(f, b, j) \cup {<<b, j>>}
       /\ <<b, j>> \notin Earlier(f, b, j) /\ <<b, j>> \in Places(f)
  BY <1>4, Before, PlaceIs
<1>13. Cardinality(Earlier(f, b, j)) = n /\ Cardinality(Earlier(f, b, j + 1)) = n + 1
  <2>1. Cardinality(Earlier(f, b, j)) = n
    BY <1>3, <1>4, <1>7
  <2>2. IsFiniteSet(Earlier(f, b, j))
    BY PlacesFinite
  <2>3. QED
    BY <1>12, <2>1, <2>2, FS_AddElement
<1>14. n + 1 <= Cardinality(Places(f))
  BY <1>13, PlacesFinite
<1>15. Rank(f, <<b, j>>) = n + 1
  BY <1>13 DEF Rank
<1>16. ASSUME NEW p \in Places(f), Rank(f, p) <= n + 1
       PROVE  /\ taken'[Rank(f, p)].signer = f.bodies[p[1]].txs[p[2]].signer
              /\ taken'[Rank(f, p)].nonce = f.bodies[p[1]].txs[p[2]].nonce
              /\ taken'[Rank(f, p)].head >= p[1] - 1
  <2>1. p = <<b, j>> \/ p \in Earlier(f, b, j)
    BY <1>12, <1>15, <1>16, RankOrders
  <2>2. CASE p = <<b, j>>
    <3>1. new.signer = t.signer /\ new.nonce = t.nonce /\ new.head = head /\ p[1] = b /\ p[2] = j
      BY <1>9, <2>2
    <3>2. head >= b - 1
      BY <1>2, <1>4
    <3>3. QED
      BY <1>5, <1>11, <1>15, <2>2, <3>1, <3>2
  <2>3. CASE p \in Earlier(f, b, j)
    <3>1. Rank(f, p) <= n
      BY <1>12, <1>13, <2>3, RankOrders
    <3>2. Rank(f, p) \in 1..n
      BY <3>1, PlacesFinite
    <3>3. QED
      BY <1>1, <1>2, <1>7, <1>11, <3>1, <3>2 DEF TakenIsPrefix, InBodyOrder
  <2>4. QED
    BY <2>1, <2>2, <2>3
<1>17. TakenIsPrefix' /\ InBodyOrder'
  BY <1>1, <1>3, <1>11, <1>14, <1>16 DEF TakenIsPrefix, InBodyOrder
<1>18. OneSigner'
  <2>1. \A i \in 1..n : taken[i].signer = t.signer
    <3> DEFINE Own == {i \in 1..n : taken[i].signer = t.signer}
    <3>1. 1 \in Int /\ n \in Int
      OBVIOUS
    <3>2. IsFiniteSet(1..n) /\ Cardinality(1..n) = n
      BY <3>1, FS_Interval
    <3>3. Own \in SUBSET (1..n) /\ Cardinality(Own) = n
      BY <1>8, <1>11
    <3>4. Own = 1..n
      BY <3>2, <3>3, FS_Subset
    <3>5. QED
      BY <3>4
  <2>2. \A i \in 1..n : taken[i].nonce = i - 1
    BY <1>2, <1>11 DEF OneSigner
  <2>3. new.signer = t.signer /\ new.nonce = n
    BY <1>8, <1>9
  <2>4. \A i \in 1..n + 1 : i = n + 1 \/ i \in 1..n
    OBVIOUS
  <2>5. \A i \in 1..n + 1 : taken'[i].signer = t.signer /\ taken'[i].nonce = i - 1
    BY <1>11, <2>1, <2>2, <2>3, <2>4
  <2>6. 1 \in 1..n + 1
    OBVIOUS
  <2>7. QED
    BY <1>11, <2>5, <2>6 DEF OneSigner
<1>19. Cardinality(Earlier(file, body + 1, tx + 2)) = Len(taken) + 1
  <2>1. tx + 2 = j + 1
    BY <1>2, <1>4
  <2>2. QED
    BY <1>1, <1>4, <1>7, <1>13, <2>1
<1>20. QED
  BY <1>7, <1>11, <1>17, <1>18, <1>19

LEMMA SameTaken ==
  ASSUME UNCHANGED <<file, taken>>
  PROVE  /\ TakenIsPrefix => TakenIsPrefix'
         /\ OneSigner => OneSigner'
         /\ InBodyOrder => InBodyOrder'
BY DEF TakenIsPrefix, OneSigner, InBodyOrder

LEMMA DecodeKeeps == ImportInv /\ Decode => ImportInv'
<1> SUFFICES ASSUME ImportInv, Decode PROVE ImportInv'
  OBVIOUS
<1>1. /\ UNCHANGED <<file, body, tx, counter, head, taken>>
      /\ taken = <<>> /\ body = 0 /\ tx = 0 /\ counter = 0 /\ ImportTypes
  BY DEF Decode, ImportInv
<1>2. ImportTypes' /\ TakenIsPrefix' /\ OneSigner' /\ InBodyOrder'
  BY <1>1, SameTaken DEF ImportInv, ImportTypes
<1>3. CASE file.tail
  BY <1>2, <1>3 DEF Decode, ImportInv
<1>4. CASE ~file.tail
  <2>1. bodies' = file.bodies /\ step' = "wait"
    BY <1>4 DEF Decode
  <2>2. PICK f \in File : f = file
    BY <1>1 DEF ImportTypes
  <2>3. Cardinality(Earlier(file, 1, 1)) = 0
    BY <2>2, Before, FS_EmptySet
  <2>4. Len(taken) = 0 /\ Len(file.bodies) \in Nat
    BY <1>1, <2>2, PlaceIs
  <2>5. 0 < Len(file.bodies) => 0 <= Len(file.bodies[1].txs)
    BY <2>2, PlaceIs
  <2>6. Abreast'
    BY <1>1, <1>4, <2>1, <2>3, <2>4, <2>5 DEF Abreast, Body
  <2>7. QED
    BY <1>1, <1>2, <2>1, <2>6 DEF ImportInv
<1>5. QED
  BY <1>3, <1>4

LEMMA AwaitBlockKeeps == ImportInv /\ AwaitBlock => ImportInv'
<1> SUFFICES ASSUME ImportInv, AwaitBlock PROVE ImportInv'
  OBVIOUS
<1>1. /\ UNCHANGED <<file, bodies, body, tx, counter, head, taken>>
      /\ ImportTypes /\ Abreast /\ tx = 0
      /\ step' \in {"done", "send"} /\ (step' = "send" => body < Len(bodies) /\ head >= body)
  BY DEF AwaitBlock, ImportInv, MayStart
<1>2. ImportTypes' /\ TakenIsPrefix' /\ OneSigner' /\ InBodyOrder'
  BY <1>1, SameTaken DEF ImportInv, ImportTypes
<1>3. Abreast'
  BY <1>1 DEF Abreast, Body
<1>4. QED
  BY <1>1, <1>2, <1>3 DEF ImportInv

LEMMA SendTxKeeps == ImportInv /\ known \subseteq Evm /\ SendTx => ImportInv'
<1> SUFFICES ASSUME ImportInv, known \subseteq Evm, SendTx PROVE ImportInv'
  OBVIOUS
<1>1. /\ UNCHANGED <<file, bodies, body, head>> /\ step = "send" /\ tx < Len(Body)
      /\ ImportTypes /\ Abreast /\ body < Len(bodies) /\ head >= body
  BY DEF SendTx, ImportInv
<1>2. PICK t : t = Body[tx + 1]
  OBVIOUS
<1>3. CASE UNCHANGED <<tx, counter, taken>> /\ step' \in {"panicked", "failed"}
  <2>1. ImportTypes' /\ TakenIsPrefix' /\ OneSigner' /\ InBodyOrder'
    BY <1>1, <1>3, SameTaken DEF ImportInv, ImportTypes
  <2>2. QED
    BY <1>3, <2>1 DEF ImportInv
<1>4. ASSUME NonceFits(t), t.signer \in known, t.nonce = NodeNonce(t.signer),
             taken' = Append(taken, [signer |-> t.signer, nonce |-> t.nonce, head |-> head]),
             \/ tx' = tx + 1 /\ counter' = counter + 1 /\ UNCHANGED step
             \/ step' = "failed" /\ UNCHANGED <<tx, counter>>
      PROVE  ImportInv'
  <2>1. /\ taken' \in Seq(Taken) /\ Len(taken') = Len(taken) + 1
        /\ TakenIsPrefix' /\ OneSigner' /\ InBodyOrder'
        /\ Cardinality(Earlier(file, body + 1, tx + 2)) = Len(taken) + 1
    BY <1>1, <1>2, <1>4, TakingKeeps
  <2>2. ImportTypes'
    BY <1>1, <1>4, <2>1 DEF ImportTypes
  <2>3. CASE step' = "failed"
    BY <2>1, <2>2, <2>3 DEF ImportInv
  <2>4. CASE tx' = tx + 1 /\ counter' = counter + 1 /\ UNCHANGED step
    <3>1. tx' + 1 = tx + 2 /\ tx' <= Len(Body) /\ Body' = Body
      <4>1. PICK f \in File : f = file
        BY <1>1 DEF ImportTypes
      <4>2. body + 1 \in 1..Len(f.bodies) /\ Body = f.bodies[body + 1].txs
        BY <1>1, <4>1, PlaceIs DEF Abreast, Body, ImportTypes
      <4>3. Len(Body) \in Nat /\ tx \in Nat
        BY <1>1, <4>2, PlaceIs DEF ImportTypes
      <4>4. Body' = Body
        BY <1>1 DEF Body
      <4>5. QED
        BY <1>1, <2>4, <4>3, <4>4
    <3>2. Abreast'
      BY <1>1, <2>1, <2>4, <3>1 DEF Abreast
    <3>3. QED
      BY <1>1, <2>1, <2>2, <2>4, <3>2 DEF ImportInv
  <2>5. QED
    BY <1>4, <2>3, <2>4
<1>5. QED
  BY <1>2, <1>3, <1>4 DEF SendTx

LEMMA NextBodyKeeps == ImportInv /\ NextBody => ImportInv'
<1> SUFFICES ASSUME ImportInv, NextBody PROVE ImportInv'
  OBVIOUS
<1>1. /\ UNCHANGED <<file, bodies, counter, head, taken>>
      /\ tx = Len(Body) /\ body' = body + 1 /\ tx' = 0 /\ step' = "wait"
      /\ ImportTypes /\ Abreast /\ body < Len(bodies)
  BY DEF NextBody, ImportInv
<1>2. ImportTypes' /\ TakenIsPrefix' /\ OneSigner' /\ InBodyOrder'
  BY <1>1, SameTaken DEF ImportInv, ImportTypes
<1>3. PICK f \in File : f = file
  BY <1>1 DEF ImportTypes
<1>4. bodies = f.bodies /\ Len(f.bodies) \in Nat /\ body \in Nat
  BY <1>1, <1>3, PlaceIs DEF Abreast, ImportTypes
<1>5. PICK b \in 1..Len(f.bodies) : b = body + 1 /\ Len(f.bodies[b].txs) = tx
  BY <1>1, <1>4 DEF Body
<1>6. Earlier(f, b + 1, 1) = Earlier(f, b, tx + 1)
  BY <1>5, Before
<1>7. Earlier(file', body' + 1, tx' + 1) = Earlier(file, body + 1, tx + 1)
  BY <1>1, <1>3, <1>5, <1>6
<1>8. body' < Len(bodies') => tx' <= Len(Body')
  <2>1. SUFFICES ASSUME body' < Len(f.bodies)
                 PROVE  0 <= Len(f.bodies[body' + 1].txs)
    BY <1>1, <1>4 DEF Body
  <2>2. body' + 1 \in 1..Len(f.bodies)
    BY <1>1, <1>4, <2>1
  <2>3. Len(f.bodies[body' + 1].txs) \in Nat
    BY <2>2, PlaceIs
  <2>4. QED
    BY <2>3
<1>9. Abreast'
  BY <1>1, <1>4, <1>7, <1>8 DEF Abreast
<1>10. QED
  BY <1>1, <1>2, <1>9 DEF ImportInv

LEMMA ImportInvStep == ImportInv /\ HiveInv /\ [HiveNext]_hiveVars => ImportInv'
<1> SUFFICES ASSUME ImportInv, HiveInv, [HiveNext]_hiveVars PROVE ImportInv'
  OBVIOUS
<1>1. CASE MakeGenesis \/ StartNode \/ UNCHANGED hiveVars
  <2>1. /\ UNCHANGED <<file, bodies, body, tx, counter, head, taken>>
        /\ step' = step \/ (step = "off" /\ step' = "decode")
    BY <1>1 DEF MakeGenesis, StartNode, hiveVars, importVars
  <2>2. ImportTypes' /\ TakenIsPrefix' /\ OneSigner' /\ InBodyOrder'
    BY <2>1, SameTaken DEF ImportInv, ImportTypes
  <2>3. Abreast => Abreast'
    BY <2>1 DEF Abreast, Body
  <2>4. QED
    BY <2>1, <2>2, <2>3 DEF ImportInv
<1>2. CASE Decode \/ AwaitBlock \/ SendTx \/ NextBody
  BY <1>2, DecodeKeeps, AwaitBlockKeeps, SendTxKeeps, NextBodyKeeps DEF HiveInv
<1>3. CASE NoBlockNumber
  <2>1. UNCHANGED <<file, taken, body, tx, counter, head>> /\ step' = "failed"
    BY <1>3 DEF NoBlockNumber
  <2>2. ImportTypes' /\ TakenIsPrefix' /\ OneSigner' /\ InBodyOrder'
    BY <2>1, SameTaken DEF ImportInv, ImportTypes
  <2>3. QED
    BY <2>1, <2>2 DEF ImportInv
<1>4. CASE Seal
  <2>1. UNCHANGED <<step, file, bodies, body, tx, counter, taken>> /\ head' = head + 1
        /\ ImportTypes
    BY <1>4 DEF Seal, ImportInv
  <2>2. ImportTypes' /\ TakenIsPrefix' /\ OneSigner' /\ InBodyOrder'
    BY <2>1, SameTaken DEF ImportInv, ImportTypes
  <2>3. Abreast => Abreast'
    BY <2>1 DEF Abreast, Body
  <2>4. head >= body => head' >= body'
    BY <2>1 DEF ImportTypes
  <2>5. QED
    BY <2>1, <2>2, <2>3, <2>4 DEF ImportInv
<1>5. QED
  BY <1>1, <1>2, <1>3, <1>4 DEF HiveNext, Import, ImportStep, Finished

LEMMA ImportInvariance == HiveSpec => []ImportInv
BY ImportInvInit, ImportInvStep, HiveInvariance, PTL DEF HiveSpec

(***************************************************************************)
(* ImportFaithful: whatever stops the import, what it got into the node is *)
(* the beginning of the file, of one signer, with the nonces 0, 1, 2 ...   *)
(***************************************************************************)
THEOREM FileIsImported == HiveSpec => []ImportFaithful
<1>1. ImportInv => ImportFaithful
  BY DEF ImportInv, ImportFaithful
<1>2. QED
  BY <1>1, ImportInvariance, PTL

(***************************************************************************)
(* InBodyOrder: no transaction reaches the node before as many blocks are  *)
(* sealed as its body has predecessors.                                    *)
(***************************************************************************)
THEOREM BodiesAreAwaited == HiveSpec => []InBodyOrder
<1>1. ImportInv => InBodyOrder
  BY DEF ImportInv
<1>2. QED
  BY <1>1, ImportInvariance, PTL
=============================================================================
