---------------------------- MODULE Chain_proofs ----------------------------
(***************************************************************************)
(* What every handler may rely on while the node and the indexer move on,  *)
(* as facts about one step of theirs; the modules that prove theorems of   *)
(* the handlers extend this one.                                           *)
(***************************************************************************)
EXTENDS Chain, WellFoundedInduction, TLAPS

(***************************************************************************)
(* The indexer never runs ahead of the node: a header is stored as that of *)
(* a pending block once the block is pending, with a hash once it is       *)
(* sealed.                                                                 *)
(***************************************************************************)
Honest ==
  \A n \in Block : /\ headers[n] = "sealed" => n <= head
                   /\ headers[n] = "pending" => n <= head + 1

LEMMA ChainTypeInit == ChainInit => ChainTypeOK
  BY MaxBlockAssumption DEF ChainInit, ChainTypeOK, Block, Never, Status

LEMMA HonestInit == ChainInit => Honest
  BY DEF ChainInit, Honest

LEMMA ChainTypeStep == ChainTypeOK /\ ChainNext => ChainTypeOK'
<1> SUFFICES ASSUME ChainTypeOK, ChainNext PROVE ChainTypeOK'
  OBVIOUS
<1> USE MaxBlockAssumption DEF ChainTypeOK, Block, Never, Status
<1>1. ASSUME NEW t \in Tx, AcceptTx(t) PROVE ChainTypeOK'
  BY <1>1 DEF AcceptTx
<1>2. CASE SealBlock
  BY <1>2 DEF SealBlock
<1>3. ASSUME NEW n \in Block, NEW status \in Status, IndexHeader(n, status) PROVE ChainTypeOK'
  BY <1>3 DEF IndexHeader
<1>4. ASSUME NEW col \in Collection, NEW t \in Tx, NEW status \in Status,
             IndexDoc(col, t, status)
      PROVE ChainTypeOK'
  BY <1>4 DEF IndexDoc
<1>5. QED
  BY <1>1, <1>2, <1>3, <1>4 DEF ChainNext

(***************************************************************************)
(* The chain grows, and a header once stored stays, sealed once sealed.    *)
(***************************************************************************)
LEMMA ChainGrows ==
  ASSUME ChainTypeOK, ChainNext
  PROVE  /\ head <= head'
         /\ \A n \in Block : /\ headers[n] # "none" => headers'[n] # "none"
                             /\ headers[n] = "sealed" => headers'[n] = "sealed"
<1> USE MaxBlockAssumption DEF ChainTypeOK, Block, Status
<1>1. ASSUME NEW t \in Tx, AcceptTx(t) PROVE UNCHANGED <<head, headers>>
  BY <1>1 DEF AcceptTx
<1>2. CASE SealBlock
  BY <1>2 DEF SealBlock
<1>3. ASSUME NEW n \in Block, NEW status \in Status, IndexHeader(n, status)
      PROVE  /\ head' = head
             /\ status # "none" /\ (headers[n] = "sealed" => status = "sealed")
             /\ headers' = [headers EXCEPT ![n] = status]
  BY <1>3 DEF IndexHeader, MayWrite
<1>4. ASSUME NEW col \in Collection, NEW t \in Tx, NEW status \in Status,
             IndexDoc(col, t, status)
      PROVE UNCHANGED <<head, headers>>
  BY <1>4 DEF IndexDoc
<1>5. QED
  BY <1>1, <1>2, <1>3, <1>4 DEF ChainNext

LEMMA HonestStep == ChainTypeOK /\ Honest /\ ChainNext => Honest'
<1> SUFFICES ASSUME ChainTypeOK, Honest, ChainNext PROVE Honest'
  OBVIOUS
<1> USE MaxBlockAssumption DEF ChainTypeOK, Block, Status, Honest
<1>1. ASSUME NEW t \in Tx, AcceptTx(t) PROVE Honest'
  BY <1>1 DEF AcceptTx
<1>2. CASE SealBlock
  BY <1>2 DEF SealBlock
<1>3. ASSUME NEW n \in Block, NEW status \in Status, IndexHeader(n, status) PROVE Honest'
  BY <1>3 DEF IndexHeader, MayWrite
<1>4. ASSUME NEW col \in Collection, NEW t \in Tx, NEW status \in Status,
             IndexDoc(col, t, status)
      PROVE Honest'
  BY <1>4 DEF IndexDoc
<1>5. QED
  BY <1>1, <1>2, <1>3, <1>4 DEF ChainNext

(***************************************************************************)
(* A transaction stays in the block that took it, and a document once      *)
(* stored stays, sealed once sealed.                                       *)
(***************************************************************************)
LEMMA DocsGrow ==
  ASSUME ChainTypeOK, ChainNext
  PROVE  /\ \A t \in Tx : included[t] # Never => included'[t] = included[t]
         /\ \A col \in Collection, t \in Tx :
              /\ docs[col][t] # "none" => docs'[col][t] # "none"
              /\ docs[col][t] = "sealed" => docs'[col][t] = "sealed"
<1> USE DEF ChainTypeOK
<1>1. ASSUME NEW t \in Tx, AcceptTx(t)
      PROVE  docs' = docs /\ \A u \in Tx : included[u] # Never => included'[u] = included[u]
  BY <1>1 DEF AcceptTx
<1>2. CASE SealBlock
  BY <1>2 DEF SealBlock
<1>3. ASSUME NEW n \in Block, NEW status \in Status, IndexHeader(n, status)
      PROVE  UNCHANGED <<included, docs>>
  BY <1>3 DEF IndexHeader
<1>4. ASSUME NEW col \in Collection, NEW t \in Tx, NEW status \in Status,
             IndexDoc(col, t, status)
      PROVE  /\ included' = included
             /\ status # "none" /\ (docs[col][t] = "sealed" => status = "sealed")
             /\ docs' = [docs EXCEPT ![col][t] = status]
  BY <1>4 DEF IndexDoc, MayWrite
<1>5. QED
  BY <1>1, <1>2, <1>3, <1>4 DEF ChainNext

Less == {p \in Nat \X Nat : p[1] < p[2]}

LEMMA LessWellFounded == IsWellFoundedOn(Less, Nat)
  BY NatLessThanWellFounded DEF OpToRel, Less

(***************************************************************************)
(* A non-empty set of blocks has a highest one: what block_number() takes  *)
(* from a sorted query exists.                                             *)
(***************************************************************************)
LEMMA HighestBlock ==
  ASSUME NEW S \in SUBSET Block, S # {}
  PROVE  \E n \in S : \A m \in S : m <= n
<1> DEFINE Down == {MaxBlock - n : n \in S}
<1>1. Down \subseteq Nat
  BY MaxBlockAssumption DEF Block
<1>2. Down # {}
  OBVIOUS
<1>3. PICK d \in Down : \A e \in Down : ~(<<e, d>> \in Less)
  <2> HIDE DEF Down
  <2>1. QED
    BY <1>1, <1>2, LessWellFounded, WFMin
<1>4. \A e \in Down : ~(e < d)
  <2> HIDE DEF Down
  <2>1. QED
    BY <1>1, <1>3 DEF Less
<1>5. PICK n \in S : d = MaxBlock - n
  OBVIOUS
<1>6. \A m \in S : ~(MaxBlock - m < MaxBlock - n)
  BY <1>4, <1>5
<1>7. \A m \in S : m <= n
  BY <1>6, MaxBlockAssumption DEF Block
<1>8. QED
  BY <1>7
=============================================================================
