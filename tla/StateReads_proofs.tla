------------------------- MODULE StateReads_proofs -------------------------
(***************************************************************************)
(* Which state of the node an answer may come from, for any number of      *)
(* clients, blocks, accounts and transactions.  The argument: a header is  *)
(* pending in the database only for the pending block or one sealed since, *)
(* so the pending tag is never older than the number it replaces; and the  *)
(* state behind a tag only moves forward.                                  *)
(***************************************************************************)
EXTENDS StateReads, Chain_proofs, FiniteSetTheorems

Place == {"idle", "resolve", "resolve_nonce", "class", "nonce", "read", "done"}

LEMMA Types ==
  TypeOK <=> /\ ChainTypeOK
             /\ pc \in [Client -> Place] /\ ask \in [Client -> Request]
             /\ readAt \in [Client -> SnId] /\ nonceAt \in [Client -> SnId]
             /\ nonce \in [Client -> Nat] /\ answer \in [Client -> AnswerKind]
             /\ from \in [Client -> Block] /\ floor \in [Client -> Nat]
             /\ sawNonce \in [Client -> Block] /\ sawState \in [Client -> Block]
  BY DEF TypeOK, Place

LEMMA NonceIsNat == ASSUME NEW a \in Account, NEW v PROVE Nonce(a, v) \in Nat
<1>1. IsFiniteSet(Bumps[a])
  BY AccountAssumption
<1>2. IsFiniteSet({t \in Bumps[a] : included[t] <= v})
  BY <1>1, FS_Subset
<1>3. QED
  BY <1>2, FS_CardinalityType DEF Nonce

LEMMA IdShapes ==
  /\ \A id \in Id : id.at \in Block
  /\ \A id \in Id : id.by \notin {"number", "hash"} => id.at = 0
  /\ Pending \in SnId
  /\ \A sid \in SnId : sid.at \in Block
<1>1. Hash \subseteq Block /\ 0 \in Block
  BY AccountAssumption, MaxBlockAssumption DEF Block
<1>2. \A id \in Id : id.at \in Block
  BY <1>1 DEF Id
<1>3. \A id \in Id : id.by \notin {"number", "hash"} => id.at = 0
  BY DEF Id
<1>4. Pending \in SnId
  BY DEF SnId, Pending
<1>5. \A sid \in SnId : sid.at \in Block
  BY <1>1 DEF SnId
<1>6. QED
  BY <1>2, <1>3, <1>4, <1>5

(***************************************************************************)
(* The version of a Starknet id the node answers is that of a block.       *)
(***************************************************************************)
LEMMA VersionInBlock ==
  ASSUME ChainTypeOK, NEW sid \in SnId, Answers(sid)
  PROVE  Version(sid) \in Block
<1>1. head \in Nat /\ head + 1 <= MaxBlock /\ sid.at \in Block
  BY IdShapes, MaxBlockAssumption DEF ChainTypeOK
<1>2. QED
  BY <1>1, MaxBlockAssumption DEF Version, Answers, Block

LEMMA TypeInit == Init => TypeOK
<1> SUFFICES ASSUME Init PROVE TypeOK
  OBVIOUS
<1>1. ChainTypeOK
  BY ChainTypeInit DEF Init
<1>2. Pending \in SnId /\ 0 \in Block
  BY IdShapes, MaxBlockAssumption DEF Block
<1>3. QED
  BY <1>1, <1>2, Types DEF Init, Place, AnswerKind

LEMMA TypeStep == TypeOK /\ [Next]_vars => TypeOK'
<1> SUFFICES ASSUME TypeOK, [Next]_vars PROVE TypeOK'
  OBVIOUS
<1> DEFINE ReqTypeOK ==
      /\ pc \in [Client -> Place] /\ ask \in [Client -> Request]
      /\ readAt \in [Client -> SnId] /\ nonceAt \in [Client -> SnId]
      /\ nonce \in [Client -> Nat] /\ answer \in [Client -> AnswerKind]
      /\ from \in [Client -> Block] /\ floor \in [Client -> Nat]
      /\ sawNonce \in [Client -> Block] /\ sawState \in [Client -> Block]
<1>a. ReqTypeOK /\ ChainTypeOK
  BY Types
<1>b. SUFFICES ReqTypeOK' /\ ChainTypeOK'
  BY DEF TypeOK, Place
<1>c. ASSUME UNCHANGED chainVars PROVE ChainTypeOK'
  BY <1>a, <1>c DEF chainVars, ChainTypeOK
<1>d. head \in Block /\ head + 1 \in Block /\ 0 \in Block
  BY <1>a, MaxBlockAssumption DEF ChainTypeOK, Block
<1>1. CASE Environment
  BY <1>1, <1>a, ChainTypeStep DEF Environment, reqVars
<1>2. ASSUME NEW c \in Client, NEW r \in Request, Begin(c, r)
      PROVE  ReqTypeOK' /\ ChainTypeOK'
  <2>1. r.id \in Id /\ r.account \in Account
    BY DEF Request
  <2>2. OldestVersion(r.id) \in Block
    BY <1>d, <2>1, IdShapes DEF OldestVersion
  <2>3. Nonce(r.account, OldestVersion(r.id)) \in Nat
    BY <2>1, NonceIsNat
  <2>4. QED
    BY <1>2, <1>a, <1>c, <1>d, <2>2, <2>3, IdShapes DEF Begin, Place, AnswerKind
<1>3. ASSUME NEW c \in Client, Resolve(c) \/ ResolveNonce(c)
      PROVE  ReqTypeOK' /\ ChainTypeOK'
  <2>1. AfterResolve(ask[c].op) \in Place
    BY DEF AfterResolve, Place
  <2>2. pc' \in [Client -> Place]
    BY <1>3, <1>a, <2>1 DEF Resolve, ResolveNonce, Place
  <2>3. readAt' \in [Client -> SnId] /\ nonceAt' \in [Client -> SnId]
    BY <1>3, <1>a DEF Resolve, ResolveNonce
  <2>4. QED
    BY <1>3, <1>a, <1>c, <2>2, <2>3 DEF Resolve, ResolveNonce
<1>4. ASSUME NEW c \in Client, NEW k \in Nat, NonceKnown(c, k), Answers(nonceAt[c]),
             UNCHANGED <<chainVars, ask, readAt, nonceAt, from, floor, sawState>>
      PROVE  ReqTypeOK' /\ ChainTypeOK'
  <2>1. Version(nonceAt[c]) \in Block
    BY <1>4, <1>a, VersionInBlock
  <2>2. pc' \in [Client -> Place] /\ answer' \in [Client -> AnswerKind]
    BY <1>4, <1>a DEF NonceKnown, Place, AnswerKind
  <2>3. nonce' \in [Client -> Nat] /\ sawNonce' \in [Client -> Block]
    BY <1>4, <1>a, <2>1 DEF NonceKnown
  <2>4. QED
    BY <1>4, <1>a, <1>c, <2>2, <2>3
<1>5. ASSUME NEW c \in Client, ReadClass(c) PROVE ReqTypeOK' /\ ChainTypeOK'
  <2>1. CASE NonceKnown(c, 0)
    BY <1>4, <1>5, <2>1 DEF ReadClass
  <2>2. CASE pc' = [pc EXCEPT ![c] = "nonce"] /\ UNCHANGED <<nonce, sawNonce, answer>>
    BY <1>5, <1>a, <1>c, <2>2 DEF ReadClass, Place
  <2>3. QED
    BY <1>5, <2>1, <2>2 DEF ReadClass
<1>6. ASSUME NEW c \in Client, ReadNonce(c) PROVE ReqTypeOK' /\ ChainTypeOK'
  <2>1. ask[c].account \in Account
    BY <1>a DEF Request
  <2>2. Nonce(ask[c].account, Version(nonceAt[c])) \in Nat
    BY <2>1, NonceIsNat
  <2>3. QED
    BY <1>4, <1>6, <2>2 DEF ReadNonce
<1>7. ASSUME NEW c \in Client, ReadState(c) PROVE ReqTypeOK' /\ ChainTypeOK'
  <2>1. Version(readAt[c]) \in Block
    BY <1>7, <1>a, VersionInBlock DEF ReadState
  <2>2. pc' \in [Client -> Place] /\ answer' \in [Client -> AnswerKind]
    BY <1>7, <1>a DEF ReadState, Place, AnswerKind
  <2>3. QED
    BY <1>7, <1>a, <1>c, <2>1, <2>2 DEF ReadState
<1>8. ASSUME NEW c \in Client, Fail(c) PROVE ReqTypeOK' /\ ChainTypeOK'
  BY <1>8, <1>a, <1>c DEF Fail, Place, AnswerKind
<1>9. CASE UNCHANGED vars
  BY <1>9, <1>a, <1>c DEF vars, reqVars
<1>10. QED
  BY <1>1, <1>2, <1>3, <1>5, <1>6, <1>7, <1>8, <1>9 DEF Next

(***************************************************************************)
(* TypeOK: in particular every state an answer comes from is that of a     *)
(* block of the chain.                                                     *)
(***************************************************************************)
THEOREM Typing == Spec => []TypeOK
  BY TypeInit, TypeStep, PTL DEF Spec

-----------------------------------------------------------------------------
(***************************************************************************)
(* What holds of one client's request.                                     *)
(***************************************************************************)
OnRoute(c) ==
  /\ pc[c] = "resolve_nonce" => ask[c].op = "call"
  /\ pc[c] \in {"class", "nonce"} => ask[c].op \in {"count", "call"}
  /\ pc[c] = "read" => ask[c].op # "count"

SealedIds(c) == \A sid \in {readAt[c], nonceAt[c]} : sid.by = "number" => sid.at <= head

(***************************************************************************)
(* from, as long as the id is still to be resolved.                        *)
(***************************************************************************)
AskedFrom(id, v) ==
  /\ id.by \in {"number", "hash", "earliest"} => v = id.at
  /\ id.by = "safe" => v <= head
  /\ id.by \in {"latest", "none"} => v <= head + 1

Fresh(c) ==
  /\ pc[c] \in {"resolve", "resolve_nonce"} => AskedFrom(ask[c].id, from[c])
  /\ pc[c] \in {"class", "nonce"} => from[c] <= Version(nonceAt[c])
  /\ pc[c] \in {"resolve_nonce", "class", "nonce", "read"} /\ ask[c].op # "count"
       => from[c] <= Version(readAt[c])
  /\ pc[c] = "read" /\ ask[c].op = "call" => from[c] <= sawNonce[c]
  /\ pc[c] = "done" /\ answer[c] = "ok" =>
       /\ ask[c].op \in {"count", "call"} => from[c] <= sawNonce[c]
       /\ ask[c].op # "count" => from[c] <= sawState[c]

Good(c) == OnRoute(c) /\ SealedIds(c) /\ Fresh(c)

IInv == TypeOK /\ Honest /\ \A c \in Client : Good(c)

LEMMA InvInit == Init => IInv
<1> SUFFICES ASSUME Init PROVE IInv
  OBVIOUS
<1>1. TypeOK /\ Honest
  BY TypeInit, HonestInit DEF Init
<1>2. \A c \in Client : Good(c)
  BY DEF Init, Good, OnRoute, SealedIds, Fresh, Pending
<1>3. QED
  BY <1>1, <1>2 DEF IInv

(***************************************************************************)
(* What an id resolves to is sealed if it is a number, and stands for a    *)
(* state no older than the block asked for.                                *)
(***************************************************************************)
LEMMA ResolvedFresh ==
  ASSUME ChainTypeOK, Honest, NEW id \in Id, NEW sid \in SnId, Resolves(id, sid),
         NEW v \in Block, AskedFrom(id, v)
  PROVE  /\ sid.by = "number" => sid.at <= head
         /\ v <= Version(sid)
<1>1. head \in Nat /\ id.at \in Block /\ v \in Nat /\ id.at \in Nat
  BY IdShapes, MaxBlockAssumption DEF ChainTypeOK, Block
<1>2. CASE id.by = "hash"
  BY <1>1, <1>2 DEF Resolves, AskedFrom, Version
<1>3. CASE id.by = "number"
  <2>1. headers[id.at] \in {"pending", "sealed"} /\ v = id.at
    BY <1>1, <1>3 DEF Resolves, AskedFrom, ChainTypeOK, Status
  <2>2. CASE headers[id.at] = "pending"
    BY <1>1, <1>3, <2>1, <2>2 DEF Resolves, DocHash, ZeroHash, Pending, Version, Honest
  <2>3. CASE headers[id.at] = "sealed"
    BY <1>1, <1>3, <2>1, <2>3 DEF Resolves, DocHash, ZeroHash, Version, Honest
  <2>4. QED
    BY <2>1, <2>2, <2>3
<1>4. CASE id.by = "earliest"
  BY <1>1, <1>4, IdShapes DEF Resolves, AskedFrom, Version
<1>5. CASE id.by \in {"safe", "latest", "none"}
  BY <1>1, <1>5 DEF Resolves, AskedFrom, Version, Pending
<1>6. QED
  BY <1>2, <1>3, <1>4, <1>5 DEF Id

(***************************************************************************)
(* A request no step of which is taken keeps what holds of it.             *)
(***************************************************************************)
LEMMA OthersGood ==
  ASSUME TypeOK, TypeOK', head <= head', NEW c \in Client, Good(c),
         pc'[c] = pc[c], ask'[c] = ask[c], readAt'[c] = readAt[c], nonceAt'[c] = nonceAt[c],
         answer'[c] = answer[c], from'[c] = from[c], sawNonce'[c] = sawNonce[c],
         sawState'[c] = sawState[c]
  PROVE  Good(c)'
<1>1. head \in Nat /\ head' \in Nat /\ from[c] \in Nat
  BY MaxBlockAssumption, Types DEF TypeOK, ChainTypeOK, Block
<1>2. readAt[c].at \in Nat /\ nonceAt[c].at \in Nat
  BY IdShapes, Types DEF Block
<1>3. Version(readAt[c]) \in Int /\ Version(nonceAt[c]) \in Int
  BY <1>1, <1>2 DEF Version
<1>4. Version(readAt[c]) <= Version(readAt[c])' /\ Version(nonceAt[c]) <= Version(nonceAt[c])'
  <2>1. /\ Version(readAt[c])' = (CASE readAt[c].by = "pending" -> head' + 1
                                    [] readAt[c].by = "latest"  -> head'
                                    [] OTHER                    -> readAt[c].at)
        /\ Version(nonceAt[c])' = (CASE nonceAt[c].by = "pending" -> head' + 1
                                     [] nonceAt[c].by = "latest"  -> head'
                                     [] OTHER                     -> nonceAt[c].at)
    BY DEF Version
  <2>2. QED
    BY <1>1, <1>2, <2>1 DEF Version
<1>5. OnRoute(c)' /\ SealedIds(c)'
  BY <1>1, <1>2 DEF Good, OnRoute, SealedIds
<1>6. AskedFrom(ask[c].id, from[c]) => AskedFrom(ask[c].id, from[c])'
  BY <1>1 DEF AskedFrom
<1>7. Version(readAt[c])' \in Int /\ Version(nonceAt[c])' \in Int
  BY <1>1, <1>2 DEF Version
<1>8. Fresh(c)'
  BY <1>1, <1>3, <1>4, <1>6, <1>7 DEF Good, Fresh
<1>9. QED
  BY <1>5, <1>8 DEF Good

(***************************************************************************)
(* Every step keeps the invariant: an id is resolved to a state as fresh   *)
(* as was asked for, and reading moves that on to what the answer shows.   *)
(***************************************************************************)
LEMMA InvStep == IInv /\ TypeOK' /\ [Next]_vars => IInv'
<1> SUFFICES ASSUME IInv, TypeOK', [Next]_vars PROVE IInv'
  OBVIOUS
<1>a. ChainTypeOK /\ TypeOK /\ Honest /\ \A c \in Client : Good(c)
  BY Types DEF IInv
<1>b. SUFFICES Honest' /\ \A c \in Client : Good(c)'
  BY DEF IInv
<1>c. /\ pc \in [Client -> Place] /\ ask \in [Client -> Request]
      /\ readAt \in [Client -> SnId] /\ nonceAt \in [Client -> SnId]
      /\ answer \in [Client -> AnswerKind] /\ from \in [Client -> Block]
      /\ sawNonce \in [Client -> Block] /\ sawState \in [Client -> Block]
  BY <1>a, Types
<1>d. head \in Nat /\ \A c \in Client : from[c] \in Nat
  BY <1>a, <1>c, MaxBlockAssumption DEF ChainTypeOK, Block
<1>1. CASE Environment
  <2>1. Honest' /\ head <= head'
    BY <1>1, <1>a, HonestStep, ChainGrows DEF Environment
  <2>2. UNCHANGED <<pc, ask, readAt, nonceAt, answer, from, sawNonce, sawState>>
    BY <1>1 DEF Environment, reqVars
  <2>3. QED
    BY <1>a, <2>1, <2>2, OthersGood
<1>2. CASE UNCHANGED vars
  <2>1. Honest' /\ head <= head'
    BY <1>2, <1>a, <1>d DEF vars, chainVars, Honest
  <2>2. UNCHANGED <<pc, ask, readAt, nonceAt, answer, from, sawNonce, sawState>>
    BY <1>2 DEF vars, reqVars
  <2>3. QED
    BY <1>a, <2>1, <2>2, OthersGood
<1>3. ASSUME NEW c \in Client, UNCHANGED chainVars, Good(c)',
             \A d \in Client \ {c} :
               /\ pc'[d] = pc[d] /\ ask'[d] = ask[d] /\ readAt'[d] = readAt[d]
               /\ nonceAt'[d] = nonceAt[d] /\ answer'[d] = answer[d] /\ from'[d] = from[d]
               /\ sawNonce'[d] = sawNonce[d] /\ sawState'[d] = sawState[d]
      PROVE  Honest' /\ \A d \in Client : Good(d)'
  <2>1. Honest' /\ head <= head'
    BY <1>3, <1>a, <1>d DEF chainVars, Honest
  <2>2. \A d \in Client \ {c} : Good(d)'
    BY <1>3, <1>a, <2>1, OthersGood
  <2>3. QED
    BY <1>3, <2>1, <2>2
<1>4. ASSUME NEW c \in Client, NEW r \in Request, Begin(c, r)
      PROVE  Honest' /\ \A d \in Client : Good(d)'
  <2>1. /\ pc'[c] = "resolve" /\ ask'[c] = r /\ readAt'[c] = Pending /\ nonceAt'[c] = Pending
        /\ from'[c] = OldestVersion(r.id) /\ UNCHANGED chainVars
    BY <1>4, <1>c DEF Begin
  <2>2. AskedFrom(r.id, OldestVersion(r.id))'
    BY <1>d, <2>1 DEF AskedFrom, OldestVersion, chainVars
  <2>3. Good(c)'
    BY <2>1, <2>2 DEF Good, OnRoute, SealedIds, Fresh, Pending, OldestVersion, chainVars
  <2>4. QED
    BY <1>3, <1>4, <1>c, <2>1, <2>3 DEF Begin
<1>5. ASSUME NEW c \in Client, Resolve(c) PROVE Honest' /\ \A d \in Client : Good(d)'
  <2>1. PICK sid \in SnId :
          /\ Resolves(ask[c].id, sid)
          /\ IF ask[c].op = "count"
               THEN nonceAt' = [nonceAt EXCEPT ![c] = sid] /\ UNCHANGED readAt
               ELSE readAt' = [readAt EXCEPT ![c] = sid] /\ UNCHANGED nonceAt
    BY <1>5 DEF Resolve
  <2>2. /\ pc[c] = "resolve" /\ pc'[c] = AfterResolve(ask[c].op)
        /\ UNCHANGED <<chainVars, ask, answer, from, sawNonce, sawState>>
    BY <1>5, <1>c DEF Resolve
  <2>3. ask[c].id \in Id /\ AskedFrom(ask[c].id, from[c])
    BY <1>a, <1>c, <2>2 DEF Request, Good, Fresh
  <2>4. (sid.by = "number" => sid.at <= head) /\ from[c] <= Version(sid)
    BY <1>a, <1>c, <2>1, <2>3, ResolvedFresh
  <2>5. Version(sid)' = Version(sid) /\ AskedFrom(ask[c].id, from[c])'
    BY <2>2, <2>3 DEF Version, AskedFrom, chainVars
  <2>6. ask[c].op \in Op
    BY <1>c DEF Request
  <2>7. ASSUME ask[c].op = "count" PROVE Good(c)'
    <3>1. nonceAt'[c] = sid /\ readAt'[c] = readAt[c] /\ pc'[c] = "class"
      BY <1>c, <2>1, <2>2, <2>7 DEF AfterResolve
    <3>2. Version(nonceAt[c])' = Version(sid)
      BY <2>5, <3>1 DEF Version
    <3>3. OnRoute(c)' /\ SealedIds(c)'
      BY <1>a, <2>2, <2>4, <2>7, <3>1 DEF Good, OnRoute, SealedIds, chainVars
    <3>4. QED
      BY <2>2, <2>4, <2>7, <3>1, <3>2, <3>3 DEF Good, Fresh
  <2>8. ASSUME ask[c].op # "count" PROVE Good(c)'
    <3>1. readAt'[c] = sid /\ nonceAt'[c] = nonceAt[c]
          /\ pc'[c] = (IF ask[c].op = "call" THEN "resolve_nonce" ELSE "read")
      BY <1>c, <2>1, <2>2, <2>8 DEF AfterResolve
    <3>2. Version(readAt[c])' = Version(sid)
      BY <2>5, <3>1 DEF Version
    <3>3. OnRoute(c)' /\ SealedIds(c)'
      BY <1>a, <2>2, <2>4, <2>8, <3>1 DEF Good, OnRoute, SealedIds, chainVars
    <3>4. QED
      BY <2>2, <2>4, <2>5, <2>8, <3>1, <3>2, <3>3 DEF Good, Fresh
  <2>9. QED
    BY <1>3, <1>5, <1>c, <2>2, <2>7, <2>8 DEF Resolve
<1>6. ASSUME NEW c \in Client, ResolveNonce(c) PROVE Honest' /\ \A d \in Client : Good(d)'
  <2>1. PICK sid \in SnId :
          Resolves(ask[c].id, sid) /\ nonceAt' = [nonceAt EXCEPT ![c] = sid]
    BY <1>6 DEF ResolveNonce
  <2>2. /\ pc[c] = "resolve_nonce" /\ pc'[c] = "class" /\ nonceAt'[c] = sid
        /\ UNCHANGED <<chainVars, ask, readAt, answer, from, sawNonce, sawState>>
    BY <1>6, <1>c, <2>1 DEF ResolveNonce
  <2>3. ask[c].id \in Id /\ AskedFrom(ask[c].id, from[c]) /\ ask[c].op = "call"
    BY <1>a, <1>c, <2>2 DEF Request, Good, Fresh, OnRoute
  <2>4. (sid.by = "number" => sid.at <= head) /\ from[c] <= Version(sid)
    BY <1>a, <1>c, <2>1, <2>3, ResolvedFresh
  <2>5. Version(nonceAt[c])' = Version(sid) /\ Version(readAt[c])' = Version(readAt[c])
    BY <2>2 DEF Version, chainVars
  <2>6. OnRoute(c)' /\ SealedIds(c)'
    BY <1>a, <2>2, <2>3, <2>4 DEF Good, OnRoute, SealedIds, chainVars
  <2>7. Fresh(c)'
    BY <1>a, <2>2, <2>3, <2>4, <2>5 DEF Good, Fresh
  <2>8. QED
    BY <1>3, <1>6, <1>c, <2>2, <2>6, <2>7 DEF ResolveNonce, Good
<1>7. ASSUME NEW c \in Client, NEW k, NonceKnown(c, k), pc[c] \in {"class", "nonce"},
             UNCHANGED <<chainVars, ask, readAt, nonceAt, from, floor, sawState>>
      PROVE  Honest' /\ \A d \in Client : Good(d)'
  <2>1. /\ sawNonce'[c] = Version(nonceAt[c])
        /\ pc'[c] = (IF ask[c].op = "count" THEN "done" ELSE "read")
        /\ ask[c].op \in {"count", "call"}
    BY <1>7, <1>a, <1>c DEF NonceKnown, Good, OnRoute
  <2>2. from[c] <= sawNonce'[c]
    BY <1>7, <1>a, <2>1 DEF Good, Fresh
  <2>3. Version(readAt[c])' = Version(readAt[c])
    BY <1>7 DEF Version, chainVars
  <2>4. OnRoute(c)' /\ SealedIds(c)'
    BY <1>7, <1>a, <2>1 DEF Good, OnRoute, SealedIds, chainVars
  <2>5. Fresh(c)'
    BY <1>7, <1>a, <2>1, <2>2, <2>3 DEF Good, Fresh
  <2>6. QED
    BY <1>3, <1>7, <1>c, <2>4, <2>5 DEF NonceKnown, Good
<1>8. ASSUME NEW c \in Client, ReadClass(c) PROVE Honest' /\ \A d \in Client : Good(d)'
  <2>1. CASE NonceKnown(c, 0)
    BY <1>7, <1>8, <2>1 DEF ReadClass
  <2>2. CASE pc' = [pc EXCEPT ![c] = "nonce"] /\ UNCHANGED <<nonce, sawNonce, answer>>
    <3>1. UNCHANGED <<chainVars, ask, readAt, nonceAt, answer, from, sawNonce, sawState>>
          /\ pc[c] = "class" /\ pc'[c] = "nonce"
      BY <1>8, <1>c, <2>2 DEF ReadClass
    <3>2. Version(readAt[c])' = Version(readAt[c]) /\ Version(nonceAt[c])' = Version(nonceAt[c])
      BY <3>1 DEF Version, chainVars
    <3>3. OnRoute(c)' /\ SealedIds(c)'
      BY <1>a, <3>1 DEF Good, OnRoute, SealedIds, chainVars
    <3>4. Fresh(c)'
      BY <1>a, <3>1, <3>2 DEF Good, Fresh
    <3>5. QED
      BY <1>3, <1>c, <2>2, <3>1, <3>3, <3>4 DEF Good
  <2>3. QED
    BY <1>8, <2>1, <2>2 DEF ReadClass
<1>9. ASSUME NEW c \in Client, ReadNonce(c) PROVE Honest' /\ \A d \in Client : Good(d)'
  BY <1>7, <1>9 DEF ReadNonce
<1>10. ASSUME NEW c \in Client, ReadState(c) PROVE Honest' /\ \A d \in Client : Good(d)'
  <2>1. /\ UNCHANGED <<chainVars, ask, readAt, nonceAt, from, sawNonce>>
        /\ pc[c] = "read" /\ pc'[c] = "done" /\ sawState'[c] = Version(readAt[c])
    BY <1>10, <1>c DEF ReadState
  <2>2. OnRoute(c)' /\ SealedIds(c)'
    BY <1>a, <2>1 DEF Good, OnRoute, SealedIds, chainVars
  <2>3. ask[c].op # "count" /\ from[c] <= sawState'[c]
    BY <1>a, <2>1 DEF Good, OnRoute, Fresh
  <2>4. Fresh(c)'
    BY <1>a, <2>1, <2>3 DEF Good, Fresh
  <2>5. QED
    BY <1>3, <1>10, <1>c, <2>1, <2>2, <2>4 DEF ReadState, Good
<1>11. ASSUME NEW c \in Client, Fail(c) PROVE Honest' /\ \A d \in Client : Good(d)'
  <2>1. /\ UNCHANGED <<chainVars, ask, readAt, nonceAt, from, sawNonce, sawState>>
        /\ pc'[c] = "done" /\ answer'[c] = "error"
    BY <1>11, <1>c DEF Fail
  <2>2. Good(c)'
    BY <1>a, <2>1 DEF Good, OnRoute, SealedIds, Fresh, chainVars
  <2>3. QED
    BY <1>3, <1>11, <1>c, <2>1, <2>2 DEF Fail
<1>12. QED
  BY <1>1, <1>2, <1>4, <1>5, <1>6, <1>8, <1>9, <1>10, <1>11 DEF Next

LEMMA Invariance == Spec => []IInv
  BY Typing, InvInit, InvStep, PTL DEF Spec

(***************************************************************************)
(* OnlySealedNumbers: to_starknet_block_id never hands the node a number   *)
(* it has not sealed.                                                      *)
(***************************************************************************)
THEOREM NumbersAreSealed == Spec => []OnlySealedNumbers
<1>1. IInv => OnlySealedNumbers
  BY DEF IInv, Good, SealedIds, OnlySealedNumbers
<1>2. QED
  BY <1>1, Invariance, PTL

(***************************************************************************)
(* NeverOlderThanAsked: no answer of transaction_count, a call or a read   *)
(* comes from a state older than the block asked for.                      *)
(***************************************************************************)
THEOREM AnswersAreFresh == Spec => []NeverOlderThanAsked
<1>1. IInv => NeverOlderThanAsked
  BY DEF IInv, Good, Fresh, NeverOlderThanAsked
<1>2. QED
  BY <1>1, Invariance, PTL

-----------------------------------------------------------------------------
(***************************************************************************)
(* Nonces only grow: with the version they are read at, and while the node *)
(* takes transactions, for it takes none into a block already sealed.      *)
(***************************************************************************)
LEMMA CountMonotonic ==
  ASSUME NEW a \in Account, NEW T \in SUBSET Bumps[a], NEW S \in SUBSET T
  PROVE  Cardinality(S) \in Nat /\ Cardinality(T) \in Nat /\ Cardinality(S) <= Cardinality(T)
<1>1. IsFiniteSet(Bumps[a])
  BY AccountAssumption
<1>2. IsFiniteSet(T)
  BY <1>1, FS_Subset
<1>3. IsFiniteSet(S) /\ Cardinality(S) <= Cardinality(T)
  BY <1>2, FS_Subset
<1>4. QED
  BY <1>2, <1>3, FS_CardinalityType

LEMMA NonceOfVersions ==
  ASSUME ChainTypeOK, NEW a \in Account, NEW v \in Int, NEW w \in Int, v <= w
  PROVE  Nonce(a, v) <= Nonce(a, w)
<1>1. \A t \in Bumps[a] : included[t] \in Int
  BY AccountAssumption, MaxBlockAssumption DEF ChainTypeOK, Block, Never
<1>2. \A t \in Bumps[a] : included[t] <= v => included[t] <= w
  BY <1>1
<1>3. /\ {t \in Bumps[a] : included[t] <= v} \in SUBSET {t \in Bumps[a] : included[t] <= w}
      /\ {t \in Bumps[a] : included[t] <= w} \in SUBSET Bumps[a]
  BY <1>2
<1>4. QED
  BY <1>3, CountMonotonic DEF Nonce

LEMMA NonceOfSteps ==
  ASSUME ChainTypeOK, ChainNext \/ UNCHANGED chainVars,
         NEW a \in Account, NEW v \in Block, NEW w \in Int, v <= w
  PROVE  Nonce(a, v) <= Cardinality({t \in Bumps[a] : included'[t] <= w})
<1>1. \A t \in Tx : included[t] # Never => included'[t] = included[t]
  BY DocsGrow DEF chainVars
<1>2. \A t \in Bumps[a] : t \in Tx /\ included[t] \in Int
  BY AccountAssumption, MaxBlockAssumption DEF ChainTypeOK, Block, Never
<1>3. v \in Int /\ v < Never
  BY MaxBlockAssumption DEF Block, Never
<1>4. \A t \in Bumps[a] : included[t] <= v => included'[t] <= w
  <2>1. Never \in Int
    BY MaxBlockAssumption DEF Never
  <2>2. QED
    BY <1>1, <1>2, <1>3, <2>1
<1>5. /\ {t \in Bumps[a] : included[t] <= v} \in SUBSET {t \in Bumps[a] : included'[t] <= w}
      /\ {t \in Bumps[a] : included'[t] <= w} \in SUBSET Bumps[a]
  BY <1>4
<1>6. QED
  BY <1>5, CountMonotonic DEF Nonce

LEMMA NotDeployedNonce ==
  ASSUME NEW a \in Account, NEW v, ~Deployed(a, v)
  PROVE  Nonce(a, v) = 0
<1>1. {t \in Bumps[a] : included[t] <= v} = {}
  BY DEF Deployed
<1>2. QED
  BY <1>1, FS_EmptySet DEF Nonce

(***************************************************************************)
(* What holds of the nonce a request found.  call_helper resolves its id   *)
(* twice: the second time it comes out the same, or as a sealed number     *)
(* where it was the pending tag before, so the nonce is never read from a  *)
(* later state than the one eth_call is going to run on.                   *)
(***************************************************************************)
ReadAtOf(id, sid) ==
  IF id.by = "number"
    THEN sid # Pending => sid = id /\ headers[id.at] = "sealed"
    ELSE Resolves(id, sid)

Counted(c) ==
  LET a == ask[c].account IN
    /\ floor[c] <= Nonce(a, from[c])
    /\ pc[c] = "resolve_nonce" => ReadAtOf(ask[c].id, readAt[c])
    /\ pc[c] \in {"class", "nonce"} /\ ask[c].op = "call" =>
         nonceAt[c] = readAt[c] \/ (readAt[c] = Pending /\ nonceAt[c].by = "number")
    /\ pc[c] = "read" /\ ask[c].op = "call" => nonce[c] <= Nonce(a, Version(readAt[c]))
    /\ pc[c] = "done" /\ answer[c] = "ok" /\ ask[c].op = "count" =>
         /\ Class[a] # "other" => floor[c] <= nonce[c]
         /\ nonce[c] <= Nonce(a, Version(nonceAt[c]))
    /\ pc[c] = "done" /\ answer[c] = "ok" /\ ask[c].op = "call" =>
         nonce[c] <= Nonce(a, sawState[c])

CountInv == IInv /\ \A c \in Client : Counted(c)

LEMMA CountInit == Init => CountInv
<1> SUFFICES ASSUME Init PROVE CountInv
  OBVIOUS
<1>1. IInv /\ ChainTypeOK
  BY InvInit, ChainTypeInit DEF Init
<1>2. ASSUME NEW c \in Client PROVE Counted(c)
  <2>1. pc[c] = "idle" /\ floor[c] = 0 /\ ask[c].account \in Account
    BY DEF Init, Request
  <2>2. Nonce(ask[c].account, from[c]) \in Nat
    BY <2>1, NonceIsNat
  <2>3. QED
    BY <2>1, <2>2 DEF Counted
<1>3. QED
  BY <1>1, <1>2 DEF CountInv

LEMMA VersionIsBlock ==
  ASSUME ChainTypeOK, NEW sid \in SnId
  PROVE  Version(sid) \in Block /\ Version(sid) \in Nat
<1>1. head \in Nat /\ head + 1 <= MaxBlock /\ sid.at \in Block
  BY IdShapes, MaxBlockAssumption DEF ChainTypeOK
<1>2. QED
  BY <1>1, MaxBlockAssumption DEF Version, Block

(***************************************************************************)
(* The node's step as it concerns one id: its version does not go back,    *)
(* and neither does the nonce there.                                       *)
(***************************************************************************)
LEMMA VersionOfSteps ==
  ASSUME ChainTypeOK, ChainTypeOK', ChainNext \/ UNCHANGED chainVars, NEW sid \in SnId
  PROVE  Version(sid)' \in Nat /\ Version(sid) <= Version(sid)'
<1>1. head \in Nat /\ head' \in Nat /\ head <= head'
  BY ChainGrows, MaxBlockAssumption DEF ChainTypeOK, chainVars
<1>2. sid.at \in Nat
  BY IdShapes, MaxBlockAssumption DEF Block
<1>3. Version(sid)' = (CASE sid.by = "pending" -> head' + 1
                         [] sid.by = "latest"  -> head'
                         [] OTHER              -> sid.at)
  BY DEF Version
<1>4. QED
  BY <1>1, <1>2, <1>3 DEF Version

LEMMA NonceAtId ==
  ASSUME ChainTypeOK, ChainTypeOK', ChainNext \/ UNCHANGED chainVars,
         NEW a \in Account, NEW sid \in SnId
  PROVE  /\ Nonce(a, Version(sid)) \in Nat /\ Nonce(a, Version(sid))' \in Nat
         /\ Nonce(a, Version(sid)) <= Nonce(a, Version(sid))'
<1>1. Version(sid) \in Block /\ Version(sid)' \in Int /\ Version(sid) <= Version(sid)'
  BY VersionIsBlock, VersionOfSteps
<1>2. Nonce(a, Version(sid)) <= Cardinality({t \in Bumps[a] : included'[t] <= Version(sid)'})
  BY <1>1, NonceOfSteps
<1>3. {t \in Bumps[a] : included'[t] <= Version(sid)'} \in SUBSET Bumps[a]
  OBVIOUS
<1>4. Cardinality({t \in Bumps[a] : included'[t] <= Version(sid)'}) \in Nat
  BY <1>3, CountMonotonic
<1>5. QED
  BY <1>2, <1>4, NonceIsNat DEF Nonce

LEMMA NonceAtBlock ==
  ASSUME ChainTypeOK, ChainNext \/ UNCHANGED chainVars, NEW a \in Account, NEW v \in Block
  PROVE  /\ Nonce(a, v) \in Nat /\ Nonce(a, v)' \in Nat
         /\ Nonce(a, v) <= Nonce(a, v)'
<1>1. v \in Int /\ v <= v
  BY MaxBlockAssumption DEF Block
<1>2. Nonce(a, v) <= Cardinality({t \in Bumps[a] : included'[t] <= v})
  BY <1>1, NonceOfSteps
<1>3. {t \in Bumps[a] : included'[t] <= v} \in SUBSET Bumps[a]
  OBVIOUS
<1>4. Cardinality({t \in Bumps[a] : included'[t] <= v}) \in Nat
  BY <1>3, CountMonotonic
<1>5. QED
  BY <1>2, <1>4, NonceIsNat DEF Nonce

LEMMA ReadAtOfSteps ==
  ASSUME ChainTypeOK, ChainNext \/ UNCHANGED chainVars,
         NEW id \in Id, NEW sid \in SnId, ReadAtOf(id, sid)
  PROVE  ReadAtOf(id, sid)'
<1>1. \A n \in Block : headers[n] = "sealed" => headers'[n] = "sealed"
  BY ChainGrows DEF chainVars
<1>2. id.at \in Block
  BY IdShapes
<1>3. CASE id.by = "number"
  BY <1>1, <1>2, <1>3 DEF ReadAtOf
<1>4. CASE id.by # "number"
  BY <1>4 DEF ReadAtOf, Resolves, Pending
<1>5. QED
  BY <1>3, <1>4

(***************************************************************************)
(* A request no step of which is taken keeps what holds of its nonce.      *)
(***************************************************************************)
LEMMA OthersCounted ==
  ASSUME TypeOK, TypeOK', ChainNext \/ UNCHANGED chainVars, NEW c \in Client, Counted(c),
         pc'[c] = pc[c], ask'[c] = ask[c], readAt'[c] = readAt[c], nonceAt'[c] = nonceAt[c],
         nonce'[c] = nonce[c], answer'[c] = answer[c], from'[c] = from[c],
         floor'[c] = floor[c], sawState'[c] = sawState[c]
  PROVE  Counted(c)'
<1>a. ChainTypeOK /\ ChainTypeOK'
  BY DEF TypeOK
<1>b. /\ ask[c] \in Request /\ readAt[c] \in SnId /\ nonceAt[c] \in SnId
      /\ nonce[c] \in Nat /\ floor[c] \in Nat /\ from[c] \in Block /\ sawState[c] \in Block
  BY Types
<1>1. PICK a \in Account : a = ask[c].account
  BY <1>b DEF Request
<1>2. PICK r \in SnId, n \in SnId : r = readAt[c] /\ n = nonceAt[c]
  BY <1>b
<1>3. PICK v \in Block, w \in Block : v = from[c] /\ w = sawState[c]
  BY <1>b
<1>4. /\ Nonce(ask[c].account, from[c])' = Nonce(a, v)'
      /\ Nonce(ask[c].account, sawState[c])' = Nonce(a, w)'
      /\ Nonce(ask[c].account, Version(readAt[c]))' = Nonce(a, Version(r))'
      /\ Nonce(ask[c].account, Version(nonceAt[c]))' = Nonce(a, Version(n))'
  BY <1>1, <1>2, <1>3 DEF Nonce, Version
<1>5. /\ Nonce(a, v) \in Nat /\ Nonce(a, v)' \in Nat /\ Nonce(a, v) <= Nonce(a, v)'
      /\ Nonce(a, w) \in Nat /\ Nonce(a, w)' \in Nat /\ Nonce(a, w) <= Nonce(a, w)'
  BY <1>a, NonceAtBlock
<1>6. \A sid \in SnId : /\ Nonce(a, Version(sid)) \in Nat /\ Nonce(a, Version(sid))' \in Nat
                        /\ Nonce(a, Version(sid)) <= Nonce(a, Version(sid))'
  BY <1>a, NonceAtId
<1>7. ReadAtOf(ask[c].id, readAt[c]) => ReadAtOf(ask[c].id, readAt[c])'
  <2>1. PICK id \in Id : id = ask[c].id
    BY <1>b DEF Request
  <2>2. ReadAtOf(ask[c].id, readAt[c])' <=> ReadAtOf(id, r)'
    BY <1>2, <2>1 DEF ReadAtOf, Resolves
  <2>3. ReadAtOf(id, r) => ReadAtOf(id, r)'
    BY <1>a, ReadAtOfSteps
  <2>4. QED
    BY <1>2, <2>1, <2>2, <2>3
<1>8. QED
  BY <1>b, <1>1, <1>2, <1>3, <1>4, <1>5, <1>6, <1>7 DEF Counted

(***************************************************************************)
(* The request of the client whose step it is: the chain stands still, so  *)
(* Counted speaks of the new request and of the nonces as they are.        *)
(***************************************************************************)
LEMMA CountedNow ==
  ASSUME UNCHANGED chainVars, NEW c \in Client,
         NEW a, a = ask'[c].account, NEW r, r = readAt'[c], NEW n, n = nonceAt'[c],
         NEW v, v = from'[c], NEW w, w = sawState'[c],
         floor'[c] <= Nonce(a, v),
         pc'[c] = "resolve_nonce" => ReadAtOf(ask'[c].id, r),
         pc'[c] \in {"class", "nonce"} /\ ask'[c].op = "call" =>
           n = r \/ (r = Pending /\ n.by = "number"),
         pc'[c] = "read" /\ ask'[c].op = "call" => nonce'[c] <= Nonce(a, Version(r)),
         pc'[c] = "done" /\ answer'[c] = "ok" /\ ask'[c].op = "count" =>
           (Class[a] # "other" => floor'[c] <= nonce'[c]) /\ nonce'[c] <= Nonce(a, Version(n)),
         pc'[c] = "done" /\ answer'[c] = "ok" /\ ask'[c].op = "call" => nonce'[c] <= Nonce(a, w)
  PROVE  Counted(c)'
<1>1. UNCHANGED <<head, included, headers>>
  BY DEF chainVars
<1>2. /\ Nonce(ask[c].account, from[c])' = Nonce(a, v)
      /\ Nonce(ask[c].account, sawState[c])' = Nonce(a, w)
      /\ Nonce(ask[c].account, Version(readAt[c]))' = Nonce(a, Version(r))
      /\ Nonce(ask[c].account, Version(nonceAt[c]))' = Nonce(a, Version(n))
  BY <1>1 DEF Nonce, Version
<1>3. ReadAtOf(ask[c].id, readAt[c])' <=> ReadAtOf(ask'[c].id, r)
  BY <1>1 DEF ReadAtOf, Resolves
<1>4. QED
  BY <1>2, <1>3 DEF Counted

LEMMA CountStep == CountInv /\ IInv' /\ [Next]_vars => CountInv'
<1> SUFFICES ASSUME CountInv, IInv', [Next]_vars PROVE CountInv'
  OBVIOUS
<1>a. ChainTypeOK /\ TypeOK /\ TypeOK' /\ \A c \in Client : Good(c) /\ Counted(c)
  BY Types DEF CountInv, IInv
<1>b. SUFFICES \A c \in Client : Counted(c)'
  BY DEF CountInv
<1>c. /\ pc \in [Client -> Place] /\ ask \in [Client -> Request]
      /\ readAt \in [Client -> SnId] /\ nonceAt \in [Client -> SnId]
      /\ nonce \in [Client -> Nat] /\ answer \in [Client -> AnswerKind]
      /\ from \in [Client -> Block] /\ floor \in [Client -> Nat]
      /\ sawNonce \in [Client -> Block] /\ sawState \in [Client -> Block]
  BY <1>a, Types
<1>1. CASE Environment \/ UNCHANGED vars
  <2>1. UNCHANGED <<pc, ask, readAt, nonceAt, nonce, answer, from, floor, sawState>>
    BY <1>1 DEF Environment, vars, reqVars
  <2>2. ChainNext \/ UNCHANGED chainVars
    BY <1>1 DEF Environment, vars
  <2>3. QED
    BY <1>a, <2>1, <2>2, OthersCounted
<1>2. ASSUME NEW c \in Client, UNCHANGED chainVars, Counted(c)',
             \A d \in Client \ {c} :
               /\ pc'[d] = pc[d] /\ ask'[d] = ask[d] /\ readAt'[d] = readAt[d]
               /\ nonceAt'[d] = nonceAt[d] /\ nonce'[d] = nonce[d] /\ answer'[d] = answer[d]
               /\ from'[d] = from[d] /\ floor'[d] = floor[d] /\ sawState'[d] = sawState[d]
      PROVE  \A d \in Client : Counted(d)'
  <2>1. \A d \in Client \ {c} : Counted(d)'
    BY <1>2, <1>a, OthersCounted
  <2>2. QED
    BY <1>2, <2>1
<1>3. ASSUME NEW c \in Client, NEW r \in Request, Begin(c, r)
      PROVE  \A d \in Client : Counted(d)'
  <2>1. /\ pc'[c] = "resolve" /\ ask'[c] = r /\ from'[c] = OldestVersion(r.id)
        /\ floor'[c] = Nonce(r.account, OldestVersion(r.id)) /\ UNCHANGED chainVars
    BY <1>3, <1>c DEF Begin
  <2>2. Nonce(r.account, OldestVersion(r.id)) \in Nat
    BY NonceIsNat DEF Request
  <2>3. floor'[c] <= Nonce(r.account, from'[c])
    BY <2>1, <2>2
  <2>4. Counted(c)'
    BY <2>1, <2>3, CountedNow
  <2>5. QED
    BY <1>2, <1>3, <1>c, <2>1, <2>4 DEF Begin
<1>4. ASSUME NEW c \in Client, Resolve(c) PROVE \A d \in Client : Counted(d)'
  <2>1. PICK sid \in SnId :
          /\ Resolves(ask[c].id, sid)
          /\ IF ask[c].op = "count"
               THEN nonceAt' = [nonceAt EXCEPT ![c] = sid] /\ UNCHANGED readAt
               ELSE readAt' = [readAt EXCEPT ![c] = sid] /\ UNCHANGED nonceAt
    BY <1>4 DEF Resolve
  <2>2. /\ pc[c] = "resolve" /\ pc'[c] = AfterResolve(ask[c].op)
        /\ UNCHANGED <<chainVars, ask, nonce, answer, from, floor, sawNonce, sawState>>
    BY <1>4, <1>c DEF Resolve
  <2>3. ask[c].id \in Id /\ ask[c].op \in Op
    BY <1>c DEF Request
  <2>4. floor'[c] <= Nonce(ask'[c].account, from'[c])
    BY <1>a, <2>2 DEF Counted
  <2>5. ASSUME pc'[c] = "resolve_nonce" PROVE ReadAtOf(ask'[c].id, readAt'[c])
    <3>1. readAt'[c] = sid
      BY <1>c, <2>1, <2>2, <2>5 DEF AfterResolve
    <3>2. ask[c].id.by = "number" => headers[ask[c].id.at] \in {"pending", "sealed"}
      BY <1>a, <2>1, <2>3, IdShapes DEF Resolves, ChainTypeOK, Status
    <3>3. ReadAtOf(ask[c].id, sid)
      BY <2>1, <3>2 DEF ReadAtOf, Resolves, DocHash
    <3>4. QED
      BY <2>2, <3>1, <3>3
  <2>6. pc'[c] \in {"class", "nonce"} => ask'[c].op # "call"
    BY <2>2 DEF AfterResolve
  <2>7. pc'[c] = "read" => ask'[c].op # "call"
    BY <2>2 DEF AfterResolve
  <2>8. pc'[c] # "done"
    BY <2>2 DEF AfterResolve
  <2>9. Counted(c)'
    BY <2>2, <2>4, <2>5, <2>6, <2>7, <2>8, CountedNow
  <2>10. QED
    BY <1>2, <1>4, <1>c, <2>2, <2>9 DEF Resolve
<1>5. ASSUME NEW c \in Client, ResolveNonce(c) PROVE \A d \in Client : Counted(d)'
  <2>1. PICK sid \in SnId :
          Resolves(ask[c].id, sid) /\ nonceAt' = [nonceAt EXCEPT ![c] = sid]
    BY <1>5 DEF ResolveNonce
  <2>2. /\ pc[c] = "resolve_nonce" /\ pc'[c] = "class" /\ nonceAt'[c] = sid
        /\ pc' = [pc EXCEPT ![c] = "class"]
        /\ UNCHANGED <<chainVars, ask, readAt, nonce, answer, from, floor, sawState>>
    BY <1>5, <1>c, <2>1 DEF ResolveNonce
  <2>3. ReadAtOf(ask[c].id, readAt[c]) /\ floor[c] <= Nonce(ask[c].account, from[c])
    BY <1>a, <2>2 DEF Counted
  <2>4. sid = readAt[c] \/ (readAt[c] = Pending /\ sid.by = "number")
    <3>1. ask[c].id \in Id
      BY <1>c DEF Request
    <3>2. CASE ask[c].id.by = "number"
      BY <2>1, <2>3, <3>1, <3>2, IdShapes
      DEF ReadAtOf, Resolves, DocHash, ZeroHash, Block
    <3>3. CASE ask[c].id.by # "number"
      BY <2>1, <2>3, <3>3 DEF ReadAtOf, Resolves
    <3>4. QED
      BY <3>2, <3>3
  <2>5. Counted(c)'
    BY <2>2, <2>3, <2>4, CountedNow
  <2>6. QED
    BY <1>2, <1>c, <2>1, <2>2, <2>5
<1>6. ASSUME NEW c \in Client, Fail(c) PROVE \A d \in Client : Counted(d)'
  <2>1. /\ pc'[c] = "done" /\ answer'[c] = "error"
        /\ UNCHANGED <<chainVars, ask, readAt, nonceAt, nonce, from, floor, sawState>>
    BY <1>6, <1>c DEF Fail
  <2>2. floor[c] <= Nonce(ask[c].account, from[c])
    BY <1>a DEF Counted
  <2>3. Counted(c)'
    BY <2>1, <2>2, CountedNow
  <2>4. QED
    BY <1>2, <1>6, <1>c, <2>1, <2>3 DEF Fail
<1>7. ASSUME NEW c \in Client, NEW k \in Nat, NonceKnown(c, k), pc[c] \in {"class", "nonce"},
             k <= Nonce(ask[c].account, Version(nonceAt[c])),
             Class[ask[c].account] # "other" => k = Nonce(ask[c].account, Version(nonceAt[c])),
             UNCHANGED <<chainVars, ask, readAt, nonceAt, from, floor, sawState>>
      PROVE  \A d \in Client : Counted(d)'
  <2>1. /\ pc'[c] = (IF ask[c].op = "count" THEN "done" ELSE "read") /\ nonce'[c] = k
        /\ answer'[c] = IF ask[c].op = "count" THEN "ok" ELSE answer[c]
    BY <1>7, <1>c DEF NonceKnown
  <2>2. PICK a \in Account : a = ask[c].account
    BY <1>c DEF Request
  <2>3. PICK x \in Nat, y \in Nat : x = Version(nonceAt[c]) /\ y = Version(readAt[c])
    BY <1>a, <1>c, VersionIsBlock
  <2>4. /\ Nonce(a, x) \in Nat /\ Nonce(a, y) \in Nat /\ Nonce(a, from[c]) \in Nat
        /\ floor[c] \in Nat /\ floor[c] <= Nonce(a, from[c])
    BY <1>a, <1>c, <2>2, NonceIsNat DEF Counted
  <2>5. Nonce(a, from[c]) <= Nonce(a, x)
    <3>1. from[c] <= x /\ from[c] \in Int
      BY <1>7, <1>a, <1>c, <2>3, MaxBlockAssumption DEF Good, Fresh, Block
    <3>2. QED
      BY <1>a, <3>1, NonceOfVersions
  <2>6. ask[c].op = "call" => Nonce(a, x) <= Nonce(a, y)
    <3>1. SUFFICES ASSUME ask[c].op = "call" PROVE x <= y
      BY <1>a, NonceOfVersions
    <3>2. CASE nonceAt[c] = readAt[c]
      BY <2>3, <3>2
    <3>3. CASE readAt[c] = Pending /\ nonceAt[c].by = "number"
      <4>1. x = nonceAt[c].at /\ y = head + 1 /\ head \in Nat
        BY <1>a, <2>3, <3>3, MaxBlockAssumption DEF Version, Pending, ChainTypeOK
      <4>2. nonceAt[c].at <= head
        BY <1>a, <3>3 DEF Good, SealedIds
      <4>3. QED
        BY <4>1, <4>2
    <3>4. QED
      BY <1>7, <1>a, <3>1, <3>2, <3>3 DEF Counted
  <2>7. Class[a] # "other" => floor[c] <= k
    BY <1>7, <2>2, <2>3, <2>4, <2>5
  <2>8. ask[c].op = "call" => k <= Nonce(a, y)
    BY <1>7, <2>2, <2>3, <2>4, <2>6
  <2>9. Counted(c)'
    BY <1>7, <2>1, <2>2, <2>3, <2>4, <2>7, <2>8, CountedNow
  <2>10. QED
    BY <1>2, <1>7, <1>c, <2>9 DEF NonceKnown
<1>8. ASSUME NEW c \in Client, ReadClass(c) PROVE \A d \in Client : Counted(d)'
  <2>1. PICK a \in Account : a = ask[c].account
    BY <1>c DEF Request
  <2>2. CASE /\ ~(Deployed(a, Version(nonceAt[c])) /\ Class[a] \in {"EOA", "CA"})
             /\ NonceKnown(c, 0)
    <3>1. Nonce(a, Version(nonceAt[c])) \in Nat
      BY NonceIsNat
    <3>2. ~Deployed(a, Version(nonceAt[c])) => Nonce(a, Version(nonceAt[c])) = 0
      BY NotDeployedNonce
    <3>3. Class[a] \in {"EOA", "CA", "other"}
      BY AccountAssumption
    <3>4. Class[a] # "other" => 0 = Nonce(a, Version(nonceAt[c]))
      BY <2>2, <3>2, <3>3
    <3>5. QED
      BY <1>7, <1>8, <2>1, <2>2, <3>1, <3>4 DEF ReadClass
  <2>3. CASE pc' = [pc EXCEPT ![c] = "nonce"] /\ UNCHANGED <<nonce, sawNonce, answer>>
    <3>1. /\ pc[c] = "class" /\ pc'[c] = "nonce"
          /\ UNCHANGED <<chainVars, ask, readAt, nonceAt, nonce, answer, from, floor, sawState>>
      BY <1>8, <1>c, <2>3 DEF ReadClass
    <3>2. /\ floor[c] <= Nonce(ask[c].account, from[c])
          /\ ask[c].op = "call" =>
               nonceAt[c] = readAt[c] \/ (readAt[c] = Pending /\ nonceAt[c].by = "number")
      BY <1>a, <3>1 DEF Counted
    <3>3. Counted(c)'
      BY <3>1, <3>2, CountedNow
    <3>4. QED
      BY <1>2, <1>c, <2>3, <3>1, <3>3
  <2>4. QED
    BY <1>8, <2>1, <2>2, <2>3 DEF ReadClass
<1>9. ASSUME NEW c \in Client, ReadNonce(c) PROVE \A d \in Client : Counted(d)'
  <2>1. PICK k \in Nat : k = Nonce(ask[c].account, Version(nonceAt[c]))
    BY <1>c, NonceIsNat DEF Request
  <2>2. QED
    BY <1>7, <1>9, <2>1 DEF ReadNonce
<1>10. ASSUME NEW c \in Client, ReadState(c) PROVE \A d \in Client : Counted(d)'
  <2>1. /\ UNCHANGED <<chainVars, ask, readAt, nonceAt, nonce, from, floor>>
        /\ pc[c] = "read" /\ pc'[c] = "done" /\ sawState'[c] = Version(readAt[c])
    BY <1>10, <1>c DEF ReadState
  <2>2. /\ floor[c] <= Nonce(ask[c].account, from[c])
        /\ ask[c].op = "call" => nonce[c] <= Nonce(ask[c].account, Version(readAt[c]))
    BY <1>a, <2>1 DEF Counted
  <2>3. ask[c].op # "count"
    BY <1>a, <2>1 DEF Good, OnRoute
  <2>4. Counted(c)'
    BY <2>1, <2>2, <2>3, CountedNow
  <2>5. QED
    BY <1>2, <1>10, <1>c, <2>1, <2>4 DEF ReadState
<1>11. QED
  BY <1>1, <1>3, <1>4, <1>5, <1>6, <1>8, <1>9, <1>10 DEF Next

LEMMA CountInvariance == Spec => []CountInv
  BY Invariance, CountInit, CountStep, PTL DEF Spec

(***************************************************************************)
(* CountIsTrue: transaction_count answers no less than the count when and  *)
(* where it was asked for, and no more than the count its id stands for    *)
(* when it answers, although class and nonce are read in two calls.        *)
(***************************************************************************)
THEOREM CountsAreTrue == Spec => []CountIsTrue
<1>1. CountInv => CountIsTrue
  BY DEF CountInv, Counted, CountIsTrue
<1>2. QED
  BY <1>1, CountInvariance, PTL

(***************************************************************************)
(* CallNonceNotNewer: the nonce call_helper passes on is never higher than *)
(* the sender's nonce in the state eth_call runs on, although it resolves  *)
(* the block id twice.                                                     *)
(***************************************************************************)
THEOREM CallNoncesFitState == Spec => []CallNonceNotNewer
<1>1. CountInv => CallNonceNotNewer
  BY DEF CountInv, Counted, CallNonceNotNewer
<1>2. QED
  BY <1>1, CountInvariance, PTL
=============================================================================
