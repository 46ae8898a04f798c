------------------------- MODULE BlockReads_proofs -------------------------
(***************************************************************************)
(* What a request for one block may rely on, for any number of clients,    *)
(* blocks, transactions and collections.  The argument: block_number()     *)
(* names a stored header, headers are never deleted, so the later lookup   *)
(* under that number cannot miss it; and as they are never deleted the     *)
(* highest of them never goes back.                                        *)
(***************************************************************************)
EXTENDS BlockReads, Chain_proofs

(***************************************************************************)
(* The highest header is one of those stored.                              *)
(***************************************************************************)
LEMMA TopHeaderStored ==
  ASSUME Indexed # {}
  PROVE  /\ TopHeader \in Block
         /\ headers[TopHeader] # "none"
         /\ \A n \in Block : headers[n] # "none" => n <= TopHeader
<1>1. PICK n \in Indexed : \A m \in Indexed : m <= n
  BY HighestBlock DEF Indexed
<1>2. TopHeader \in Indexed /\ \A m \in Indexed : m <= TopHeader
  BY <1>1 DEF TopHeader
<1>3. QED
  BY <1>2 DEF Indexed

-----------------------------------------------------------------------------
(***************************************************************************)
(* Where a request may be, and the part of the type invariant it needs.    *)
(***************************************************************************)
Place == {"idle", "newest", "fallback", "lookup", "query", "done"}

ReqTypeOK ==
  /\ pc \in [Client -> Place]
  /\ number \in [Client -> Block]
  /\ viaHeader \in [Client -> BOOLEAN]
  /\ newest \in Block
  /\ ask \in [Client -> Request \cup {NoRequest}]
  /\ found \in [Client -> Block]
  /\ answer \in [Client -> [kind : AnswerKind, txs : SUBSET Tx]]
  /\ shown \in [Collection -> [Block -> SUBSET Tx]]

LEMMA TypeInit == Init => TypeOK
<1> SUFFICES ASSUME Init PROVE TypeOK
  OBVIOUS
<1>1. ChainTypeOK
  BY ChainTypeInit DEF Init
<1>2. 0 \in Block
  BY MaxBlockAssumption DEF Block
<1>3. ReqTypeOK
  BY <1>2 DEF Init, HeadInit, ReqTypeOK, Place, Nothing, AnswerKind
<1>4. QED
  BY <1>1, <1>3 DEF TypeOK, ReqTypeOK, Place

(***************************************************************************)
(* The request that begins, and the places its number takes it to.         *)
(***************************************************************************)
LEMMA RequestShape ==
  ASSUME NEW r \in Request
  PROVE  /\ r.id.by # "hash" => r.id.at \in Block
         /\ AfterNumber(r.op) \in Place
<1>1. r.id \in Id
  BY DEF Request
<1>2. r.id.by # "hash" => r.id.at \in Block
  BY <1>1, MaxBlockAssumption DEF Id, Block
<1>3. AfterNumber(r.op) \in Place
  BY DEF AfterNumber, Place
<1>4. QED
  BY <1>2, <1>3

LEMMA TypeStep == TypeOK /\ [Next]_vars => TypeOK'
<1> SUFFICES ASSUME TypeOK, [Next]_vars PROVE TypeOK'
  OBVIOUS
<1>a. ReqTypeOK /\ ChainTypeOK
  BY DEF TypeOK, ReqTypeOK, Place
<1>b. SUFFICES ReqTypeOK' /\ ChainTypeOK'
  BY DEF TypeOK, ReqTypeOK, Place
<1>c. head \in Block
  BY <1>a, MaxBlockAssumption DEF ChainTypeOK, Block
<1>d. ASSUME UNCHANGED chainVars PROVE ChainTypeOK'
  BY <1>a, <1>d DEF chainVars, ChainTypeOK
<1>1. CASE Environment
  <2>1. ChainTypeOK'
    BY <1>1, <1>a, ChainTypeStep DEF Environment
  <2>2. ReqTypeOK'
    BY <1>1, <1>a DEF Environment, headVars, ReqTypeOK
  <2>3. QED
    BY <2>1, <2>2
<1>2. ASSUME NEW c \in Client, NEW r \in Request, Begin(c, r)
      PROVE  ReqTypeOK' /\ ChainTypeOK'
  <2>1. ChainTypeOK' /\ found' = found /\ shown' = shown /\ newest' = newest
    BY <1>2, <1>d DEF Begin, ResolveTag
  <2>2. pc' \in [Client -> Place]
    BY <1>2, <1>a, RequestShape DEF Begin, ResolveTag, ReqTypeOK, Place
  <2>3. number' \in [Client -> Block] /\ viaHeader' \in [Client -> BOOLEAN]
    <3>1. 0 \in Block
      BY MaxBlockAssumption DEF Block
    <3>2. QED
      BY <1>2, <1>a, <3>1, RequestShape DEF Begin, ResolveTag, ReqTypeOK
  <2>4. ask' \in [Client -> Request \cup {NoRequest}]
    BY <1>2, <1>a DEF Begin, ReqTypeOK
  <2>5. answer' \in [Client -> [kind : AnswerKind, txs : SUBSET Tx]]
    BY <1>2, <1>a DEF Begin, ReqTypeOK, Nothing, AnswerKind
  <2>6. QED
    BY <1>a, <2>1, <2>2, <2>3, <2>4, <2>5 DEF ReqTypeOK
<1>3. ASSUME NEW c \in Client, ReadNewestHeader(c) \/ AskStarknet(c)
      PROVE  ReqTypeOK' /\ ChainTypeOK'
  <2>1. UNCHANGED <<ask, found, shown>> /\ ChainTypeOK'
    BY <1>3, <1>d DEF ReadNewestHeader, AskStarknet, NumberKnown
  <2>2. AfterNumber(ask[c].op) \in Place
    BY DEF AfterNumber, Place
  <2>3. pc' \in [Client -> Place]
    <3>1. \/ pc' = [pc EXCEPT ![c] = "fallback"]
          \/ pc' = [pc EXCEPT ![c] = AfterNumber(ask[c].op)]
      BY <1>3 DEF ReadNewestHeader, AskStarknet, NewestHeader, StarknetHead
    <3>2. pc \in [Client -> Place] /\ "fallback" \in Place
      BY <1>a DEF ReqTypeOK, Place
    <3>3. QED
      BY <2>2, <3>1, <3>2
  <2>6. viaHeader' \in [Client -> BOOLEAN]
    <3>1. viaHeader' = viaHeader \/ viaHeader' = [viaHeader EXCEPT ![c] = TRUE]
      BY <1>3 DEF ReadNewestHeader, AskStarknet, NewestHeader, StarknetHead
    <3>2. QED
      BY <1>a, <3>1 DEF ReqTypeOK
  <2>4. number' \in [Client -> Block] /\ newest' \in Block
    BY <1>3, <1>a, <1>c, TopHeaderStored
    DEF ReadNewestHeader, AskStarknet, NewestHeader, StarknetHead, ReqTypeOK
  <2>5. answer' \in [Client -> [kind : AnswerKind, txs : SUBSET Tx]]
    <3>1. PICK kind \in AnswerKind : answer' = [answer EXCEPT ![c].kind = kind]
      <4>1. answer[c].kind \in AnswerKind /\ "number" \in AnswerKind
        BY <1>a DEF ReqTypeOK, AnswerKind
      <4>2. QED
        BY <1>3, <4>1 DEF ReadNewestHeader, AskStarknet, NumberKnown
    <3>2. QED
      BY <1>a, <3>1 DEF ReqTypeOK
  <2>7. QED
    BY <1>a, <2>1, <2>3, <2>4, <2>5, <2>6 DEF ReqTypeOK
<1>4. ASSUME NEW c \in Client, Lookup(c) PROVE ReqTypeOK' /\ ChainTypeOK'
  <2>1. found' \in [Client -> Block] /\ pc' \in [Client -> Place]
    <3>1. found \in [Client -> Block] /\ pc \in [Client -> Place]
      BY <1>a DEF ReqTypeOK
    <3>2. found' = found \/ \E n \in Block : found' = [found EXCEPT ![c] = n]
      BY <1>4 DEF Lookup
    <3>3. pc' = [pc EXCEPT ![c] = "query"] \/ pc' = [pc EXCEPT ![c] = "done"]
      BY <1>4 DEF Lookup
    <3>4. found' \in [Client -> Block]
      BY <3>1, <3>2
    <3>5. pc' \in [Client -> Place]
      BY <3>1, <3>3 DEF Place
    <3>6. QED
      BY <3>4, <3>5
  <2>2. answer' = answer \/ answer' = [answer EXCEPT ![c] = Nothing("null")]
    BY <1>4 DEF Lookup
  <2>3. answer' \in [Client -> [kind : AnswerKind, txs : SUBSET Tx]]
    BY <1>a, <2>2 DEF ReqTypeOK, Nothing, AnswerKind
  <2>4. ReqTypeOK'
    BY <1>4, <1>a, <2>1, <2>3 DEF Lookup, ReqTypeOK
  <2>5. QED
    BY <1>4, <1>d, <2>4 DEF Lookup
<1>5. ASSUME NEW c \in Client, Query(c) PROVE ReqTypeOK' /\ ChainTypeOK'
  <2>1. UNCHANGED <<chainVars, number, viaHeader, newest, ask, found>>
        /\ pc' = [pc EXCEPT ![c] = "done"]
    BY <1>5 DEF Query
  <2>2. PICK txs \in SUBSET Tx :
          \/ answer' = [answer EXCEPT ![c] = Nothing("error")] /\ shown' = shown
          \/ /\ answer' = [answer EXCEPT ![c] = [kind |-> "txs", txs |-> txs]]
             /\ \/ shown' = shown
                \/ shown' = [shown EXCEPT ![CollectionOf(ask[c].op)][number[c]] = @ \cup txs]
    BY <1>5 DEF Query
  <2>3. answer' \in [Client -> [kind : AnswerKind, txs : SUBSET Tx]]
    BY <1>a, <2>2 DEF ReqTypeOK, AnswerKind, Nothing
  <2>4. shown' \in [Collection -> [Block -> SUBSET Tx]]
    <3>1. number[c] \in Block /\ shown \in [Collection -> [Block -> SUBSET Tx]]
      BY <1>a DEF ReqTypeOK
    <3>2. CASE shown' = shown
      BY <3>1, <3>2
    <3>3. CASE shown' = [shown EXCEPT ![CollectionOf(ask[c].op)][number[c]] = @ \cup txs]
      BY <3>1, <3>3
    <3>4. QED
      BY <2>2, <3>2, <3>3
  <2>5. QED
    BY <1>a, <1>d, <2>1, <2>3, <2>4 DEF ReqTypeOK, Place
<1>6. ASSUME NEW c \in Client, Fail(c) PROVE ReqTypeOK' /\ ChainTypeOK'
  <2>1. ReqTypeOK'
    BY <1>6, <1>a DEF Fail, ReqTypeOK, Place, Nothing, AnswerKind
  <2>2. QED
    BY <1>6, <1>d, <2>1 DEF Fail
<1>7. CASE UNCHANGED vars
  BY <1>7, <1>a, <1>d DEF vars, headVars, ReqTypeOK
<1>8. QED
  BY <1>1, <1>2, <1>3, <1>4, <1>5, <1>6, <1>7 DEF Next

(***************************************************************************)
(* TypeOK: in particular the number of the latest block is always one of   *)
(* a block, never one past the chain.                                      *)
(***************************************************************************)
THEOREM Typing == Spec => []TypeOK
  BY TypeInit, TypeStep, PTL DEF Spec

-----------------------------------------------------------------------------
(***************************************************************************)
(* A number taken from a header is that of a stored one, and the request   *)
(* that took it is by number, so null is not its answer.                   *)
(***************************************************************************)
Relies(c) ==
  /\ pc[c] \in {"newest", "fallback"} => ask[c].id.by # "hash" /\ ~viaHeader[c]
  /\ viaHeader[c] => ask[c].id.by # "hash" /\ headers[number[c]] # "none"
  /\ viaHeader[c] /\ pc[c] = "done" => answer[c].kind # "null"

NewestStored == newest = 0 \/ headers[newest] # "none"

IInv == TypeOK /\ NewestStored /\ \A c \in Client : Relies(c)

LEMMA InvInit == Init => IInv
<1> SUFFICES ASSUME Init PROVE IInv
  OBVIOUS
<1>1. NewestStored /\ \A c \in Client : Relies(c)
  BY DEF Init, HeadInit, NewestStored, Relies
<1>2. QED
  BY <1>1, TypeInit DEF IInv

(***************************************************************************)
(* A request no step of which is taken keeps what it relies on.            *)
(***************************************************************************)
LEMMA OthersRely ==
  ASSUME NEW c \in Client, Relies(c), number[c] \in Block,
         pc'[c] = pc[c], ask'[c] = ask[c], viaHeader'[c] = viaHeader[c],
         number'[c] = number[c], answer'[c] = answer[c],
         \A n \in Block : headers[n] # "none" => headers'[n] # "none"
  PROVE  Relies(c)'
  BY DEF Relies

LEMMA InvStep == IInv /\ TypeOK' /\ [Next]_vars => IInv'
<1> SUFFICES ASSUME IInv, TypeOK', [Next]_vars PROVE IInv'
  OBVIOUS
<1>a. ReqTypeOK /\ ChainTypeOK /\ NewestStored /\ \A c \in Client : Relies(c)
  BY DEF IInv, TypeOK, ReqTypeOK, Place
<1>b. SUFFICES NewestStored' /\ \A c \in Client : Relies(c)'
  BY DEF IInv
<1>c. \A c \in Client : number[c] \in Block
  BY <1>a DEF ReqTypeOK
<1>1. CASE Environment \/ UNCHANGED vars
  <2>1. \A n \in Block : headers[n] # "none" => headers'[n] # "none"
    BY <1>1, <1>a, ChainGrows DEF Environment, vars, chainVars
  <2>2. UNCHANGED <<pc, ask, viaHeader, number, answer, newest>>
    BY <1>1 DEF Environment, vars, headVars
  <2>3. NewestStored'
    BY <1>a, <2>1, <2>2 DEF NewestStored, ReqTypeOK
  <2>4. QED
    BY <1>a, <1>c, <2>1, <2>2, <2>3, OthersRely
<1>3. ASSUME NEW c \in Client, NEW r \in Request, Begin(c, r)
      PROVE  NewestStored' /\ \A d \in Client : Relies(d)'
  <2>1. UNCHANGED <<headers, newest>>
    BY <1>3 DEF Begin, ResolveTag, chainVars
  <2>2. \A d \in Client \ {c} : Relies(d)'
    BY <1>3, <1>a, <1>c, <2>1, OthersRely DEF Begin, ResolveTag, ReqTypeOK
  <2>3. ask'[c] = r /\ ~viaHeader'[c]
    BY <1>3, <1>a DEF Begin, ResolveTag, ReqTypeOK
  <2>4. pc'[c] = "newest" => r.id.by = "latest"
    BY <1>3, <1>a DEF Begin, ResolveTag, ReqTypeOK, AfterNumber
  <2>5. pc'[c] # "fallback"
    BY <1>3, <1>a DEF Begin, ResolveTag, ReqTypeOK, AfterNumber
  <2>6. Relies(c)'
    BY <2>3, <2>4, <2>5 DEF Relies
  <2>7. QED
    BY <1>a, <2>1, <2>2, <2>6 DEF NewestStored
<1>4. ASSUME NEW c \in Client, ReadNewestHeader(c) \/ AskStarknet(c)
      PROVE  NewestStored' /\ \A d \in Client : Relies(d)'
  <2>1. UNCHANGED <<headers, ask>> /\ pc[c] \in {"newest", "fallback"}
    BY <1>4 DEF ReadNewestHeader, AskStarknet, NewestHeader, StarknetHead, NumberKnown, chainVars
  <2>2. \A d \in Client \ {c} : Relies(d)'
    <3>1. ASSUME NEW d \in Client \ {c}
          PROVE  /\ pc'[d] = pc[d] /\ viaHeader'[d] = viaHeader[d]
                 /\ number'[d] = number[d] /\ answer'[d] = answer[d]
      BY <1>4, <1>a
      DEF ReadNewestHeader, AskStarknet, NewestHeader, StarknetHead, NumberKnown, ReqTypeOK
    <3>2. QED
      BY <1>a, <1>c, <2>1, <3>1, OthersRely
  <2>3. ask[c].id.by # "hash" /\ ~viaHeader[c]
    BY <1>a, <2>1 DEF Relies
  <2>4. pc'[c] \in {"newest", "fallback"} => ~viaHeader'[c]
    <3>1. AfterNumber(ask[c].op) \notin {"newest", "fallback"}
      BY DEF AfterNumber
    <3>2. QED
      BY <1>4, <1>a, <2>3, <3>1
      DEF ReadNewestHeader, AskStarknet, NewestHeader, StarknetHead, ReqTypeOK
  <2>5. viaHeader'[c] =>
          Indexed # {} /\ number'[c] = TopHeader /\ newest' \in {newest, TopHeader}
    BY <1>4, <1>a, <2>3
    DEF ReadNewestHeader, AskStarknet, NewestHeader, StarknetHead, ReqTypeOK
  <2>6. viaHeader'[c] => headers'[number'[c]] # "none"
    BY <2>1, <2>5, TopHeaderStored
  <2>7. pc'[c] = "done" => answer'[c].kind # "null"
    <3>1. AfterNumber(ask[c].op) = "done" => ask[c].op = "block_number"
      BY DEF AfterNumber
    <3>2. pc'[c] = "done" => AfterNumber(ask[c].op) = "done"
      BY <1>4, <1>a
      DEF ReadNewestHeader, AskStarknet, NewestHeader, StarknetHead, ReqTypeOK
    <3>3. pc'[c] = "done" => answer' = [answer EXCEPT ![c].kind = "number"]
      BY <1>4, <3>1, <3>2 DEF ReadNewestHeader, AskStarknet, NumberKnown
    <3>4. QED
      BY <1>a, <3>3 DEF ReqTypeOK
  <2>8. Relies(c)'
    BY <2>1, <2>3, <2>4, <2>6, <2>7 DEF Relies
  <2>9. NewestStored'
    <3>1. newest' = newest \/ (Indexed # {} /\ newest' = TopHeader)
      <4>1. CASE AskStarknet(c)
        BY <4>1 DEF AskStarknet, StarknetHead
      <4>2. CASE ReadNewestHeader(c)
        BY <4>2 DEF ReadNewestHeader, NewestHeader
      <4>3. QED
        BY <1>4, <4>1, <4>2
    <3>2. QED
      BY <1>a, <2>1, <3>1, TopHeaderStored DEF NewestStored
  <2>10. QED
    BY <2>2, <2>8, <2>9
<1>5. ASSUME NEW c \in Client, Lookup(c) \/ Query(c) \/ Fail(c)
      PROVE  NewestStored' /\ \A d \in Client : Relies(d)'
  <2>1. UNCHANGED <<headers, newest, ask, viaHeader, number>>
    BY <1>5 DEF Lookup, Query, Fail, chainVars
  <2>2. \A d \in Client \ {c} : Relies(d)'
    <3>1. ASSUME NEW d \in Client \ {c} PROVE pc'[d] = pc[d] /\ answer'[d] = answer[d]
      BY <1>5, <1>a DEF Lookup, Query, Fail, ReqTypeOK
    <3>2. QED
      BY <1>a, <1>c, <2>1, <3>1, OthersRely
  <2>3. pc'[c] \in {"query", "done"}
    BY <1>5, <1>a DEF Lookup, Query, Fail, ReqTypeOK
  <2>4. viaHeader[c] /\ pc'[c] = "done" => answer'[c].kind # "null"
    <3>1. CASE Lookup(c)
      <4>1. SUFFICES ASSUME viaHeader[c] PROVE pc'[c] # "done"
        OBVIOUS
      <4>2. ask[c].id.by # "hash" /\ headers[number[c]] # "none"
        BY <1>a, <4>1 DEF Relies
      <4>3. Matches(Key(c), number[c], headers[number[c]])
        BY <4>2 DEF Matches, Key
      <4>4. pc' = [pc EXCEPT ![c] = "query"]
        BY <3>1, <1>c, <4>3 DEF Lookup
      <4>5. QED
        BY <1>a, <4>4 DEF ReqTypeOK
    <3>2. CASE Query(c) \/ Fail(c)
      <4>1. PICK a \in {Nothing("error")} \cup [kind : {"txs"}, txs : SUBSET Tx] :
              answer' = [answer EXCEPT ![c] = a]
        BY <3>2 DEF Query, Fail
      <4>2. answer'[c].kind \in {"error", "txs"}
        BY <1>a, <4>1 DEF ReqTypeOK, Nothing
      <4>3. QED
        BY <4>2
    <3>3. QED
      BY <1>5, <3>1, <3>2
  <2>5. Relies(c)'
    BY <1>a, <2>1, <2>3, <2>4 DEF Relies
  <2>6. QED
    BY <1>a, <2>1, <2>2, <2>5 DEF NewestStored
<1>6. QED
  BY <1>1, <1>3, <1>4, <1>5 DEF Next

LEMMA Invariance == Spec => []IInv
  BY Typing, InvInit, InvStep, PTL DEF Spec

(***************************************************************************)
(* LatestFound: a number block_number() took from a header is still there  *)
(* when the header is looked up, whatever was stored in between.           *)
(***************************************************************************)
THEOREM LatestBlockFound == Spec => []LatestFound
<1>1. IInv => LatestFound
  BY DEF IInv, Relies, LatestFound
<1>2. QED
  BY <1>1, Invariance, PTL

(***************************************************************************)
(* MonotonicHead: the number of the latest block never goes back, for all  *)
(* clients together.                                                       *)
(***************************************************************************)
THEOREM HeadNeverGoesBack == Spec => MonotonicHead
<1> DEFINE Forward ==
      \A c \in Client : viaHeader'[c] /\ ~viaHeader[c] => number'[c] >= newest
<1>1. IInv /\ [Next]_vars => [Forward]_vars
  <2> SUFFICES ASSUME IInv, Next PROVE Forward
    BY DEF vars
  <2>a. ReqTypeOK /\ NewestStored
    BY DEF IInv, TypeOK, ReqTypeOK, Place
  <2> SUFFICES ASSUME NEW c \in Client, viaHeader'[c], ~viaHeader[c]
               PROVE  number'[c] >= newest
    OBVIOUS
  <2>1. ReadNewestHeader(c)
    <3>1. ~Environment
      BY DEF Environment, headVars
    <3>2. ASSUME NEW d \in Client, NEW r \in Request, Begin(d, r) PROVE FALSE
      BY <3>2, <2>a DEF Begin, ResolveTag, ReqTypeOK
    <3>3. ASSUME NEW d \in Client, AskStarknet(d) \/ Lookup(d) \/ Query(d) \/ Fail(d) PROVE FALSE
      BY <3>3 DEF AskStarknet, StarknetHead, Lookup, Query, Fail
    <3>4. ASSUME NEW d \in Client, ReadNewestHeader(d) PROVE d = c
      BY <3>4, <2>a DEF ReadNewestHeader, NewestHeader, ReqTypeOK
    <3>5. QED
      BY <3>1, <3>2, <3>3, <3>4 DEF Next
  <2>2. Indexed # {} /\ number'[c] = TopHeader
    BY <2>1, <2>a DEF ReadNewestHeader, NewestHeader, ReqTypeOK
  <2>3. TopHeader \in Block /\ newest \in Block /\ 0 <= TopHeader
    BY <2>2, <2>a, TopHeaderStored, MaxBlockAssumption DEF ReqTypeOK, Block
  <2>4. newest <= TopHeader
    BY <2>2, <2>3, <2>a, TopHeaderStored DEF NewestStored
  <2>5. QED
    BY <2>2, <2>3, <2>4, MaxBlockAssumption DEF Block
<1>2. QED
  BY <1>1, Invariance, PTL DEF Spec, MonotonicHead

-----------------------------------------------------------------------------
(***************************************************************************)
(* Header and documents belong together: the header a request found is     *)
(* that of the block its second query asks for, and the transactions it    *)
(* answered stay in that block.  A request still under way has no answer.  *)
(***************************************************************************)
Answered(c) ==
  /\ pc[c] # "done" => answer[c].kind = "none"
  /\ ask[c].op # "tx_by_index" /\ Key(c) # [by |-> "hash", at |-> ZeroHash] =>
       /\ pc[c] = "query" => found[c] = Key(c).at
       /\ pc[c] = "done" /\ answer[c].kind = "txs" =>
            \A t \in answer[c].txs : included[t] = found[c]

(***************************************************************************)
(* What was shown of a block is in that block and still stored.            *)
(***************************************************************************)
ShownStays ==
  \A col \in Collection, n \in Block :
    \A t \in shown[col][n] : included[t] = n /\ docs[col][t] # "none"

AnswerInv == TypeOK /\ ShownStays /\ \A c \in Client : Answered(c)

LEMMA AnswerInit == Init => AnswerInv
<1> SUFFICES ASSUME Init PROVE AnswerInv
  OBVIOUS
<1>1. ShownStays
  BY DEF Init, ShownStays
<1>2. \A c \in Client : Answered(c)
  BY DEF Init, HeadInit, Answered, Nothing
<1>3. QED
  BY <1>1, <1>2, TypeInit DEF AnswerInv

(***************************************************************************)
(* What a query by Key(c) returns: the block the key names, unless it is   *)
(* the zero hash, which every pending document carries.                    *)
(***************************************************************************)
LEMMA KeyShape ==
  ASSUME ReqTypeOK, NEW c \in Client
  PROVE  /\ Key(c).by # "hash" => Key(c) = [by |-> "number", at |-> number[c]]
         /\ Key(c).by = "hash" => Key(c).at \in Block \cup {ZeroHash}
         /\ Key(c).by = "hash" /\ Key(c).at = ZeroHash => Key(c) = [by |-> "hash", at |-> ZeroHash]
<1>1. CASE ask[c].id.by = "hash"
  <2>1. ask[c] \in Request
    BY <1>1 DEF ReqTypeOK, NoRequest
  <2>2. ask[c].id \in Id
    BY <2>1 DEF Request
  <2>3. ask[c].id \in [by : {"hash"}, at : Hash]
    BY <1>1, <2>2 DEF Id
  <2>4. QED
    BY <1>1, <2>3, HashAssumption DEF Key
<1>2. CASE ask[c].id.by # "hash"
  BY <1>2 DEF Key
<1>3. QED
  BY <1>1, <1>2

LEMMA MatchesIsOfBlock ==
  ASSUME ReqTypeOK, NEW c \in Client, Key(c) # [by |-> "hash", at |-> ZeroHash],
         NEW n, NEW status, Matches(Key(c), n, status)
  PROVE  n = Key(c).at /\ status # "none"
<1>1. CASE Key(c).by = "hash"
  BY <1>1, KeyShape DEF Matches, DocHash
<1>2. CASE Key(c).by # "hash"
  BY <1>2 DEF Matches
<1>3. QED
  BY <1>1, <1>2

(***************************************************************************)
(* A request no step of which is taken keeps its answer, and what it       *)
(* answered, while transactions are taken and sealed.                      *)
(***************************************************************************)
LEMMA OthersAnswered ==
  ASSUME ReqTypeOK, NEW c \in Client, Answered(c),
         pc'[c] = pc[c], ask'[c] = ask[c], number'[c] = number[c],
         found'[c] = found[c], answer'[c] = answer[c],
         \A t \in Tx : included[t] # Never => included'[t] = included[t]
  PROVE  Answered(c)'
<1>1. Key(c)' = Key(c)
  BY DEF Key
<1>2. found[c] # Never /\ answer[c].txs \subseteq Tx
  BY MaxBlockAssumption DEF ReqTypeOK, Block, Never
<1>3. QED
  BY <1>1, <1>2 DEF Answered

LEMMA AnswerStep == AnswerInv /\ TypeOK' /\ [Next]_vars => AnswerInv'
<1> SUFFICES ASSUME AnswerInv, TypeOK', [Next]_vars PROVE AnswerInv'
  OBVIOUS
<1>a. ReqTypeOK /\ ChainTypeOK /\ ShownStays /\ \A c \in Client : Answered(c)
  BY DEF AnswerInv, TypeOK, ReqTypeOK, Place
<1>b. SUFFICES ShownStays' /\ \A c \in Client : Answered(c)'
  BY DEF AnswerInv
<1>c. ASSUME UNCHANGED <<included, docs, shown>> PROVE ShownStays'
  BY <1>a, <1>c DEF ShownStays
<1>1. CASE Environment \/ UNCHANGED vars
  <2>1. /\ \A t \in Tx : included[t] # Never => included'[t] = included[t]
        /\ \A col \in Collection, t \in Tx : docs[col][t] # "none" => docs'[col][t] # "none"
    BY <1>1, <1>a, DocsGrow DEF Environment, vars, chainVars
  <2>2. UNCHANGED <<pc, ask, number, found, answer, shown>>
    BY <1>1 DEF Environment, vars, headVars
  <2>3. ShownStays'
    <3>1. \A n \in Block : n # Never
      BY MaxBlockAssumption DEF Block, Never
    <3>2. \A col \in Collection, n \in Block : shown[col][n] \subseteq Tx
      BY <1>a DEF ReqTypeOK
    <3>3. QED
      BY <1>a, <2>1, <2>2, <3>1, <3>2 DEF ShownStays
  <2>4. QED
    BY <1>a, <2>1, <2>2, <2>3, OthersAnswered
<1>2. ASSUME NEW c \in Client, NEW r \in Request, Begin(c, r)
      PROVE  ShownStays' /\ \A d \in Client : Answered(d)'
  <2>1. UNCHANGED <<included, docs, shown, found>>
    BY <1>2 DEF Begin, chainVars
  <2>2. \A d \in Client \ {c} : Answered(d)'
    BY <1>2, <1>a, <2>1, OthersAnswered DEF Begin, ResolveTag, ReqTypeOK
  <2>3. ask'[c] = r /\ answer'[c].kind = "none"
    BY <1>2, <1>a DEF Begin, ReqTypeOK, Nothing
  <2>4. pc'[c] = "query" => r.op = "tx_by_index"
    <3>1. pc'[c] = AfterNumber(r.op) \/ pc'[c] = "newest"
      BY <1>2, <1>a DEF Begin, ResolveTag, ReqTypeOK
    <3>2. QED
      BY <3>1 DEF AfterNumber
  <2>5. Answered(c)'
    BY <2>3, <2>4 DEF Answered
  <2>6. QED
    BY <1>c, <2>1, <2>2, <2>5
<1>3. ASSUME NEW c \in Client, ReadNewestHeader(c) \/ AskStarknet(c)
      PROVE  ShownStays' /\ \A d \in Client : Answered(d)'
  <2>1. UNCHANGED <<included, docs, shown, found, ask>> /\ pc[c] \in {"newest", "fallback"}
    BY <1>3 DEF ReadNewestHeader, AskStarknet, NewestHeader, StarknetHead, NumberKnown, chainVars
  <2>2. \A d \in Client \ {c} : Answered(d)'
    <3>1. ASSUME NEW d \in Client \ {c}
          PROVE  pc'[d] = pc[d] /\ number'[d] = number[d] /\ answer'[d] = answer[d]
      BY <1>3, <1>a
      DEF ReadNewestHeader, AskStarknet, NewestHeader, StarknetHead, NumberKnown, ReqTypeOK
    <3>2. QED
      BY <1>a, <2>1, <3>1, OthersAnswered
  <2>3. answer[c].kind = "none"
    BY <1>a, <2>1 DEF Answered
  <2>4. pc'[c] = "fallback" \/ pc'[c] = AfterNumber(ask[c].op)
    BY <1>3, <1>a
    DEF ReadNewestHeader, AskStarknet, NewestHeader, StarknetHead, ReqTypeOK
  <2>5. answer'[c].kind = IF ask[c].op = "block_number" /\ pc'[c] = "done"
                            THEN "number" ELSE answer[c].kind
    BY <1>3, <1>a DEF ReadNewestHeader, AskStarknet, NumberKnown, ReqTypeOK
  <2>6. Answered(c)'
    BY <2>1, <2>3, <2>4, <2>5 DEF Answered, AfterNumber
  <2>7. QED
    BY <1>c, <2>1, <2>2, <2>6
<1>4. ASSUME NEW c \in Client, Lookup(c)
      PROVE  ShownStays' /\ \A d \in Client : Answered(d)'
  <2>1. UNCHANGED <<included, docs, shown, ask, number>> /\ pc[c] = "lookup"
    BY <1>4 DEF Lookup, chainVars
  <2>2. \A d \in Client \ {c} : Answered(d)'
    <3>1. ASSUME NEW d \in Client \ {c}
          PROVE  pc'[d] = pc[d] /\ found'[d] = found[d] /\ answer'[d] = answer[d]
      BY <1>4, <1>a DEF Lookup, ReqTypeOK
    <3>2. QED
      BY <1>a, <2>1, <3>1, OthersAnswered
  <2>3. Key(c)' = Key(c)
    BY <2>1 DEF Key
  <2>4. answer[c].kind = "none"
    BY <1>a, <2>1 DEF Answered
  <2>5. CASE \E n \in Block : /\ Matches(Key(c), n, headers[n])
                             /\ found' = [found EXCEPT ![c] = n]
                             /\ pc' = [pc EXCEPT ![c] = "query"]
                             /\ UNCHANGED answer
    <3>1. PICK n \in Block : /\ Matches(Key(c), n, headers[n])
                             /\ found' = [found EXCEPT ![c] = n]
                             /\ pc' = [pc EXCEPT ![c] = "query"]
                             /\ UNCHANGED answer
      BY <2>5
    <3>2. found'[c] = n /\ pc'[c] = "query"
      BY <1>a, <3>1 DEF ReqTypeOK
    <3>3. Key(c) # [by |-> "hash", at |-> ZeroHash] => n = Key(c).at
      BY <1>a, <3>1, MatchesIsOfBlock
    <3>4. Answered(c)'
      BY <2>1, <2>3, <2>4, <3>1, <3>2, <3>3 DEF Answered
    <3>5. QED
      BY <1>c, <2>1, <2>2, <3>4
  <2>6. CASE answer' = [answer EXCEPT ![c] = Nothing("null")] /\ pc' = [pc EXCEPT ![c] = "done"]
    <3>1. answer'[c].kind = "null" /\ pc'[c] = "done"
      BY <1>a, <2>6 DEF ReqTypeOK, Nothing
    <3>2. Answered(c)'
      BY <3>1 DEF Answered
    <3>3. QED
      BY <1>c, <2>1, <2>2, <3>2
  <2>7. QED
    BY <1>4, <2>5, <2>6 DEF Lookup
<1>5. ASSUME NEW c \in Client, Query(c)
      PROVE  ShownStays' /\ \A d \in Client : Answered(d)'
  <2>1. /\ UNCHANGED <<included, docs, ask, number, found>>
        /\ pc[c] = "query" /\ pc' = [pc EXCEPT ![c] = "done"]
    BY <1>5 DEF Query, chainVars
  <2>2. PICK txs \in SUBSET Hits(c) :
          \/ answer' = [answer EXCEPT ![c] = Nothing("error")] /\ shown' = shown
          \/ /\ answer' = [answer EXCEPT ![c] = [kind |-> "txs", txs |-> txs]]
             /\ shown' = IF Key(c).by = "number"
                           THEN [shown EXCEPT ![CollectionOf(ask[c].op)][number[c]] = @ \cup txs]
                           ELSE shown
    BY <1>5 DEF Query
  <2>3. \A d \in Client \ {c} : Answered(d)'
    <3>1. ASSUME NEW d \in Client \ {c} PROVE pc'[d] = pc[d] /\ answer'[d] = answer[d]
      BY <1>a, <2>1, <2>2 DEF ReqTypeOK
    <3>2. QED
      BY <1>a, <2>1, <3>1, OthersAnswered
  <2>4. Key(c)' = Key(c) /\ pc'[c] = "done"
    BY <1>a, <2>1 DEF Key, ReqTypeOK
  <2>5. Key(c) # [by |-> "hash", at |-> ZeroHash] => \A t \in Hits(c) :
          included[t] = Key(c).at /\ docs[CollectionOf(ask[c].op)][t] # "none"
    BY <1>a, MatchesIsOfBlock DEF Hits
  <2>6. Answered(c)'
    <3>1. \/ answer'[c].kind = "error"
          \/ answer'[c].kind = "txs" /\ answer'[c].txs = txs
      BY <1>a, <2>2 DEF ReqTypeOK, Nothing
    <3>2. ask[c].op # "tx_by_index" /\ Key(c) # [by |-> "hash", at |-> ZeroHash] =>
            found[c] = Key(c).at
      BY <1>a, <2>1 DEF Answered
    <3>3. QED
      BY <2>1, <2>2, <2>4, <2>5, <3>1, <3>2 DEF Answered
  <2>7. ShownStays'
    <3>1. CASE shown' = shown
      BY <1>c, <2>1, <3>1
    <3>2. CASE Key(c).by = "number"
               /\ shown' = [shown EXCEPT ![CollectionOf(ask[c].op)][number[c]] = @ \cup txs]
      <4>1. Key(c) = [by |-> "number", at |-> number[c]]
        BY <1>a, <3>2, KeyShape
      <4>2. \A t \in txs : included[t] = number[c] /\ docs[CollectionOf(ask[c].op)][t] # "none"
        BY <2>2, <2>5, <4>1
      <4>3. \A col \in Collection, n \in Block :
              shown'[col][n] = IF col = CollectionOf(ask[c].op) /\ n = number[c]
                                 THEN shown[col][n] \cup txs ELSE shown[col][n]
        BY <1>a, <3>2 DEF ReqTypeOK
      <4>4. ASSUME NEW col \in Collection, NEW n \in Block, NEW t \in shown'[col][n]
            PROVE  included'[t] = n /\ docs'[col][t] # "none"
        <5>1. t \in shown[col][n]
                \/ (t \in txs /\ col = CollectionOf(ask[c].op) /\ n = number[c])
          BY <4>3, <4>4
        <5>2. included[t] = n /\ docs[col][t] # "none"
          BY <1>a, <4>2, <5>1 DEF ShownStays
        <5>3. QED
          BY <2>1, <5>2
      <4>5. QED
        BY <4>4 DEF ShownStays
    <3>3. QED
      BY <2>2, <3>1, <3>2
  <2>8. QED
    BY <2>3, <2>6, <2>7
<1>6. ASSUME NEW c \in Client, Fail(c)
      PROVE  ShownStays' /\ \A d \in Client : Answered(d)'
  <2>1. UNCHANGED <<included, docs, shown, ask, number, found>>
    BY <1>6 DEF Fail, chainVars
  <2>2. \A d \in Client \ {c} : Answered(d)'
    BY <1>6, <1>a, <2>1, OthersAnswered DEF Fail, ReqTypeOK
  <2>3. answer'[c].kind = "error" /\ pc'[c] = "done"
    BY <1>6, <1>a DEF Fail, ReqTypeOK, Nothing
  <2>4. Answered(c)'
    BY <2>3 DEF Answered
  <2>5. QED
    BY <1>c, <2>1, <2>2, <2>4
<1>7. QED
  BY <1>1, <1>2, <1>3, <1>4, <1>5, <1>6 DEF Next

LEMMA AnswerInvariance == Spec => []AnswerInv
  BY Typing, AnswerInit, AnswerStep, PTL DEF Spec

(***************************************************************************)
(* HeaderAndTxsAgree: the header of one block is never paired with the     *)
(* transactions or receipts of another, although the two are read by two   *)
(* queries between which the chain and the index move on.                  *)
(***************************************************************************)
THEOREM HeadersFitTxs == Spec => []HeaderAndTxsAgree
<1>1. AnswerInv => HeaderAndTxsAgree
  BY DEF AnswerInv, Answered, HeaderAndTxsAgree
<1>2. QED
  BY <1>1, AnswerInvariance, PTL

-----------------------------------------------------------------------------
(***************************************************************************)
(* The one step that gives a request at its second query the documents of  *)
(* a block is that query of its own.                                       *)
(***************************************************************************)
LEMMA AnsweredByQuery ==
  ASSUME ReqTypeOK, NEW c \in Client, Answered(c), [Next]_vars,
         pc[c] = "query", answer'[c].kind = "txs"
  PROVE  Query(c)
<1>1. answer[c].kind = "none"
  BY DEF Answered
<1>2. ~Environment /\ ~UNCHANGED vars
  BY <1>1 DEF Environment, vars
<1>3. ASSUME NEW d \in Client, NEW r \in Request, Begin(d, r) PROVE FALSE
  BY <1>1, <1>3 DEF Begin, ReqTypeOK, Nothing
<1>4. ASSUME NEW d \in Client, ReadNewestHeader(d) \/ AskStarknet(d) PROVE FALSE
  BY <1>1, <1>4 DEF ReadNewestHeader, AskStarknet, NumberKnown, ReqTypeOK
<1>5. ASSUME NEW d \in Client, Lookup(d) \/ Fail(d) PROVE FALSE
  <2>1. \/ answer' = answer
        \/ \E kind \in {"null", "error"} : answer' = [answer EXCEPT ![d] = Nothing(kind)]
    BY <1>5 DEF Lookup, Fail
  <2>2. \A kind : Nothing(kind).kind = kind
    BY DEF Nothing
  <2>3. answer \in [Client -> [kind : AnswerKind, txs : SUBSET Tx]]
    BY DEF ReqTypeOK
  <2>4. answer'[c].kind \in {answer[c].kind, "null", "error"}
    BY <2>1, <2>2, <2>3
  <2>5. QED
    BY <1>1, <2>4
<1>6. ASSUME NEW d \in Client, Query(d) PROVE d = c
  BY <1>1, <1>6 DEF Query, ReqTypeOK, Nothing
<1>7. QED
  BY <1>2, <1>3, <1>4, <1>5, <1>6 DEF Next

LEMMA QueryAnswersHits ==
  ASSUME ReqTypeOK, NEW c \in Client, Query(c),
         answer'[c].kind = "txs", ask[c].op # "tx_by_index"
  PROVE  answer'[c].txs = Hits(c)
  BY DEF Query, ReqTypeOK, Nothing

(***************************************************************************)
(* MonotonicBlock: nothing a request by number returned of a block is      *)
(* missing from the answer of a later one.                                 *)
(***************************************************************************)
THEOREM BlockReadsMonotonic == Spec => MonotonicBlock
<1> DEFINE Kept == \A c \in Client :
             /\ pc[c] = "query"
             /\ answer'[c].kind = "txs"
             /\ ask[c].op # "tx_by_index"
             /\ Key(c).by = "number"
             => shown[CollectionOf(ask[c].op)][number[c]] \subseteq answer'[c].txs
<1>1. AnswerInv /\ [Next]_vars => [Kept]_vars
  <2> SUFFICES ASSUME AnswerInv, [Next]_vars, NEW c \in Client,
                      pc[c] = "query", answer'[c].kind = "txs",
                      ask[c].op # "tx_by_index", Key(c).by = "number"
               PROVE  shown[CollectionOf(ask[c].op)][number[c]] \subseteq answer'[c].txs
    OBVIOUS
  <2>a. ReqTypeOK /\ ShownStays /\ Answered(c)
    BY DEF AnswerInv, TypeOK, ReqTypeOK, Place
  <2>1. answer'[c].txs = Hits(c)
    BY <2>a, AnsweredByQuery, QueryAnswersHits
  <2>2. CollectionOf(ask[c].op) \in Collection /\ number[c] \in Block
    BY <2>a, CollectionAssumption DEF CollectionOf, ReqTypeOK
  <2>3. Key(c) = [by |-> "number", at |-> number[c]]
    BY <2>a, KeyShape
  <2>4. ASSUME NEW t \in shown[CollectionOf(ask[c].op)][number[c]] PROVE t \in Hits(c)
    <3>1. t \in Tx /\ included[t] = number[c] /\ docs[CollectionOf(ask[c].op)][t] # "none"
      BY <2>a, <2>2, <2>4 DEF ShownStays, ReqTypeOK
    <3>2. QED
      BY <2>3, <3>1 DEF Hits, Matches
  <2>5. QED
    BY <2>1, <2>4
<1>2. QED
  BY <1>1, AnswerInvariance, PTL DEF Spec, MonotonicBlock

(***************************************************************************)
(* StoredBlockIsWhole: of a block the indexer has stored, a request by     *)
(* number, tag or hash returns every document, and no other.               *)
(***************************************************************************)
THEOREM StoredBlocksAreWhole == Spec => StoredBlockIsWhole
<1> DEFINE Whole == \A c \in Client :
             /\ pc[c] = "query"
             /\ answer'[c].kind = "txs"
             /\ ask[c].op # "tx_by_index"
             /\ Key(c).at \in Block
             /\ Stored(Key(c).at)
             => answer'[c].txs = {t \in Tx : included[t] = Key(c).at}
<1>1. AnswerInv /\ [Next]_vars => [Whole]_vars
  <2> SUFFICES ASSUME AnswerInv, [Next]_vars, NEW c \in Client,
                      pc[c] = "query", answer'[c].kind = "txs", ask[c].op # "tx_by_index",
                      Key(c).at \in Block, Stored(Key(c).at)
               PROVE  answer'[c].txs = {t \in Tx : included[t] = Key(c).at}
    OBVIOUS
  <2>a. ReqTypeOK /\ Answered(c)
    BY DEF AnswerInv, TypeOK, ReqTypeOK, Place
  <2>1. answer'[c].txs = Hits(c)
    BY <2>a, AnsweredByQuery, QueryAnswersHits
  <2>2. CollectionOf(ask[c].op) \in Collection
    BY CollectionAssumption DEF CollectionOf
  <2>3. ASSUME NEW t \in Tx, included[t] = Key(c).at PROVE t \in Hits(c)
    <3>1. docs[CollectionOf(ask[c].op)][t] = "sealed"
      BY <2>2, <2>3 DEF Stored
    <3>2. QED
      BY <2>3, <3>1 DEF Hits, Matches, DocHash
  <2>4. ASSUME NEW t \in Hits(c) PROVE t \in Tx /\ included[t] = Key(c).at
    <3>1. Key(c) # [by |-> "hash", at |-> ZeroHash]
      BY MaxBlockAssumption DEF Block, ZeroHash
    <3>2. QED
      BY <2>a, <2>4, <3>1, MatchesIsOfBlock DEF Hits
  <2>5. QED
    BY <2>1, <2>3, <2>4
<1>2. QED
  BY <1>1, AnswerInvariance, PTL DEF Spec, StoredBlockIsWhole
=============================================================================
