------------------------- MODULE RangeReads_proofs -------------------------
(***************************************************************************)
(* What a request for a range of blocks may rely on, for any number of     *)
(* clients, blocks and transactions, any width of u64 and any bounds asked *)
(* for.  The argument: the block of a stored log is fixed, stored logs and *)
(* headers stay, so what was there when get_logs was called lies at or     *)
(* below every number it can be clamped to.                                *)
(***************************************************************************)
EXTENDS RangeReads, LogFilter, Chain_proofs, FiniteSetTheorems, SequenceTheorems

Place == {"idle", "newest", "fallback", "query", "done"}

ReqTypeOK ==
  /\ pc \in [Client -> Place]
  /\ number \in [Client -> 0..U64Max]
  /\ viaHeader \in [Client -> BOOLEAN]
  /\ newest \in Block
  /\ ask \in [Client -> Request \cup {NoRequest}]
  /\ answer \in [Client -> Answer]
  /\ due \in [Client -> SUBSET Tx]

LEMMA TypeIs == TypeOK <=> ChainTypeOK /\ ReqTypeOK
  BY DEF TypeOK, ReqTypeOK, Place

LEMMA BlocksFit == Block \subseteq 0..U64Max /\ Block \subseteq Nat
  BY MaxBlockAssumption, U64Assumption DEF Block

(***************************************************************************)
(* The highest header is one of those stored.                              *)
(***************************************************************************)
LEMMA TopHeaderStored ==
  ASSUME Indexed # {}
  PROVE  /\ TopHeader \in Block
         /\ headers[TopHeader] # "none"
         /\ \A n \in Block : headers[n] # "none" => n <= TopHeader
<1>1. PICK n \in Indexed : \A m \in Indexed : m <= n
  BY HighestBlock DEF Indexed
<1>2. TopHeader \in Indexed /\ \A m \in Indexed : m <= TopHeader
  BY <1>1 DEF TopHeader
<1>3. QED
  BY <1>2 DEF Indexed

(***************************************************************************)
(* The window of a fee history has the block asked for in it and starts    *)
(* where its count allows, but one early when that block is u64::MAX.      *)
(***************************************************************************)
LEMMA Window ==
  ASSUME NEW c \in Client, number[c] \in 0..U64Max, ask[c].count \in 0..U64Max
  PROVE  /\ StartBlock(c) \in 0..U64Max
         /\ ask[c].count > 0 => StartBlock(c) <= number[c]
         /\ \/ number[c] - ask[c].count < StartBlock(c)
            \/ number[c] = U64Max /\ StartBlock(c) = number[c] - ask[c].count
  BY U64Assumption DEF StartBlock, SaturatingAdd, SaturatingSub

(***************************************************************************)
(* The requests, and the numbers in them.                                  *)
(***************************************************************************)
LEMMA BoundShape ==
  ASSUME NEW b \in Bound
  PROVE  b.at \in 0..U64Max
<1>1. ASSUME NEW by, b \in [by : by, at : Number] \/ b \in [by : by, at : {0}]
      PROVE  b.at \in Number \cup {0}
  BY <1>1
<1>2. b.at \in Number \cup {0}
  BY <1>1 DEF Bound, Id
<1>3. Number \subseteq 0..U64Max
  BY RangeAssumption
<1>4. 0 \in 0..U64Max
  BY U64Assumption
<1>5. QED
  BY <1>2, <1>3, <1>4

LEMMA FeeShape ==
  ASSUME NEW r \in FeeRequest
  PROVE  r.op = "fees" /\ r.count \in 0..U64Max /\ r.id.at \in 0..U64Max
<1>1. r.id \in Id /\ r.op = "fees" /\ r.count \in Count
  BY DEF FeeRequest
<1>2. r.id.at \in 0..U64Max
  BY <1>1, BoundShape DEF Bound
<1>3. QED
  BY <1>1, <1>2, RangeAssumption

LEMMA LogShape ==
  ASSUME NEW r \in LogRequest
  PROVE  /\ r.op = "logs" /\ r.filter \in Filter
         /\ r.from \in Bound /\ r.to \in Bound
         /\ r.from.at \in 0..U64Max /\ r.to.at \in 0..U64Max
<1>1. r.op = "logs" /\ r.filter \in Filter /\ r.from \in Bound /\ r.to \in Bound
  BY DEF LogRequest
<1>2. QED
  BY <1>1, BoundShape

LEMMA AskShape ==
  ASSUME ReqTypeOK, NEW c \in Client
  PROVE  /\ ask[c].op = "fees" => ask[c] \in FeeRequest
         /\ ask[c].op = "logs" => ask[c] \in LogRequest
<1>1. ask[c] \in Request \cup {NoRequest}
  BY DEF ReqTypeOK
<1>2. ASSUME ask[c] \in FeeRequest PROVE ask[c].op = "fees"
  BY <1>2, FeeShape
<1>3. ASSUME ask[c] \in LogRequest PROVE ask[c].op = "logs"
  BY <1>3, LogShape
<1>4. ASSUME ask[c] = NoRequest PROVE ask[c].op = "none"
  BY <1>4 DEF NoRequest
<1>5. QED
  BY <1>1, <1>2, <1>3, <1>4 DEF Request

-----------------------------------------------------------------------------
(***************************************************************************)
(* The answers are answers.                                                *)
(***************************************************************************)
LEMMA NothingTyped ==
  ASSUME NEW kind \in {"none", "fees", "logs", "empty", "not_found", "error"}
  PROVE  Nothing(kind) \in Answer
<1>1. 0 \in 0..U64Max /\ <<>> \in Seq(Block)
  BY U64Assumption
<1>2. QED
  BY <1>1 DEF Nothing, Answer

(***************************************************************************)
(* A listing has as many entries as the set has members, and all of them.  *)
(***************************************************************************)
LEMMA ListingIs ==
  ASSUME NEW S \in SUBSET Block, NEW list \in Listings(S)
  PROVE  /\ list \in Seq(Block)
         /\ Len(list) = Cardinality(S)
         /\ {list[i] : i \in 1..Len(list)} = S
<1>1. IsFiniteSet(Block)
  BY MaxBlockAssumption, FS_Interval DEF Block
<1>2. IsFiniteSet(S) /\ Cardinality(S) \in Nat
  BY <1>1, FS_Subset, FS_CardinalityType
<1>3. /\ list \in [1..Cardinality(S) -> S]
      /\ \A n \in S : \E i \in 1..Cardinality(S) : list[i] = n
  BY DEF Listings
<1>4. list \in Seq(S) /\ list \in Seq(Block) /\ Len(list) = Cardinality(S)
  BY <1>2, <1>3
<1>5. QED
  BY <1>3, <1>4

LEMMA TypeInit == Init => TypeOK
<1> SUFFICES ASSUME Init PROVE TypeOK
  OBVIOUS
<1>1. ChainTypeOK
  BY ChainTypeInit DEF Init
<1>2. 0 \in Block /\ 0 \in 0..U64Max
  BY MaxBlockAssumption, U64Assumption DEF Block
<1>3. Nothing("none") \in Answer
  BY NothingTyped
<1>4. ReqTypeOK
  BY <1>2, <1>3 DEF Init, HeadInit, ReqTypeOK, Place
<1>5. QED
  BY <1>1, <1>4, TypeIs

LEMMA TypeStep == TypeOK /\ [Next]_vars => TypeOK'
<1> SUFFICES ASSUME TypeOK, [Next]_vars PROVE TypeOK'
  OBVIOUS
<1>a. ReqTypeOK /\ ChainTypeOK
  BY TypeIs
<1>b. SUFFICES ReqTypeOK' /\ ChainTypeOK'
  BY DEF TypeOK, ReqTypeOK, Place
<1>d. ASSUME UNCHANGED chainVars PROVE ChainTypeOK'
  BY <1>a, <1>d DEF chainVars, ChainTypeOK
<1>1. CASE Environment
  <2>1. ChainTypeOK'
    BY <1>1, <1>a, ChainTypeStep DEF Environment
  <2>2. ReqTypeOK'
    BY <1>1, <1>a DEF Environment, headVars, ReqTypeOK
  <2>3. QED
    BY <2>1, <2>2
<1>2. ASSUME NEW c \in Client, NEW r \in FeeRequest, BeginFees(c, r)
      PROVE  ReqTypeOK' /\ ChainTypeOK'
  <2>1. /\ ChainTypeOK' /\ newest' = newest
        /\ due' = [due EXCEPT ![c] = {}] /\ ask' = [ask EXCEPT ![c] = r]
    BY <1>2, <1>d DEF BeginFees, ResolveTag
  <2>2. pc' \in [Client -> Place]
    BY <1>2, <1>a DEF BeginFees, ResolveTag, ReqTypeOK, Place
  <2>3. number' \in [Client -> 0..U64Max] /\ viaHeader' \in [Client -> BOOLEAN]
    <3>1. 0 \in 0..U64Max
      BY U64Assumption
    <3>2. QED
      BY <1>2, <1>a, <3>1, FeeShape DEF BeginFees, ResolveTag, ReqTypeOK
  <2>4. answer' \in [Client -> Answer]
    <3>1. Nothing("fees") \in Answer /\ Nothing("none") \in Answer
      BY NothingTyped
    <3>2. QED
      BY <1>2, <1>a, <3>1 DEF BeginFees, ReqTypeOK
  <2>5. ask' \in [Client -> Request \cup {NoRequest}] /\ due' \in [Client -> SUBSET Tx]
    BY <2>1, <1>a DEF ReqTypeOK, Request
  <2>6. QED
    BY <1>a, <2>1, <2>2, <2>3, <2>4, <2>5 DEF ReqTypeOK
<1>3. ASSUME NEW c \in Client, NEW r \in LogRequest, BeginLogs(c, r)
      PROVE  ReqTypeOK' /\ ChainTypeOK'
  <2>1. ChainTypeOK' /\ newest' = newest
    BY <1>3, <1>d DEF BeginLogs, ResolveTag
  <2>2. pc' \in [Client -> Place] /\ viaHeader' \in [Client -> BOOLEAN]
    BY <1>3, <1>a DEF BeginLogs, ResolveTag, ReqTypeOK, Place
  <2>3. number' \in [Client -> 0..U64Max]
    BY <1>3, <1>a, U64Assumption DEF BeginLogs, ResolveTag, ReqTypeOK
  <2>4. answer' \in [Client -> Answer]
    <3>1. Nothing("none") \in Answer
      BY NothingTyped
    <3>2. QED
      BY <1>3, <1>a, <3>1 DEF BeginLogs, ReqTypeOK
  <2>5. ask' \in [Client -> Request \cup {NoRequest}] /\ due' \in [Client -> SUBSET Tx]
    BY <1>3, <1>a DEF BeginLogs, ReqTypeOK, Request, StoredLogs
  <2>6. QED
    BY <1>a, <2>1, <2>2, <2>3, <2>4, <2>5 DEF ReqTypeOK
<1>4. ASSUME NEW c \in Client, ReadNewestHeader(c) \/ AskStarknet(c)
      PROVE  ReqTypeOK' /\ ChainTypeOK'
  <2>1. UNCHANGED <<ask, answer, due>> /\ ChainTypeOK'
    BY <1>4, <1>d DEF ReadNewestHeader, AskStarknet
  <2>2. \/ pc' = [pc EXCEPT ![c] = "fallback"]
        \/ pc' = [pc EXCEPT ![c] = "query"]
    BY <1>4 DEF ReadNewestHeader, AskStarknet, NewestHeader, StarknetHead
  <2>3. viaHeader' = viaHeader \/ viaHeader' = [viaHeader EXCEPT ![c] = TRUE]
    BY <1>4 DEF ReadNewestHeader, AskStarknet, NewestHeader, StarknetHead
  <2>4. newest' \in Block /\ \E n \in Block : number' \in {number, [number EXCEPT ![c] = n]}
    <3>1. CASE AskStarknet(c)
      <4>1. head \in Block
        BY <1>a, MaxBlockAssumption DEF ChainTypeOK, Block
      <4>2. number' = [number EXCEPT ![c] = head] /\ newest' = newest
        BY <3>1 DEF AskStarknet, StarknetHead
      <4>3. QED
        BY <4>1, <4>2, <1>a DEF ReqTypeOK
    <3>2. CASE ReadNewestHeader(c)
      BY <3>2, <1>a, TopHeaderStored DEF ReadNewestHeader, NewestHeader, ReqTypeOK
    <3>3. QED
      BY <1>4, <3>1, <3>2
  <2>5. number' \in [Client -> 0..U64Max]
    BY <1>a, <2>4, BlocksFit DEF ReqTypeOK
  <2>6. pc' \in [Client -> Place] /\ viaHeader' \in [Client -> BOOLEAN]
    BY <1>a, <2>2, <2>3 DEF ReqTypeOK, Place
  <2>7. QED
    BY <1>a, <2>1, <2>4, <2>5, <2>6 DEF ReqTypeOK
<1>5. ASSUME NEW c \in Client, QueryFees(c) PROVE ReqTypeOK' /\ ChainTypeOK'
  <2>1. UNCHANGED <<number, viaHeader, newest, ask, due>> /\ ChainTypeOK'
        /\ pc' = [pc EXCEPT ![c] = "done"]
    BY <1>5, <1>d DEF QueryFees
  <2>2. PICK found \in SUBSET Block :
          \/ answer' = [answer EXCEPT ![c] = Nothing("not_found")]
          \/ \E blocks \in Listings(found) :
               answer' = [answer EXCEPT ![c] = FeeAnswer(c, blocks)]
    BY <1>5 DEF QueryFees, Indexed
  <2>3. StartBlock(c) \in 0..U64Max
    BY <1>5, <1>a, Window, AskShape, FeeShape DEF QueryFees, ReqTypeOK
  <2>4. /\ Nothing("not_found") \in Answer
        /\ \A blocks \in Listings(found) : FeeAnswer(c, blocks) \in Answer
    BY <2>3, NothingTyped, ListingIs DEF FeeAnswer, Nothing, Answer
  <2>5. answer' \in [Client -> Answer]
    BY <1>a, <2>2, <2>4 DEF ReqTypeOK
  <2>6. QED
    BY <1>a, <2>1, <2>5 DEF ReqTypeOK, Place
<1>6. ASSUME NEW c \in Client, QueryLogs(c) PROVE ReqTypeOK' /\ ChainTypeOK'
  <2>1. UNCHANGED <<number, viaHeader, newest, ask, due>> /\ ChainTypeOK'
        /\ pc' = [pc EXCEPT ![c] = "done"]
    BY <1>6, <1>d DEF QueryLogs
  <2>2. PICK logs \in SUBSET Tx :
          \/ answer' = [answer EXCEPT ![c] = Nothing("empty")]
          \/ answer' = [answer EXCEPT ![c] = [Nothing("logs") EXCEPT !.logs = logs]]
    BY <1>6 DEF QueryLogs, StoredLogs
  <2>3. Nothing("empty") \in Answer /\ [Nothing("logs") EXCEPT !.logs = logs] \in Answer
    BY NothingTyped, U64Assumption DEF Nothing, Answer
  <2>4. answer' \in [Client -> Answer]
    BY <1>a, <2>2, <2>3 DEF ReqTypeOK
  <2>5. QED
    BY <1>a, <2>1, <2>4 DEF ReqTypeOK, Place
<1>7. ASSUME NEW c \in Client, Fail(c) PROVE ReqTypeOK' /\ ChainTypeOK'
  <2>1. Nothing("error") \in Answer
    BY NothingTyped
  <2>2. QED
    BY <1>7, <1>a, <1>d, <2>1 DEF Fail, ReqTypeOK, Place
<1>8. CASE UNCHANGED vars
  BY <1>8, <1>a, <1>d DEF vars, headVars, ReqTypeOK
<1>9. QED
  BY <1>1, <1>2, <1>3, <1>4, <1>5, <1>6, <1>7, <1>8 DEF Next

(***************************************************************************)
(* TypeOK: every number stays within u64, every block an answer is of is   *)
(* one of the chain.                                                       *)
(***************************************************************************)
LEMMA Typing == Spec => []TypeOK
  BY TypeInit, TypeStep, PTL DEF Spec
-----------------------------------------------------------------------------
(***************************************************************************)
(* Of the stores: a log is that of a block, and headers are stored from    *)
(* the first block on without a gap.                                       *)
(***************************************************************************)
Placed == \A t \in Tx : docs["logs"][t] # "none" => included[t] \in Block
Segment == \A n, m \in Block : headers[n] # "none" /\ m < n => headers[m] # "none"

(***************************************************************************)
(* A step of the stores or of a handler leaves what was stored where it    *)
(* was.                                                                    *)
(***************************************************************************)
Stays ==
  /\ \A t \in Tx : docs["logs"][t] # "none" =>
       docs'["logs"][t] # "none" /\ included'[t] = included[t]
  /\ \A n \in Block : headers[n] # "none" => headers'[n] # "none"

LEMMA StoresInit == Init => Placed /\ Segment
  BY RangeAssumption DEF Init, ChainInit, Placed, Segment

LEMMA StoresStep ==
  ASSUME ChainTypeOK, Placed, Segment, ChainNext
  PROVE  Placed' /\ Segment' /\ Stays
<1> USE MaxBlockAssumption, RangeAssumption DEF Block, Status
<1>1. ASSUME NEW t \in Tx, AcceptTx(t) PROVE Placed' /\ Segment' /\ Stays
  <2>1. docs' = docs /\ headers' = headers
    BY <1>1 DEF AcceptTx
  <2>2. included' = [included EXCEPT ![t] = head + 1] /\ included[t] = Never
    BY <1>1 DEF AcceptTx
  <2>3. docs["logs"][t] = "none"
    BY <2>2 DEF Placed, Never
  <2>4. included \in [Tx -> Block \cup {Never}]
    BY DEF ChainTypeOK
  <2>5. \A u \in Tx : u # t => included'[u] = included[u]
    BY <2>2, <2>4
  <2>6. QED
    BY <2>1, <2>3, <2>5 DEF Placed, Segment, Stays
<1>2. CASE SealBlock
  BY <1>2 DEF SealBlock, Placed, Segment, Stays
<1>3. ASSUME NEW n \in Block, NEW status \in Status, IndexHeader(n, status)
      PROVE  Placed' /\ Segment' /\ Stays
  <2>1. docs' = docs /\ included' = included
    BY <1>3 DEF IndexHeader
  <2>2. /\ headers' = [headers EXCEPT ![n] = status] /\ status # "none"
        /\ \A m \in Block : m < n => headers[m] = "sealed"
    BY <1>3 DEF IndexHeader, MayWrite, Stored
  <2>3. headers \in [Block -> Status]
    BY DEF ChainTypeOK
  <2>4. Segment' /\ \A m \in Block : headers[m] # "none" => headers'[m] # "none"
    BY <2>2, <2>3 DEF Segment
  <2>5. QED
    BY <2>1, <2>4 DEF Placed, Stays
<1>4. ASSUME NEW col \in Collection, NEW t \in Tx, NEW status \in Status,
             IndexDoc(col, t, status)
      PROVE  Placed' /\ Segment' /\ Stays
  <2>1. headers' = headers /\ included' = included
    BY <1>4 DEF IndexDoc
  <2>2. docs' = [docs EXCEPT ![col][t] = status] /\ status # "none" /\ included[t] <= head + 1
    BY <1>4 DEF IndexDoc, MayWrite, ChainTypeOK, Never
  <2>3. included[t] \in Block
    BY <2>2 DEF ChainTypeOK, Never
  <2>4. docs \in [Collection -> [Tx -> Status]]
    BY DEF ChainTypeOK
  <2>5. \A u \in Tx : \/ docs'["logs"][u] = docs["logs"][u]
                      \/ u = t /\ docs'["logs"][u] = status
    BY <2>2, <2>4
  <2>6. QED
    BY <2>1, <2>2, <2>3, <2>5 DEF Placed, Segment, Stays
<1>5. QED
  BY <1>1, <1>2, <1>3, <1>4 DEF ChainNext

-----------------------------------------------------------------------------
(***************************************************************************)
(* A request under way.  The logs that were there when it came are still   *)
(* there, with their headers, so it has no need of the node; and the       *)
(* number it clamps to is not below any of them.                           *)
(***************************************************************************)
Relies(c) ==
  /\ \A t \in due[c] : docs["logs"][t] # "none" /\ headers[included[t]] # "none"
  /\ pc[c] = "fallback" => due[c] = {}
  /\ pc[c] = "query" => \A t \in due[c] : included[t] <= number[c]
  /\ pc[c] \in {"newest", "fallback"} => ~viaHeader[c]
  /\ viaHeader[c] => number[c] \in Block /\ headers[number[c]] # "none"
  /\ pc[c] \in {"newest", "fallback", "query"} /\ ask[c].op = "fees" => ask[c].count > 0

(***************************************************************************)
(* Its answer.                                                             *)
(***************************************************************************)
Asked(c, t) ==
  /\ ask[c].from.by = "number" => ask[c].from.at <= included[t]
  /\ ask[c].to.by = "number" => included[t] <= ask[c].to.at

LogsRight(c) ==
  /\ answer[c].logs \subseteq Wanted[ask[c].filter]
  /\ \A t \in answer[c].logs : docs["logs"][t] # "none" /\ included[t] <= number[c] /\ Asked(c, t)
  /\ \A t \in due[c] \cap Wanted[ask[c].filter] : Asked(c, t) => t \in answer[c].logs

FeesRight(c) ==
  /\ BlocksOf(answer[c]) = answer[c].oldest .. answer[c].oldest + Len(answer[c].blocks) - 1
  /\ \A n \in BlocksOf(answer[c]) :
       /\ n <= number[c]
       /\ number[c] - ask[c].count < n \/ (number[c] = U64Max /\ n = number[c] - ask[c].count)

LatestRight(c) ==
  /\ answer[c].kind # "not_found"
  /\ answer[c].kind = "fees" => number[c] \in BlocksOf(answer[c])

Answered(c) ==
  /\ Logs(c) => LogsRight(c)
  /\ Fees(c) => FeesRight(c)
  /\ pc[c] = "done" /\ ask[c].op = "fees" /\ viaHeader[c] => LatestRight(c)

IInv == TypeOK /\ Placed /\ Segment /\ \A c \in Client : Relies(c) /\ Answered(c)

LEMMA InvInit == Init => IInv
<1> SUFFICES ASSUME Init PROVE IInv
  OBVIOUS
<1>1. \A c \in Client : Relies(c) /\ Answered(c)
  BY DEF Init, HeadInit, Relies, Answered, Logs, Fees
<1>2. QED
  BY <1>1, TypeInit, StoresInit DEF IInv

(***************************************************************************)
(* A request no step of which is taken keeps what it relies on, and its    *)
(* answer stays right.                                                     *)
(***************************************************************************)
LEMMA OthersRely ==
  ASSUME NEW c \in Client, TypeOK, Placed, Stays, Relies(c), Answered(c),
         pc'[c] = pc[c], ask'[c] = ask[c], viaHeader'[c] = viaHeader[c],
         number'[c] = number[c], answer'[c] = answer[c], due'[c] = due[c]
  PROVE  Relies(c)' /\ Answered(c)'
<1>1. due[c] \subseteq Tx /\ answer[c].logs \subseteq Tx
  BY DEF TypeOK, Answer
<1>2. \A t \in due[c] : docs'["logs"][t] # "none" /\ included'[t] = included[t]
                        /\ headers'[included[t]] # "none"
  BY <1>1 DEF Relies, Placed, Stays
<1>3. Relies(c)'
  BY <1>2 DEF Relies, Stays
<1>4. ASSUME LogsRight(c) PROVE LogsRight(c)'
  <2>1. \A t \in answer[c].logs : docs'["logs"][t] # "none" /\ included'[t] = included[t]
    BY <1>1, <1>4 DEF LogsRight, Stays
  <2>2. QED
    BY <1>2, <1>4, <2>1 DEF LogsRight, Asked
<1>5. Answered(c)'
  BY <1>4 DEF Answered, Logs, Fees, FeesRight, LatestRight, BlocksOf
<1>6. QED
  BY <1>3, <1>5

(***************************************************************************)
(* get_logs clamps and asks: the answer is what was due and no more.       *)
(***************************************************************************)
LEMMA LogsAnswer ==
  ASSUME TypeOK, Placed, NEW c \in Client, Relies(c), QueryLogs(c)
  PROVE  LogsRight(c)' /\ ask'[c].op = "logs"
<1>1. ask[c].op = "logs" /\ pc[c] = "query"
      /\ UNCHANGED <<ask, number, due, docs, included>>
  BY DEF QueryLogs, chainVars
<1>2. /\ ask[c].from.at \in 0..U64Max /\ ask[c].to.at \in 0..U64Max
      /\ number[c] \in 0..U64Max
  BY <1>1, TypeIs, AskShape, LogShape DEF ReqTypeOK
<1> DEFINE InBounds == {t \in StoredLogs \cap Wanted[ask[c].filter] :
                          FromBlock(c) <= included[t] /\ included[t] <= LastBlock(c)}
           Empty == FromBlock(c) > number[c] \/ LastBlock(c) < FromBlock(c)
<1>3. answer'[c].logs = IF Empty THEN {} ELSE InBounds
  BY TypeIs DEF QueryLogs, ReqTypeOK, Nothing
<1>4. ASSUME NEW t \in Tx, docs["logs"][t] # "none"
      PROVE  /\ FromBlock(c) <= included[t] /\ included[t] <= LastBlock(c) <=>
                  included[t] <= number[c] /\ Asked(c, t)
             /\ included[t] <= number[c] /\ Asked(c, t) => ~Empty
  <2>1. included[t] \in Nat
    BY <1>4, BlocksFit DEF Placed
  <2>2. FromBlock(c) <= included[t] <=>
          (ask[c].from.by = "number" => ask[c].from.at <= included[t])
    BY <2>1, <1>2 DEF FromBlock
  <2>3. included[t] <= LastBlock(c) <=>
          included[t] <= number[c] /\ (ask[c].to.by = "number" => included[t] <= ask[c].to.at)
    BY <2>1, <1>2 DEF LastBlock, ToBlock
  <2>4. FromBlock(c) \in Nat /\ LastBlock(c) \in Nat
    BY <1>2, U64Assumption DEF FromBlock, LastBlock, ToBlock
  <2>5. FromBlock(c) <= included[t] /\ included[t] <= LastBlock(c) /\ included[t] <= number[c]
          => ~Empty
    BY <2>1, <2>4, <1>2
  <2>6. QED
    BY <2>2, <2>3, <2>5 DEF Asked
<1>b. answer'[c].logs \subseteq Wanted[ask[c].filter]
  BY <1>3
<1>5. \A t \in answer'[c].logs : docs["logs"][t] # "none" /\ included[t] <= number[c] /\ Asked(c, t)
  BY <1>3, <1>4 DEF StoredLogs
<1>6. ASSUME NEW t \in due[c] \cap Wanted[ask[c].filter], Asked(c, t)
      PROVE  t \in answer'[c].logs
  <2>1. t \in Tx /\ docs["logs"][t] # "none" /\ included[t] <= number[c]
    BY <1>1, <1>6 DEF Relies, TypeOK
  <2>2. QED
    BY <1>3, <1>4, <1>6, <2>1 DEF StoredLogs
<1> HIDE DEF InBounds, Empty
<1>7. LogsRight(c)'
  BY <1>1, <1>b, <1>5, <1>6 DEF LogsRight, Asked
<1>8. QED
  BY <1>1, <1>7

(***************************************************************************)
(* fee_history: what it finds is an interval, as the headers are.          *)
(***************************************************************************)
LEMMA FeesAnswer ==
  ASSUME TypeOK, Segment, NEW c \in Client, Relies(c), QueryFees(c)
  PROVE  /\ answer'[c].kind \in {"fees", "not_found"}
         /\ answer'[c].kind = "fees" => FeesRight(c)'
         /\ viaHeader[c] => LatestRight(c)'
<1>1. /\ ask[c].op = "fees" /\ pc[c] = "query"
      /\ UNCHANGED <<ask, number>>
  BY DEF QueryFees
<1>2. number[c] \in 0..U64Max /\ ask[c].count \in 0..U64Max /\ ask[c].count > 0
  BY <1>1, TypeIs, AskShape, FeeShape DEF ReqTypeOK, Relies
<1> DEFINE start == StartBlock(c)
           blocks == {n \in Indexed : InRange(c, n)}
<1>3. /\ start \in 0..U64Max /\ start <= number[c]
      /\ \/ number[c] - ask[c].count < start
         \/ number[c] = U64Max /\ start = number[c] - ask[c].count
  BY <1>2, Window
<1>4. \/ blocks = {} /\ answer'[c] = Nothing("not_found")
      \/ blocks # {} /\ \E list \in Listings(blocks) : answer'[c] = FeeAnswer(c, list)
  BY TypeIs DEF QueryFees, ReqTypeOK
<1>5. \A n \in blocks :
        n \in Block /\ n \in Nat /\ start <= n /\ n <= number[c] /\ headers[n] # "none"
  BY BlocksFit DEF Indexed, InRange
<1>6. blocks \subseteq Block
  BY <1>5
<1>7. ASSUME blocks # {} PROVE blocks = start .. start + Cardinality(blocks) - 1
  <2>1. PICK top \in blocks : \A n \in blocks : n <= top
    BY <1>6, <1>7, HighestBlock
  <2>2. top \in Nat /\ start \in Nat /\ start <= top
    <3> HIDE DEF blocks, start
    <3>1. QED
      BY <1>3, <1>5, U64Assumption
  <2>3. blocks \subseteq start .. top
    <3> HIDE DEF blocks, start
    <3>1. QED
      BY <2>1, <2>2, <1>5
  <2>4. start .. top \subseteq blocks
    <3> SUFFICES ASSUME NEW n \in start .. top PROVE n \in blocks
      OBVIOUS
    <3>1. n \in Block /\ n <= top /\ top <= number[c]
      BY <1>5, <2>1, <2>2, MaxBlockAssumption DEF Block
    <3>2. headers[n] # "none"
      BY <3>1, <1>5, <2>1, <2>2, MaxBlockAssumption DEF Segment, Block
    <3>3. InRange(c, n)
      BY <3>1, <2>2, <1>2 DEF InRange
    <3>4. QED
      BY <3>1, <3>2, <3>3 DEF Indexed
  <2>5. blocks = start .. top
    BY <2>3, <2>4
  <2>6. Cardinality(start .. top) = top - start + 1
    BY <2>2, FS_Interval
  <2> HIDE DEF blocks, start
  <2>7. QED
    BY <2>2, <2>5, <2>6
<1>8. ASSUME blocks # {} PROVE FeesRight(c)'
  <2>1. /\ BlocksOf(answer[c])' = blocks /\ answer'[c].oldest = start
        /\ Len(answer'[c].blocks) = Cardinality(blocks)
    <3>1. PICK list \in Listings(blocks) : answer'[c] = FeeAnswer(c, list)
      BY <1>4, <1>8
    <3>2. answer'[c].blocks = list /\ answer'[c].oldest = start
      BY <3>1 DEF FeeAnswer, Nothing
    <3> HIDE DEF blocks, start
    <3>3. QED
      BY <1>6, <3>2, ListingIs DEF BlocksOf
  <2>2. \A n \in blocks :
          /\ n <= number[c]
          /\ \/ number[c] - ask[c].count < n
             \/ number[c] = U64Max /\ n = number[c] - ask[c].count
    <3> HIDE DEF blocks, start
    <3>1. QED
      BY <1>2, <1>3, <1>5, U64Assumption
  <2> HIDE DEF blocks, start
  <2>3. QED
    BY <1>1, <1>7, <1>8, <2>1, <2>2 DEF FeesRight
<1>9. ASSUME viaHeader[c] PROVE LatestRight(c)'
  <2>1. number[c] \in Indexed
    BY <1>9 DEF Relies, Indexed
  <2>2. InRange(c, number[c])
    BY <1>2, <1>3 DEF InRange
  <2>3. number[c] \in blocks
    BY <2>1, <2>2
  <2>4. PICK list \in Listings(blocks) : answer'[c] = FeeAnswer(c, list)
    BY <1>4, <2>3
  <2>5. answer'[c].blocks = list /\ answer'[c].kind = "fees"
    BY <2>4 DEF FeeAnswer, Nothing
  <2>6. BlocksOf(answer[c])' = blocks
    <3> HIDE DEF blocks
    <3>1. QED
      BY <1>6, <2>5, ListingIs DEF BlocksOf
  <2>7. QED
    BY <1>1, <2>3, <2>5, <2>6 DEF LatestRight
<1>10. /\ answer'[c].kind = "fees" => blocks # {}
       /\ answer'[c].kind \in {"fees", "not_found"}
  <2>1. CASE blocks = {} /\ answer'[c] = Nothing("not_found")
    BY <2>1 DEF Nothing
  <2>2. ASSUME blocks # {}, NEW list \in Listings(blocks), answer'[c] = FeeAnswer(c, list)
        PROVE  answer'[c].kind = "fees"
    <3> HIDE DEF blocks, start
    <3>1. QED
      BY <2>2 DEF FeeAnswer, Nothing
  <2> HIDE DEF blocks
  <2>3. QED
    BY <1>4, <2>1, <2>2
<1>11. QED
  BY <1>8, <1>9, <1>10
-----------------------------------------------------------------------------
LEMMA InvStep == IInv /\ TypeOK' /\ [Next]_vars => IInv'
<1> SUFFICES ASSUME IInv, TypeOK', [Next]_vars PROVE IInv'
  OBVIOUS
<1>a. /\ TypeOK /\ ReqTypeOK /\ ChainTypeOK /\ Placed /\ Segment
      /\ \A c \in Client : Relies(c) /\ Answered(c)
  BY TypeIs DEF IInv
<1>b. SUFFICES Placed' /\ Segment' /\ \A c \in Client : Relies(c)' /\ Answered(c)'
  BY DEF IInv
<1>c. ASSUME UNCHANGED chainVars PROVE Placed' /\ Segment' /\ Stays
  BY <1>a, <1>c DEF chainVars, Placed, Segment, Stays
<1>1. CASE Environment \/ UNCHANGED vars
  <2>1. Placed' /\ Segment' /\ Stays
    BY <1>1, <1>a, <1>c, StoresStep DEF Environment, vars
  <2>2. UNCHANGED <<pc, ask, viaHeader, number, answer, due>>
    BY <1>1 DEF Environment, vars, headVars
  <2>3. QED
    BY <1>a, <2>1, <2>2, OthersRely
<1>2. ASSUME NEW c \in Client, NEW r \in FeeRequest, BeginFees(c, r)
      PROVE  Placed' /\ Segment' /\ \A d \in Client : Relies(d)' /\ Answered(d)'
  <2>1. Placed' /\ Segment' /\ Stays
    BY <1>2, <1>c DEF BeginFees
  <2>2. \A d \in Client \ {c} : Relies(d)' /\ Answered(d)'
    <3>1. ASSUME NEW d \in Client \ {c}
          PROVE  /\ pc'[d] = pc[d] /\ viaHeader'[d] = viaHeader[d] /\ ask'[d] = ask[d]
                 /\ number'[d] = number[d] /\ answer'[d] = answer[d] /\ due'[d] = due[d]
      BY <1>2, <1>a DEF BeginFees, ResolveTag, ReqTypeOK
    <3>2. QED
      BY <1>a, <2>1, <3>1, OthersRely
  <2>3. ask'[c] = r /\ ~viaHeader'[c] /\ due'[c] = {}
    BY <1>2, <1>a DEF BeginFees, ResolveTag, ReqTypeOK
  <2>4. r.count > 0 \/ (r.count = 0 /\ pc'[c] = "done")
    BY <1>2, <1>a, FeeShape, U64Assumption DEF BeginFees, ReqTypeOK
  <2>5. answer'[c].kind = "none" \/ (answer'[c].kind = "fees" /\ r.count = 0)
    BY <1>2, <1>a DEF BeginFees, ReqTypeOK, Nothing
  <2>6. Relies(c)'
    BY <2>3, <2>4 DEF Relies
  <2>7. Answered(c)'
    BY <2>3, <2>5, FeeShape DEF Answered, Logs, Fees
  <2>8. QED
    BY <2>1, <2>2, <2>6, <2>7
<1>3. ASSUME NEW c \in Client, NEW r \in LogRequest, BeginLogs(c, r)
      PROVE  Placed' /\ Segment' /\ \A d \in Client : Relies(d)' /\ Answered(d)'
  <2>1. Placed' /\ Segment' /\ Stays /\ UNCHANGED <<docs, included, headers>>
    BY <1>3, <1>c DEF BeginLogs, chainVars
  <2>2. \A d \in Client \ {c} : Relies(d)' /\ Answered(d)'
    <3>1. ASSUME NEW d \in Client \ {c}
          PROVE  /\ pc'[d] = pc[d] /\ viaHeader'[d] = viaHeader[d] /\ ask'[d] = ask[d]
                 /\ number'[d] = number[d] /\ answer'[d] = answer[d] /\ due'[d] = due[d]
      BY <1>3, <1>a DEF BeginLogs, ResolveTag, ReqTypeOK
    <3>2. QED
      BY <1>a, <2>1, <3>1, OthersRely
  <2>3. /\ ask'[c] = r /\ ~viaHeader'[c] /\ pc'[c] = "newest" /\ answer'[c].kind = "none"
        /\ due'[c] = {t \in StoredLogs : headers[included[t]] # "none"}
    BY <1>3, <1>a DEF BeginLogs, ResolveTag, ReqTypeOK, Nothing
  <2>4. Relies(c)'
    BY <2>1, <2>3, LogShape DEF Relies, StoredLogs
  <2>5. Answered(c)'
    BY <2>3 DEF Answered, Logs, Fees
  <2>6. QED
    BY <2>1, <2>2, <2>4, <2>5
<1>4. ASSUME NEW c \in Client, ReadNewestHeader(c) \/ AskStarknet(c)
      PROVE  Placed' /\ Segment' /\ \A d \in Client : Relies(d)' /\ Answered(d)'
  <2>1. Placed' /\ Segment' /\ Stays /\ UNCHANGED <<docs, included, headers, ask, answer, due>>
    BY <1>4, <1>c DEF ReadNewestHeader, AskStarknet, chainVars
  <2>2. \A d \in Client \ {c} : Relies(d)' /\ Answered(d)'
    <3>1. ASSUME NEW d \in Client \ {c}
          PROVE  pc'[d] = pc[d] /\ viaHeader'[d] = viaHeader[d] /\ number'[d] = number[d]
      BY <1>4, <1>a DEF ReadNewestHeader, AskStarknet, NewestHeader, StarknetHead, ReqTypeOK
    <3>2. QED
      BY <1>a, <2>1, <3>1, OthersRely
  <2>3. pc'[c] # "done" /\ pc[c] \in {"newest", "fallback"} /\ ~viaHeader[c]
    BY <1>4, <1>a DEF ReadNewestHeader, AskStarknet, NewestHeader, StarknetHead, ReqTypeOK, Relies
  <2>4. Answered(c)'
    BY <2>3 DEF Answered, Logs, Fees
  <2>5. \A t \in due[c] : /\ docs["logs"][t] # "none" /\ headers[included[t]] # "none"
                          /\ included[t] \in Block
    BY <1>a DEF Relies, Placed, TypeOK
  <2>6. ask[c].op = "fees" => ask[c].count > 0
    BY <1>a, <2>3 DEF Relies
  <2>7. CASE AskStarknet(c)
    <3>1. pc'[c] = "query" /\ ~viaHeader'[c] /\ due[c] = {}
      BY <1>a, <2>3, <2>7 DEF AskStarknet, StarknetHead, ReqTypeOK, Relies
    <3>2. Relies(c)'
      BY <2>1, <2>6, <3>1 DEF Relies
    <3>3. QED
      BY <2>1, <2>2, <2>4, <3>2
  <2>8. CASE ReadNewestHeader(c) /\ Indexed = {}
    <3>1. pc'[c] = "fallback" /\ ~viaHeader'[c]
      BY <1>a, <2>3, <2>8 DEF ReadNewestHeader, NewestHeader, ReqTypeOK
    <3>2. due[c] = {}
      BY <2>5, <2>8 DEF Indexed
    <3>3. Relies(c)'
      BY <2>1, <2>6, <3>1, <3>2 DEF Relies
    <3>4. QED
      BY <2>1, <2>2, <2>4, <3>3
  <2>9. CASE ReadNewestHeader(c) /\ Indexed # {}
    <3>1. pc'[c] = "query" /\ number'[c] = TopHeader
      BY <1>a, <2>9 DEF ReadNewestHeader, NewestHeader, ReqTypeOK
    <3>2. \A t \in due[c] : included[t] <= TopHeader
      BY <2>5, <2>9, TopHeaderStored
    <3>3. Relies(c)'
      BY <2>1, <2>5, <2>6, <2>9, <3>1, <3>2, TopHeaderStored DEF Relies
    <3>4. QED
      BY <2>1, <2>2, <2>4, <3>3
  <2>10. QED
    BY <1>4, <2>7, <2>8, <2>9
<1>5. ASSUME NEW c \in Client, QueryFees(c) \/ QueryLogs(c) \/ Fail(c)
      PROVE  Placed' /\ Segment' /\ \A d \in Client : Relies(d)' /\ Answered(d)'
  <2>1. Placed' /\ Segment' /\ Stays
    BY <1>5, <1>c DEF QueryFees, QueryLogs, Fail
  <2>2. UNCHANGED <<docs, included, headers, ask, number, viaHeader, due>> /\ pc'[c] = "done"
    BY <1>5, <1>a DEF QueryFees, QueryLogs, Fail, chainVars, ReqTypeOK
  <2>3. \A d \in Client \ {c} : Relies(d)' /\ Answered(d)'
    <3>1. ASSUME NEW d \in Client \ {c} PROVE pc'[d] = pc[d] /\ answer'[d] = answer[d]
      BY <1>5, <1>a DEF QueryFees, QueryLogs, Fail, ReqTypeOK
    <3>2. QED
      BY <1>a, <2>1, <2>2, <3>1, OthersRely
  <2>4. Relies(c)'
    BY <1>a, <2>2 DEF Relies
  <2>5. Answered(c)'
    <3>1. CASE QueryFees(c)
      <4>1. /\ answer'[c].kind \in {"fees", "not_found"}
            /\ answer'[c].kind = "fees" => FeesRight(c)'
            /\ viaHeader[c] => LatestRight(c)'
        BY <3>1, <1>a, FeesAnswer
      <4>2. QED
        BY <2>2, <4>1 DEF Answered, Logs, Fees
    <3>2. CASE QueryLogs(c)
      <4>1. LogsRight(c)' /\ ask'[c].op = "logs"
        BY <3>2, <1>a, LogsAnswer
      <4>2. answer'[c].kind \in {"logs", "empty"}
        BY <3>2, <1>a DEF QueryLogs, Nothing, ReqTypeOK
      <4>3. QED
        BY <4>1, <4>2 DEF Answered, Fees
    <3>3. CASE Fail(c)
      <4>1. answer'[c].kind = "error"
        BY <3>3, <1>a DEF Fail, Nothing, ReqTypeOK
      <4>2. QED
        BY <4>1 DEF Answered, Logs, Fees, LatestRight
    <3>4. QED
      BY <1>5, <3>1, <3>2, <3>3
  <2>6. QED
    BY <2>1, <2>3, <2>4, <2>5
<1>6. QED
  BY <1>1, <1>2, <1>3, <1>4, <1>5 DEF Next

LEMMA Invariance == Spec => []IInv
  BY Typing, InvInit, InvStep, PTL DEF Spec

(***************************************************************************)
(* What makes the clamp of get_logs right, and the code nowhere states:    *)
(* the stored headers have no gap below them, a stored log is of a block   *)
(* of the chain, and by the time the logs are read the number clamped to   *)
(* is not below any log that was due.                                      *)
(***************************************************************************)
ClampReachesDue ==
  \A c \in Client : pc[c] = "query" => \A t \in due[c] : included[t] <= number[c]

THEOREM ClampIsSafe == Spec => [](Segment /\ Placed /\ ClampReachesDue)
<1>1. IInv => Segment /\ Placed /\ ClampReachesDue
  BY DEF IInv, Relies, ClampReachesDue
<1>2. QED
  BY <1>1, Invariance, PTL

(***************************************************************************)
(* NoLogMissed: get_logs returns every log that was stored when it was     *)
(* called, matches the filter and lies between its bounds.                 *)
(***************************************************************************)
THEOREM NoneMissed == Spec => []NoLogMissed
<1>1. IInv => NoLogMissed
  BY DEF IInv, Answered, LogsRight, Asked, NoLogMissed
<1>2. QED
  BY <1>1, Invariance, PTL

(***************************************************************************)
(* LogsWithinBounds: and none the filter does not select, none outside of  *)
(* numeric bounds, none above the latest block read.                       *)
(***************************************************************************)
THEOREM NoneOutside == Spec => []LogsWithinBounds
<1>1. IInv => LogsWithinBounds
  BY DEF IInv, Answered, LogsRight, Asked, LogsWithinBounds
<1>2. QED
  BY <1>1, Invariance, PTL

(***************************************************************************)
(* FeesOfBlocksAsked: a fee history has one ratio of each block from       *)
(* oldest_block on, and of the blocks asked for, but for the one more that *)
(* u64::MAX as newest block brings in.                                     *)
(***************************************************************************)
THEOREM RatiosOfBlocksAsked == Spec => []FeesOfBlocksAsked
<1>1. IInv => FeesOfBlocksAsked
  BY DEF IInv, Answered, FeesRight, FeesOfBlocksAsked
<1>2. QED
  BY <1>1, Invariance, PTL

(***************************************************************************)
(* LatestFees: a fee history up to the latest block has that block.        *)
(***************************************************************************)
THEOREM LatestIncluded == Spec => []LatestFees
<1>1. IInv => LatestFees
  BY DEF IInv, Answered, LatestRight, LatestFees
<1>2. QED
  BY <1>1, Invariance, PTL

-----------------------------------------------------------------------------
(***************************************************************************)
(* The topics of get_logs' filter.  For a plain filter the list the code   *)
(* strings together has the topic of each position at that position.       *)
(***************************************************************************)
FilterTypes ==
  /\ filter \in [1..MaxPositions -> SUBSET Topic]
  /\ log \in Seq(Topic) /\ topics \in Seq(Topic)
  /\ position \in 0..MaxPositions
  /\ verdict \in {"none", "returned", "left out"}
Aligned ==
  /\ Len(topics) <= position
  /\ \A i \in 1..Len(topics) : filter[i] = {topics[i]}
  /\ \A i \in 1..position : i > Len(topics) => filter[i] = {}
Judged ==
  verdict # "none" =>
    /\ position = MaxPositions
    /\ verdict = "returned" <=> Slice(Len(topics)) = topics

FilterInv == FilterTypes /\ (Plain => Aligned) /\ Judged

LEMMA FilterInvInit == FilterInit => FilterInv
<1> SUFFICES ASSUME FilterInit PROVE FilterInv
  OBVIOUS
<1>1. log \in Seq(Topic)
  <2>1. PICK n \in 0..MaxPositions : log \in [1..n -> Topic]
    BY PositionsAssumption DEF FilterInit
  <2>2. QED
    BY <2>1, PositionsAssumption
<1>2. FilterTypes
  BY <1>1, PositionsAssumption DEF FilterInit, FilterTypes
<1>3. Aligned
  BY PositionsAssumption DEF FilterInit, Aligned
<1>4. QED
  BY <1>2, <1>3 DEF FilterInit, FilterInv, Judged

(***************************************************************************)
(* A set of at most one topic has one order.                               *)
(***************************************************************************)
LEMMA OrdersAre ==
  ASSUME NEW S \in SUBSET Topic, NEW order \in Orders(S)
  PROVE  /\ order \in Seq(Topic)
         /\ S = {} => order = <<>>
         /\ \A t : S = {t} => order = <<t>>
         /\ Cardinality(S) <= 1 => S = {} \/ \E t \in Topic : S = {t}
<1>1. IsFiniteSet(S) /\ Cardinality(S) \in Nat
  BY PositionsAssumption, FS_Subset, FS_CardinalityType
<1>2. order \in [1..Cardinality(S) -> S] /\ {order[i] : i \in DOMAIN order} = S
  BY DEF Orders
<1>3. order \in Seq(Topic) /\ Len(order) = Cardinality(S)
  BY <1>1, <1>2
<1>4. S = {} => order = <<>>
  BY <1>3, FS_EmptySet
<1>5. ASSUME NEW t, S = {t}
      PROVE  order = <<t>>
  <2>1. Len(order) = 1
    BY <1>3, <1>5, FS_Singleton
  <2>2. order \in [1..1 -> {t}]
    BY <1>2, <1>3, <1>5, <2>1
  <2>3. order[1] = t
    BY <2>2
  <2>4. QED
    BY <1>3, <2>1, <2>3
<1>6. Cardinality(S) <= 1 => S = {} \/ \E t \in Topic : S = {t}
  <2>1. Cardinality(S) <= 1 => Cardinality(S) = 0 \/ Cardinality(S) = 1
    BY <1>1
  <2>2. Cardinality(S) = 0 => S = {}
    BY <1>1, FS_EmptySet
  <2>3. Cardinality(S) = 1 => \E t : S = {t}
    BY <1>1, FS_Singleton
  <2>4. QED
    BY <2>1, <2>2, <2>3
<1>7. QED
  BY <1>3, <1>4, <1>5, <1>6

LEMMA FlattenKeeps == FilterInv /\ Flatten => FilterInv'
<1> SUFFICES ASSUME FilterInv, Flatten PROVE FilterInv'
  OBVIOUS
<1>0. FilterTypes
  BY DEF FilterInv
<1>a. position \in 0..MaxPositions /\ topics \in Seq(Topic)
      /\ filter \in [1..MaxPositions -> SUBSET Topic]
  BY <1>0 DEF FilterTypes
<1>b. position < MaxPositions /\ position' = position + 1
  BY DEF Flatten
<1>c. position + 1 \in 1..MaxPositions
  BY <1>a, <1>b, PositionsAssumption
<1>1. PICK next \in 1..MaxPositions : next = position + 1 /\ position' = next
  BY <1>b, <1>c
<1>2. PICK order \in Orders(filter[next]) : topics' = topics \o order
  BY <1>1 DEF Flatten
<1>3. PICK S \in SUBSET Topic : S = filter[next]
  BY <1>a
<1>4. /\ order \in Seq(Topic)
      /\ S = {} => order = <<>>
      /\ \A t : S = {t} => order = <<t>>
      /\ Cardinality(S) <= 1 => S = {} \/ \E t \in Topic : S = {t}
  BY <1>2, <1>3, OrdersAre
<1>5. UNCHANGED <<filter, log, verdict>> /\ position < MaxPositions
  BY DEF Flatten
<1>6. /\ topics \in Seq(Topic) /\ Len(topics) \in Nat
      /\ position \in 0..MaxPositions /\ position = next - 1
  BY <1>1, <1>a, LenProperties
<1>7. FilterTypes'
  <2>1. topics' \in Seq(Topic)
    BY <1>2, <1>4, <1>6
  <2>2. position' \in 0..MaxPositions
    BY <1>1, PositionsAssumption
  <2>3. QED
    BY <1>5, <2>1, <2>2 DEF FilterInv, FilterTypes
<1>8. Judged'
  BY <1>5, <1>6, PositionsAssumption DEF FilterInv, Judged
<1>9. ASSUME Plain'
      PROVE  Aligned'
  <2>1. Plain
    BY <1>5, <1>9 DEF Plain
  <2>2. /\ Len(topics) <= position
        /\ \A i \in 1..Len(topics) : filter[i] = {topics[i]}
        /\ \A i \in 1..position : i > Len(topics) => filter[i] = {}
    BY <2>1 DEF FilterInv, Aligned
  <2>3. Cardinality(S) <= 1
    BY <1>3, <2>1 DEF Plain
  <2>4. CASE S = {}
    <3>1. topics' = topics
      BY <1>2, <1>4, <1>6, <2>4, ConcatEmptySeq
    <3>2. \A i \in 1..next : i > Len(topics) => filter[i] = {}
      <4>1. \A i \in 1..next : i = next \/ i \in 1..position
        BY <1>6
      <4>2. filter[next] = {}
        BY <1>3, <2>4
      <4>3. QED
        BY <2>2, <4>1, <4>2
    <3>3. QED
      BY <1>1, <1>5, <1>6, <2>2, <3>1, <3>2 DEF Aligned
  <2>5. CASE \E t \in Topic : S = {t}
    <3>1. PICK t \in Topic : S = {t} /\ order = <<t>>
      BY <1>4, <2>5
    <3>2. Len(topics) = position
      <4>1. SUFFICES ASSUME Len(topics) < position
                     PROVE  FALSE
        BY <1>6, <2>2
      <4>2. position \in 1..MaxPositions /\ position < next /\ filter[position] = {}
        BY <1>6, <2>2, <4>1
      <4>3. filter[next] = {}
        BY <2>1, <4>2 DEF Plain
      <4>4. QED
        BY <1>3, <3>1, <4>3
    <3>3. topics' = Append(topics, t)
      BY <1>2, <1>6, <3>1, AppendIsConcat
    <3>4. /\ Len(topics') = next /\ topics'[next] = t
          /\ \A i \in 1..Len(topics) : topics'[i] = topics[i]
      BY <1>1, <1>6, <3>2, <3>3, AppendProperties
    <3>5. \A i \in 1..next : i = next \/ i \in 1..Len(topics)
      BY <1>6, <3>2
    <3>6. \A i \in 1..next : filter[i] = {topics'[i]}
      BY <1>3, <2>2, <3>1, <3>4, <3>5
    <3>7. QED
      BY <1>1, <1>5, <3>4, <3>6 DEF Aligned
  <2>6. QED
    BY <1>4, <2>3, <2>4, <2>5
<1>10. QED
  BY <1>7, <1>8, <1>9 DEF FilterInv

LEMMA FilterInvStep == FilterInv /\ [FilterNext]_filterVars => FilterInv'
<1> SUFFICES ASSUME FilterInv, [FilterNext]_filterVars PROVE FilterInv'
  OBVIOUS
<1>1. CASE Flatten
  BY <1>1, FlattenKeeps
<1>2. CASE RunQuery
  <2>1. UNCHANGED <<filter, log, position, topics>> /\ position = MaxPositions
        /\ verdict' = (IF Slice(Len(topics)) = topics THEN "returned" ELSE "left out")
    BY <1>2 DEF RunQuery
  <2>2. FilterTypes' /\ (Plain' => Aligned')
    BY <2>1 DEF FilterInv, FilterTypes, Plain, Aligned
  <2>3. Judged'
    BY <2>1 DEF Judged, Slice
  <2>4. QED
    BY <2>2, <2>3 DEF FilterInv
<1>3. CASE UNCHANGED filterVars
  BY <1>3 DEF filterVars, FilterInv, FilterTypes, Plain, Aligned, Judged, Slice
<1>4. QED
  BY <1>1, <1>2, <1>3 DEF FilterNext, Finished

(***************************************************************************)
(* What $slice leaves is the list exactly when the log begins with it.     *)
(***************************************************************************)
LEMMA SliceIs ==
  ASSUME FilterTypes
  PROVE  Slice(Len(topics)) = topics <=>
           Len(topics) <= Len(log) /\ \A i \in 1..Len(topics) : log[i] = topics[i]
<1>0. topics \in Seq(Topic) /\ log \in Seq(Topic)
  BY DEF FilterTypes
<1>1. Len(topics) \in Nat /\ Len(log) \in Nat /\ topics \in Seq(Topic) /\ log \in Seq(Topic)
  BY <1>0, LenProperties
<1>2. PICK n \in 0..Len(log) : n = IF Len(topics) < Len(log) THEN Len(topics) ELSE Len(log)
  BY <1>1
<1>3. \A i \in 1..n : log[i] \in Topic
  BY <1>1
<1>4. /\ SubSeq(log, 1, n) \in Seq(Topic)
      /\ Len(SubSeq(log, 1, n)) = IF 1 <= n THEN n - 1 + 1 ELSE 0
      /\ \A i \in 1..n - 1 + 1 : SubSeq(log, 1, n)[i] = log[1 + i - 1]
  BY <1>1, <1>2, <1>3, SubSeqProperties
<1>5. PICK slice \in Seq(Topic) : slice = SubSeq(log, 1, n)
  BY <1>4
<1>6. Len(slice) = n /\ \A i \in 1..n : slice[i] = log[i]
  BY <1>1, <1>2, <1>4, <1>5
<1>7. Slice(Len(topics)) = slice
  BY <1>2, <1>5 DEF Slice
<1>8. ASSUME slice = topics
      PROVE  Len(topics) <= Len(log) /\ \A i \in 1..Len(topics) : log[i] = topics[i]
  BY <1>1, <1>2, <1>6, <1>8
<1>9. ASSUME Len(topics) <= Len(log), \A i \in 1..Len(topics) : log[i] = topics[i]
      PROVE  slice = topics
  <2>1. n = Len(topics)
    BY <1>1, <1>2, <1>9
  <2>2. Len(slice) = Len(topics) /\ \A i \in 1..Len(topics) : slice[i] = topics[i]
    BY <1>6, <1>9, <2>1
  <2>3. QED
    BY <1>1, <2>2, SeqEqual
<1>10. QED
  BY <1>7, <1>8, <1>9

(***************************************************************************)
(* PlainFilterExact: a filter that has one topic in each of its first      *)
(* positions and none after returns the logs it asks for and no other,     *)
(* whatever its length and that of the log.                                *)
(***************************************************************************)
THEOREM PlainFiltersExact == FilterSpec => []PlainFilterExact
<1>1. FilterInv => PlainFilterExact
  <2> SUFFICES ASSUME FilterInv, Plain, verdict # "none"
               PROVE  verdict = "returned" <=> AskedFor
    BY DEF PlainFilterExact
  <2>1. /\ position = MaxPositions /\ Len(topics) <= MaxPositions
        /\ \A i \in 1..Len(topics) : filter[i] = {topics[i]}
        /\ \A i \in 1..MaxPositions : i > Len(topics) => filter[i] = {}
        /\ verdict = "returned" <=> Slice(Len(topics)) = topics
    BY DEF FilterInv, Judged, Aligned
  <2>2. Len(topics) \in Nat /\ Len(log) \in Nat /\ MaxPositions \in Nat
    <3>1. topics \in Seq(Topic) /\ log \in Seq(Topic)
      BY DEF FilterInv, FilterTypes
    <3>2. QED
      BY <3>1, PositionsAssumption, LenProperties
  <2>3. verdict = "returned" <=>
          Len(topics) <= Len(log) /\ \A i \in 1..Len(topics) : log[i] = topics[i]
    BY <2>1, SliceIs DEF FilterInv
  <2>4. \A i \in 1..MaxPositions : filter[i] # {} <=> i \in 1..Len(topics)
    BY <2>1, <2>2
  <2>5. AskedFor <=> \A i \in 1..Len(topics) : i <= Len(log) /\ log[i] = topics[i]
    BY <2>1, <2>2, <2>4 DEF AskedFor
  <2>6. (\A i \in 1..Len(topics) : i <= Len(log)) <=> Len(topics) <= Len(log)
    BY <2>2
  <2>7. QED
    BY <2>3, <2>5, <2>6
<1>2. QED
  BY <1>1, FilterInvInit, FilterInvStep, PTL DEF FilterSpec
=============================================================================
