----------------------------- MODULE RangeReads -----------------------------
(***************************************************************************)
(* The handlers of EthDataProvider that answer about a range of blocks:    *)
(* fee_history and get_logs.  Both take their bounds from a request that   *)
(* may name any 64-bit number, clamp or saturate them against the latest   *)
(* block read in a first await, and run one range query in a second.       *)
(***************************************************************************)
EXTENDS HeadNumber, Sequences

CONSTANTS U64Max,     \* u64::MAX, scaled down
          Count,      \* the block counts fee_history is asked for
          Number,     \* the block numbers either is asked for
          Filter,     \* the topic and address filters of get_logs
          Wanted      \* per filter, the transactions whose log it selects

ASSUME U64Assumption == U64Max \in Nat /\ U64Max > MaxBlock
ASSUME RangeAssumption ==
  /\ "logs" \in Collection
  /\ Count \subseteq 0..U64Max
  /\ Number \subseteq 0..U64Max
  /\ Wanted \in [Filter -> SUBSET Tx]

VARIABLES ask,     \* the request each client has in flight
          answer,  \* its result
          due      \* ghost: the logs stored, with their header, when it came

vars == <<chainVars, headVars, ask, answer, due>>

Id == [by : {"number"}, at : Number] \cup [by : {"latest", "earliest"}, at : {0}]
Bound == Id \cup [by : {"none"}, at : {0}]
FeeRequest == [op : {"fees"}, count : Count, id : Id]
LogRequest == [op : {"logs"}, from : Bound, to : Bound, filter : Filter]
Request == FeeRequest \cup LogRequest
NoRequest == [op |-> "none"]

(***************************************************************************)
(* A fee history has a list of ratios, here the blocks they are of, and    *)
(* the oldest_block it reports; an answer to get_logs the transactions     *)
(* whose log it holds.                                                     *)
(***************************************************************************)
Answer == [kind : {"none", "fees", "logs", "empty", "not_found", "error"},
           blocks : Seq(Block), oldest : 0..U64Max, logs : SUBSET Tx]
Nothing(kind) == [kind |-> kind, blocks |-> <<>>, oldest |-> 0, logs |-> {}]

BlocksOf(a) == {a.blocks[i] : i \in 1..Len(a.blocks)}

TypeOK ==
  /\ ChainTypeOK
  /\ pc \in [Client -> {"idle", "newest", "fallback", "query", "done"}]
  /\ number \in [Client -> 0..U64Max]
  /\ viaHeader \in [Client -> BOOLEAN]
  /\ newest \in Block
  /\ ask \in [Client -> Request \cup {NoRequest}]
  /\ answer \in [Client -> Answer]
  /\ due \in [Client -> SUBSET Tx]

Init ==
  /\ ChainInit
  /\ HeadInit
  /\ ask = [c \in Client |-> NoRequest]
  /\ answer = [c \in Client |-> Nothing("none")]
  /\ due = [c \in Client |-> {}]

-----------------------------------------------------------------------------
(***************************************************************************)
(* u64 arithmetic.                                                         *)
(***************************************************************************)
SaturatingAdd(a, b) == IF a + b > U64Max THEN U64Max ELSE a + b
SaturatingSub(a, b) == IF a < b THEN 0 ELSE a - b

StoredLogs == {t \in Tx : docs["logs"][t] # "none"}

BeginFees(c, r) ==
  /\ pc[c] \in {"idle", "done"}
  /\ ask' = [ask EXCEPT ![c] = r]
  /\ IF r.count = 0
       THEN /\ pc' = [pc EXCEPT ![c] = "done"]
            /\ answer' = [answer EXCEPT ![c] = Nothing("fees")]
            /\ viaHeader' = [viaHeader EXCEPT ![c] = FALSE]
            /\ UNCHANGED <<number, newest>>
       ELSE /\ ResolveTag(c, r.id, "query")
            /\ answer' = [answer EXCEPT ![c] = Nothing("none")]
  /\ due' = [due EXCEPT ![c] = {}]
  /\ UNCHANGED chainVars

(***************************************************************************)
(* get_logs asks for the latest block first, whatever its filter.          *)
(***************************************************************************)
BeginLogs(c, r) ==
  /\ pc[c] \in {"idle", "done"}
  /\ ask' = [ask EXCEPT ![c] = r]
  /\ ResolveTag(c, [by |-> "latest", at |-> 0], "query")
  /\ answer' = [answer EXCEPT ![c] = Nothing("none")]
  /\ due' = [due EXCEPT ![c] = {t \in StoredLogs : headers[included[t]] # "none"}]
  /\ UNCHANGED chainVars

ReadNewestHeader(c) == NewestHeader(c, "query") /\ UNCHANGED <<chainVars, ask, answer, due>>
AskStarknet(c) == StarknetHead(c, "query") /\ UNCHANGED <<chainVars, ask, answer, due>>

\* A mutant of StartBlock: the end block is not counted.
StartBlockEarly(c) == SaturatingSub(number[c], ask[c].count)

(***************************************************************************)
(* fee_history: [start_block, end_block] ends at the block asked for.      *)
(***************************************************************************)
StartBlock(c) == SaturatingSub(SaturatingAdd(number[c], 1), ask[c].count)

InRangeOpen(c, n) == StartBlock(c) <= n /\ n < number[c]   \* a mutant of InRange
InRange(c, n) == StartBlock(c) <= n /\ n <= number[c]

(***************************************************************************)
(* A query without a sort returns what it finds in any order.              *)
(***************************************************************************)
Listings(S) == {s \in [1..Cardinality(S) -> S] : \A n \in S : \E i \in DOMAIN s : s[i] = n}

FeeAnswer(c, blocks) == [Nothing("fees") EXCEPT !.blocks = blocks, !.oldest = StartBlock(c)]

QueryFees(c) ==
  /\ pc[c] = "query" /\ ask[c].op = "fees"
  /\ pc' = [pc EXCEPT ![c] = "done"]
  /\ LET found == {n \in Indexed : InRange(c, n)} IN
       \/ /\ found = {}
          /\ answer' = [answer EXCEPT ![c] = Nothing("not_found")]
       \/ /\ found # {}
          /\ \E blocks \in Listings(found) :
               answer' = [answer EXCEPT ![c] = FeeAnswer(c, blocks)]
  /\ UNCHANGED <<chainVars, number, viaHeader, newest, ask, due>>

(***************************************************************************)
(* get_from_block and get_to_block (external) give the bounds only when    *)
(* they are numbers; the code's defaults stand for anything else.          *)
(***************************************************************************)
FromBlock(c) == IF ask[c].from.by = "number" THEN ask[c].from.at ELSE 0
ToBlockZero(c) == IF ask[c].to.by = "number" THEN ask[c].to.at ELSE 0   \* a mutant of ToBlock
ToBlock(c) == IF ask[c].to.by = "number" THEN ask[c].to.at ELSE number[c]
LastBlockAsked(c) == ToBlock(c)   \* a mutant of LastBlock
LastBlock(c) == IF ToBlock(c) > number[c] THEN number[c] ELSE ToBlock(c)

QueryLogs(c) ==
  /\ pc[c] = "query" /\ ask[c].op = "logs"
  /\ pc' = [pc EXCEPT ![c] = "done"]
  /\ answer' = [answer EXCEPT ![c] =
       IF FromBlock(c) > number[c] \/ LastBlock(c) < FromBlock(c)
         THEN Nothing("empty")
         ELSE [Nothing("logs") EXCEPT !.logs =
                {t \in StoredLogs \cap Wanted[ask[c].filter] :
                   FromBlock(c) <= included[t] /\ included[t] <= LastBlock(c)}]]
  /\ UNCHANGED <<chainVars, number, viaHeader, newest, ask, due>>

Fail(c) ==
  /\ pc[c] \notin {"idle", "done"}
  /\ pc' = [pc EXCEPT ![c] = "done"]
  /\ answer' = [answer EXCEPT ![c] = Nothing("error")]
  /\ UNCHANGED <<chainVars, number, viaHeader, newest, ask, due>>

Environment == ChainNext /\ UNCHANGED <<headVars, ask, answer, due>>

Next ==
  \/ Environment
  \/ \E c \in Client :
       \/ \E r \in FeeRequest : BeginFees(c, r)
       \/ \E r \in LogRequest : BeginLogs(c, r)
       \/ ReadNewestHeader(c)
       \/ AskStarknet(c)
       \/ QueryFees(c)
       \/ QueryLogs(c)
       \/ Fail(c)

Spec == Init /\ [][Next]_vars

-----------------------------------------------------------------------------
Fees(c) == pc[c] = "done" /\ answer[c].kind = "fees" /\ ask[c].count > 0
Logs(c) == pc[c] = "done" /\ answer[c].kind \in {"logs", "empty"}

(***************************************************************************)
(* A fee history has one ratio of each block from oldest_block on, as many *)
(* as it lists and no other, also when the request reaches past either end *)
(* of the chain or the index grows under it; none is of a block newer than *)
(* the one asked for, and none older than the block_count blocks that end  *)
(* there.  Except with u64::MAX as the newest block, which a client may    *)
(* ask for: the saturated end_block_plus is too small by one, and one      *)
(* block more is in the window, the one before the range.  (Which ratio is *)
(* whose is not claimed: the headers are not sorted.)                      *)
(***************************************************************************)
FeesOfBlocksAsked ==
  \A c \in Client :
    Fees(c) =>
      /\ BlocksOf(answer[c]) =
           answer[c].oldest .. answer[c].oldest + Len(answer[c].blocks) - 1
      /\ \A n \in BlocksOf(answer[c]) :
           /\ n <= number[c]
           /\ number[c] - ask[c].count < n \/ (number[c] = U64Max /\ n = number[c] - ask[c].count)

(***************************************************************************)
(* A fee history up to the latest block, taken from a header, is found and *)
(* includes that block.                                                    *)
(***************************************************************************)
LatestFees ==
  \A c \in Client :
    /\ pc[c] = "done"
    /\ ask[c].op = "fees"
    /\ viaHeader[c]
    => /\ answer[c].kind # "not_found"
       /\ answer[c].kind = "fees" => number[c] \in BlocksOf(answer[c])

(***************************************************************************)
(* No log is missed: what was stored, with its header, when get_logs was   *)
(* called, is selected by the filter and lies between its bounds, is in    *)
(* the answer, although the bounds are clamped to a block number read      *)
(* after the call and before the logs.                                     *)
(***************************************************************************)
NoLogMissed ==
  \A c \in Client :
    Logs(c) =>
      \A t \in due[c] \cap Wanted[ask[c].filter] :
        /\ ask[c].from.by = "number" => ask[c].from.at <= included[t]
        /\ ask[c].to.by = "number" => included[t] <= ask[c].to.at
        => t \in answer[c].logs

(***************************************************************************)
(* Every log returned is one the filter selects, of a block no newer than  *)
(* the latest one the request read and within its numeric bounds, however  *)
(* far the index has grown when the logs are read.  (Of bounds that are    *)
(* tags LogsFromLatest speaks.)                                            *)
(***************************************************************************)
LogsWithinBounds ==
  \A c \in Client :
    Logs(c) =>
      \A t \in answer[c].logs :
        /\ t \in Wanted[ask[c].filter]
        /\ included[t] <= number[c]
        /\ ask[c].from.by = "number" => ask[c].from.at <= included[t]
        /\ ask[c].to.by = "number" => included[t] <= ask[c].to.at

(***************************************************************************)
(* get_logs "Returns the logs for the given filter": a filter from the     *)
(* latest block on has no log of an older block.                           *)
(***************************************************************************)
LogsFromLatest ==
  \A c \in Client :
    Logs(c) /\ ask[c].from.by = "latest" =>
      \A t \in answer[c].logs : number[c] <= included[t]
=============================================================================
