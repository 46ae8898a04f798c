----------------------------- MODULE BlockReads -----------------------------
(***************************************************************************)
(* The handlers of EthDataProvider that answer about one block from the    *)
(* database: block_number, block_by_hash / _by_number, the transaction     *)
(* counts, transaction_by_block_.._and_index and block_receipts.  Each is  *)
(* a chain of awaits over two stores that keep changing: the number behind *)
(* a tag, the header, then the documents of the block.  One action per     *)
(* await; nothing is locked between them.                                  *)
(***************************************************************************)
EXTENDS HeadNumber

CONSTANTS Op,        \* the methods clients call
          Hash,      \* the block hashes clients ask for; ZeroHash may be one
          Withdrawn  \* the blocks whose withdrawals root is not the empty one

VARIABLES ask,     \* the request each client has in flight
          found,   \* the number of the header it found
          answer,  \* the result of the finished request
          shown    \* ghost: per collection and block, every document that a
                   \* finished request by number returned

vars == <<chainVars, headVars, ask, found, answer, shown>>

ASSUME OpAssumption == Op \subseteq {"block_number", "block", "count", "receipts", "tx_by_index"}
ASSUME HashAssumption == Hash \subseteq Block \cup {ZeroHash}
ASSUME CollectionAssumption == {"transactions", "receipts"} \subseteq Collection

Id == [by : {"number"}, at : Block] \cup [by : {"hash"}, at : Hash]
        \cup [by : {"latest", "earliest"}, at : {0}]

NoRequest == [op |-> "block_number", id |-> [by |-> "latest", at |-> 0]]

CollectionOf(op) == IF op = "receipts" THEN "receipts" ELSE "transactions"

(***************************************************************************)
(* block_number is asked of the latest block, and block_receipts without a *)
(* block id means Latest.                                                  *)
(***************************************************************************)
Request == {r \in [op : Op, id : Id] : r.op = "block_number" => r.id.by = "latest"}

AnswerKind == {"none", "number", "null", "txs", "error"}
Nothing(kind) == [kind |-> kind, txs |-> {}]

TypeOK ==
  /\ ChainTypeOK
  /\ pc \in [Client -> {"idle", "newest", "fallback", "lookup", "query", "done"}]
  /\ number \in [Client -> Block]
  /\ viaHeader \in [Client -> BOOLEAN]
  /\ newest \in Block
  /\ ask \in [Client -> Request \cup {NoRequest}]
  /\ found \in [Client -> Block]
  /\ answer \in [Client -> [kind : AnswerKind, txs : SUBSET Tx]]
  /\ shown \in [Collection -> [Block -> SUBSET Tx]]

Init ==
  /\ ChainInit
  /\ HeadInit
  /\ ask = [c \in Client |-> NoRequest]
  /\ found = [c \in Client |-> 0]
  /\ answer = [c \in Client |-> Nothing("none")]
  /\ shown = [col \in Collection |-> [n \in Block |-> {}]]

-----------------------------------------------------------------------------
(***************************************************************************)
(* The await after the number is known: transaction_by_block_number_and_   *)
(* index queries at once, the others look the header up first.             *)
(***************************************************************************)
AfterNumber(op) ==
  CASE op = "block_number" -> "done"
    [] op = "tx_by_index"  -> "query"
    [] OTHER               -> "lookup"

Begin(c, r) ==
  /\ pc[c] \in {"idle", "done"}
  /\ ask' = [ask EXCEPT ![c] = r]
  /\ answer' = [answer EXCEPT ![c] = Nothing("none")]
  /\ IF r.id.by = "hash"
       THEN /\ pc' = [pc EXCEPT ![c] = AfterNumber(r.op)]
            /\ viaHeader' = [viaHeader EXCEPT ![c] = FALSE]
            /\ UNCHANGED <<number, newest>>
       ELSE ResolveTag(c, r.id, AfterNumber(r.op))
  /\ UNCHANGED <<chainVars, found, shown>>

(***************************************************************************)
(* block_number is answered by the number itself.                          *)
(***************************************************************************)
NumberKnown(c) ==
  /\ answer' = [answer EXCEPT ![c].kind =
                  IF ask[c].op = "block_number" /\ pc'[c] = "done" THEN "number" ELSE @]
  /\ UNCHANGED <<chainVars, ask, found, shown>>

ReadNewestHeader(c) == NewestHeader(c, AfterNumber(ask[c].op)) /\ NumberKnown(c)
AskStarknet(c) == StarknetHead(c, AfterNumber(ask[c].op)) /\ NumberKnown(c)

(***************************************************************************)
(* What the filters of the header query and of the documents' query hold.  *)
(***************************************************************************)
Key(c) == IF ask[c].id.by = "hash" THEN ask[c].id ELSE [by |-> "number", at |-> number[c]]

(***************************************************************************)
(* header() / block_exists(): without a header the answer is null.         *)
(***************************************************************************)
Lookup(c) ==
  /\ pc[c] = "lookup"
  /\ \/ \E n \in Block :
          /\ Matches(Key(c), n, headers[n])
          /\ found' = [found EXCEPT ![c] = n]
          /\ pc' = [pc EXCEPT ![c] = "query"]
          /\ UNCHANGED answer
     \/ /\ \A n \in Block : ~Matches(Key(c), n, headers[n])
        /\ answer' = [answer EXCEPT ![c] = Nothing("null")]
        /\ pc' = [pc EXCEPT ![c] = "done"]
        /\ UNCHANGED found
  /\ UNCHANGED <<chainVars, number, viaHeader, newest, ask, shown>>

\* Mutants of Hits: the query resolves the tag again, fetches one document, or
\* asks for the zero hash while the header is pending.
HitsOfTag(c) ==
  {t \in Tx : Matches(IF ask[c].id.by = "latest" THEN [by |-> "number", at |-> TopHeader] ELSE Key(c),
                     included[t], docs[CollectionOf(ask[c].op)][t])}
HitsGetOne(c) ==
  LET stored == {t \in Tx : Matches(Key(c), included[t], docs[CollectionOf(ask[c].op)][t])} IN
    {t \in stored : t = CHOOSE u \in stored : TRUE}
HitsByHash(c) ==
  {t \in Tx : Matches(IF Key(c).by = "number" /\ headers[number[c]] = "pending"
                       THEN [by |-> "hash", at |-> ZeroHash] ELSE Key(c),
                     included[t], docs[CollectionOf(ask[c].op)][t])}

Hits(c) ==
  {t \in Tx : Matches(Key(c), included[t], docs[CollectionOf(ask[c].op)][t])}

(***************************************************************************)
(* The query for the block's documents.  count answers how many there are, *)
(* tx_by_index at most one of them: the one at the index, if it is there.  *)
(***************************************************************************)
Query(c) ==
  /\ pc[c] = "query"
  /\ pc' = [pc EXCEPT ![c] = "done"]
  /\ \E txs \in SUBSET Tx :
       /\ IF ask[c].op = "tx_by_index"
            THEN txs \in {{}} \cup {{t} : t \in Hits(c)}
            ELSE txs = Hits(c)
       /\ IF ask[c].op = "block" /\ found[c] \in Withdrawn
            THEN answer' = [answer EXCEPT ![c] = Nothing("error")] /\ UNCHANGED shown
            ELSE /\ answer' = [answer EXCEPT ![c] = [kind |-> "txs", txs |-> txs]]
                 /\ shown' = IF Key(c).by = "number"
                               THEN [shown EXCEPT ![CollectionOf(ask[c].op)][number[c]] = @ \cup txs]
                               ELSE shown
  /\ UNCHANGED <<chainVars, number, viaHeader, newest, ask, found>>

(***************************************************************************)
(* Any await may fail: "?" ends the request with an error.                 *)
(***************************************************************************)
Fail(c) ==
  /\ pc[c] \notin {"idle", "done"}
  /\ pc' = [pc EXCEPT ![c] = "done"]
  /\ answer' = [answer EXCEPT ![c] = Nothing("error")]
  /\ UNCHANGED <<chainVars, number, viaHeader, newest, ask, found, shown>>

Environment == ChainNext /\ UNCHANGED <<headVars, ask, found, answer, shown>>

Next ==
  \/ Environment
  \/ \E c \in Client :
       \/ \E r \in Request : Begin(c, r)
       \/ ReadNewestHeader(c)
       \/ AskStarknet(c)
       \/ Lookup(c)
       \/ Query(c)
       \/ Fail(c)

Spec == Init /\ [][Next]_vars

-----------------------------------------------------------------------------
(***************************************************************************)
(* A request for the latest block whose number came from a header finds    *)
(* that block: between block_number() and the header lookup the database   *)
(* may grow, but the header it relied on is still there under its number,  *)
(* so null is never the answer.  (When the database was empty the number   *)
(* is Starknet's and null is possible.)                                    *)
(***************************************************************************)
LatestFound ==
  \A c \in Client : pc[c] = "done" /\ viaHeader[c] => answer[c].kind # "null"

(***************************************************************************)
(* The header and the documents of a block are read by two queries, yet an *)
(* answer never pairs the header of one block with transactions or         *)
(* receipts of another, by number, tag or the hash of a sealed block.      *)
(***************************************************************************)
HeaderAndTxsAgree ==
  \A c \in Client :
    /\ pc[c] = "done"
    /\ answer[c].kind = "txs"
    /\ ask[c].op # "tx_by_index"
    /\ Key(c) # [by |-> "hash", at |-> ZeroHash]
    => \A t \in answer[c].txs : included[t] = found[c]

(***************************************************************************)
(* Once block n is stored, a request that looked its header up afterwards  *)
(* returns every one of its documents; stated for the hash clients know it *)
(* by as well as for its number, whatever its header was when it was read. *)
(***************************************************************************)
StoredBlockIsWhole ==
  [][\A c \in Client :
       /\ pc[c] = "query"
       /\ answer'[c].kind = "txs"
       /\ ask[c].op # "tx_by_index"
       /\ Key(c).at \in Block
       /\ Stored(Key(c).at)
       => answer'[c].txs = {t \in Tx : included[t] = Key(c).at}]_vars

(***************************************************************************)
(* Reads of a block by number are monotonic: what one request has returned *)
(* of a block, a request answered later returns too, although in between   *)
(* the block goes from pending to sealed and every document of it changes  *)
(* its hash.                                                               *)
(***************************************************************************)
MonotonicBlock ==
  [][\A c \in Client :
       /\ pc[c] = "query"
       /\ answer'[c].kind = "txs"
       /\ ask[c].op # "tx_by_index"
       /\ Key(c).by = "number"
       => shown[CollectionOf(ask[c].op)][number[c]] \subseteq answer'[c].txs]_vars

(***************************************************************************)
(* The latest block never goes back: block_number() takes from the headers *)
(* a number at least as high as any it took before, for whichever client.  *)
(***************************************************************************)
MonotonicHead ==
  [][\A c \in Client :
       viaHeader'[c] /\ ~viaHeader[c] => number'[c] >= newest]_vars
=============================================================================
