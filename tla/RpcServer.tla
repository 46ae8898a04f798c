------------------------------ MODULE RpcServer ------------------------------
(***************************************************************************)
(* The server's handlers: eth, net, web3 and alchemy.  A handler answers   *)
(* by itself, refuses a method that is not supported, or awaits reads of   *)
(* the stores one after the other and turns the first error into a code.   *)
(* What the reads of a method return is the subject of BlockReads,         *)
(* RangeReads, StateReads, SendTransaction and DeployWallet.               *)
(***************************************************************************)
EXTENDS TokenBalances

VARIABLES pc,       \* per client: idle, steps, tokens or done
          kind,     \* the kind of the method called
          todo,     \* the steps its handler has yet to make
          answer,   \* the answer
          entries,  \* the answer to alchemy_getTokenBalances
          up        \* ghost: whether the node was up at some time since the call

callVars == <<pc, kind, todo, answer, entries>>
vars == <<bootVars, storeVars, tokenVars, callVars, down, up>>

(***************************************************************************)
(* The methods of the traits, but for alchemy_getTokenBalances.            *)
(***************************************************************************)
EthMethods ==
  {"eth_blockNumber", "eth_syncing", "eth_coinbase", "eth_accounts", "eth_chainId",
   "eth_getBlockByHash", "eth_getBlockByNumber", "eth_getBlockTransactionCountByHash",
   "eth_getBlockTransactionCountByNumber", "eth_getUncleCountByBlockHash",
   "eth_getUncleCountByBlockNumber", "eth_getUncleByBlockHashAndIndex",
   "eth_getUncleByBlockNumberAndIndex", "eth_getTransactionByHash",
   "eth_getTransactionByBlockHashAndIndex", "eth_getTransactionByBlockNumberAndIndex",
   "eth_getTransactionReceipt", "eth_getBalance", "eth_getStorageAt",
   "eth_getTransactionCount", "eth_getCode", "eth_getLogs", "eth_call",
   "eth_createAccessList", "eth_estimateGas", "eth_gasPrice", "eth_feeHistory",
   "eth_maxPriorityFeePerGas", "eth_blobBaseFee", "eth_mining", "eth_hashrate",
   "eth_getWork", "eth_submitHashrate", "eth_submitWork", "eth_sendTransaction",
   "eth_sendRawTransaction", "eth_sign", "eth_signTransaction", "eth_signTypedData",
   "eth_getProof", "eth_newFilter", "eth_newBlockFilter",
   "eth_newPendingTransactionFilter", "eth_uninstallFilter", "eth_getFilterChanges",
   "eth_getFilterLogs", "eth_getBlockReceipts"}
NetMethods == {"net_version", "net_peerCount", "net_listening", "net_health"}
Web3Methods == {"web3_clientVersion", "web3_sha3"}

(***************************************************************************)
(* Some answer by themselves, some are refused, the others read.           *)
(***************************************************************************)
Static ==
  {"eth_accounts", "eth_getUncleCountByBlockHash", "eth_getUncleCountByBlockNumber",
   "eth_getUncleByBlockHashAndIndex", "eth_getUncleByBlockNumberAndIndex",
   "eth_maxPriorityFeePerGas", "eth_mining", "eth_hashrate", "eth_getWork",
   "net_peerCount", "net_listening"} \cup Web3Methods
NotSupported ==
  {"eth_coinbase", "eth_createAccessList", "eth_blobBaseFee", "eth_submitHashrate",
   "eth_submitWork", "eth_sendTransaction", "eth_sign", "eth_signTransaction",
   "eth_signTypedData", "eth_getProof", "eth_newFilter", "eth_newBlockFilter",
   "eth_newPendingTransactionFilter", "eth_uninstallFilter", "eth_getFilterChanges",
   "eth_getFilterLogs"}
Reading == (EthMethods \cup NetMethods) \ (Static \cup NotSupported)

(***************************************************************************)
(* The awaits of the others, one after the other: head is block_number,    *)
(* which asks the node only for want of a header; db a query; node a       *)
(* request; contract a call of a contract on the node; check such a call   *)
(* whose failure is ignored; convert is no await, but may fail as one can. *)
(* What a handler reads, or the request it got, decides among its paths.   *)
(***************************************************************************)
Then(paths, more) == {both[1] \o both[2] : both \in paths \X more}

BlockId == {<<>>, <<"convert">>, <<"db">>}   \* a tag or none, a hash, a number
Tag == {<<>>, <<"head">>}                    \* a number, another tag
TransactionCount ==
  Then(BlockId, {<<"contract">>, <<"contract", "node">>, <<"contract", "contract">>})
CallRequest == Then(BlockId, Then({<<"convert">>}, {<<>>} \cup TransactionCount))
SendRequest ==
  Then({<<"convert", "node", "convert">>},
       IF env.hive THEN {<<"check">>, <<"check", "node">>} ELSE {<<"contract">>})
Paths(m) ==
  CASE m \in {"net_health", "eth_blockNumber"} -> {<<"head">>}
    [] m \in {"eth_syncing", "eth_chainId", "net_version"} -> {<<"node">>}
    [] m = "eth_gasPrice" -> {<<"contract">>}
    [] m \in {"eth_getTransactionByHash", "eth_getTransactionReceipt",
              "eth_getTransactionByBlockHashAndIndex"} -> {<<"db">>}
    [] m \in {"eth_getBlockByHash", "eth_getBlockTransactionCountByHash"} ->
         {<<"db">>, <<"db", "db">>}
    [] m = "eth_getTransactionByBlockNumberAndIndex" -> Then(Tag, {<<"db">>})
    [] m \in {"eth_getBlockByNumber", "eth_getBlockTransactionCountByNumber",
              "eth_getBlockReceipts"} -> Then(Tag, {<<"db">>, <<"db", "db">>})
    [] m = "eth_getLogs" -> {<<"head">>, <<"head", "db">>}
    [] m = "eth_feeHistory" -> {<<>>} \cup Then(Tag, {<<"db">>})
    [] m \in {"eth_getBalance", "eth_getStorageAt", "eth_getCode"} ->
         Then(BlockId, {<<"contract">>})
    [] m = "eth_getTransactionCount" -> TransactionCount
    [] m \in {"eth_call", "eth_estimateGas"} -> Then(CallRequest, {<<"contract">>})
    [] m = "eth_sendRawTransaction" -> Then(SendRequest, {<<"node">>})

(***************************************************************************)
(* The errors of a step, and their codes.  The reader of a contract wraps  *)
(* every failure, also that of the node, as one of the contract.           *)
(***************************************************************************)
Errors(step) ==
  CASE step \in {"head", "db"} -> {"MongoDbError", "ValueNotFound", "ConversionError", "Other"}
    [] step = "node" -> {"StarknetProviderError", "Other"}
    [] step = "contract" -> {"ContractCallError", "EvmExecutionError", "ConversionError"}
    [] step = "convert" -> {"ConversionError"}
    [] step = "check" -> {}
Code(error) ==
  CASE error \in {"MongoDbError", "ValueNotFound"} -> "ResourceNotFound"
    [] error \in {"StarknetProviderError", "Other"} -> "InternalError"
    [] error \in {"ContractCallError", "EvmExecutionError"} -> "ExecutionError"
    [] error = "ConversionError" -> "ParseError"
    [] error = "MethodNotSupported" -> "MethodNotSupported"
AllCodes == {"ResourceNotFound", "InternalError", "ExecutionError", "ParseError",
             "MethodNotSupported"}

TypeOK ==
  /\ StartupTypeOK /\ TokensTypeOK
  /\ pc \in [Client -> {"idle", "steps", "tokens", "done"}]
  /\ kind \in [Client -> {"none", "static", "not_supported", "health", "reading", "tokens"}]
  /\ answer \in [Client -> {"none", "result"} \cup AllCodes]
  /\ up \in [Client -> BOOLEAN]

Init ==
  /\ StartupInit /\ TokensInit
  /\ pc = [c \in Client |-> "idle"] /\ kind = [c \in Client |-> "none"]
  /\ todo = [c \in Client |-> <<>>] /\ answer = [c \in Client |-> "none"]
  /\ entries = [c \in Client |-> <<>>]
  /\ up = [c \in Client |-> FALSE] /\ down = [c \in Client |-> {}]

-----------------------------------------------------------------------------
Busy(c) == pc[c] \in {"steps", "tokens"}
DownNow(node, db) == (IF node THEN {} ELSE {"node"}) \cup (IF db THEN {} ELSE {"db"})

(***************************************************************************)
(* A call comes in, once the server serves; one of each client, as no call *)
(* leaves anything behind for the next.                                    *)
(***************************************************************************)
Called(c, k) ==
  /\ boot = "serving" /\ pc[c] = "idle"
  /\ kind' = [kind EXCEPT ![c] = k]
  /\ up' = [up EXCEPT ![c] = nodeUp]
  /\ down' = [down EXCEPT ![c] = DownNow(nodeUp, dbUp)]
  /\ UNCHANGED <<bootVars, storeVars, entries>>

\* An answer without an await.
AnswerAtOnce(c, k, code) ==
  /\ Called(c, k)
  /\ pc' = [pc EXCEPT ![c] = "done"]
  /\ answer' = [answer EXCEPT ![c] = code]
  /\ UNCHANGED <<tokenVars, todo>>

AnswerStatic(c, m) ==
  (m \in Static \/ (m \in Reading /\ <<>> \in Paths(m))) /\ AnswerAtOnce(c, "static", "result")
RefuseMethod(c, m) ==
  m \in NotSupported /\ AnswerAtOnce(c, "not_supported", Code("MethodNotSupported"))

BeginSteps(c, m) ==
  /\ m \in Reading
  /\ Called(c, IF m = "net_health" THEN "health" ELSE "reading")
  /\ pc' = [pc EXCEPT ![c] = "steps"]
  /\ \E path \in Paths(m) \ {<<>>} : todo' = [todo EXCEPT ![c] = path]
  /\ answer' = [answer EXCEPT ![c] = "none"]
  /\ UNCHANGED tokenVars

BeginTokens(c, list) ==
  /\ Called(c, "tokens")
  /\ AskTokens(c, list)
  /\ pc' = [pc EXCEPT ![c] = "tokens"]
  /\ answer' = [answer EXCEPT ![c] = "none"]
  /\ UNCHANGED todo

-----------------------------------------------------------------------------
(***************************************************************************)
(* A step that goes well, if its store is there: what the handler has yet  *)
(* to do then.                                                             *)
(***************************************************************************)
GoesWell(step) ==
  /\ step \in {"head", "db"} => dbUp
  /\ step \in {"node", "contract"} => nodeUp
Rest(c) ==
  IF Head(todo[c]) = "head" /\ ~indexed THEN <<"node">> \o Tail(todo[c]) ELSE Tail(todo[c])

GoOn(c) ==
  /\ pc[c] = "steps" /\ GoesWell(Head(todo[c]))
  /\ todo' = [todo EXCEPT ![c] = Rest(c)]
  /\ pc' = [pc EXCEPT ![c] = IF Rest(c) = <<>> THEN "done" ELSE @]
  /\ answer' = [answer EXCEPT ![c] = IF Rest(c) = <<>> THEN "result" ELSE @]
  /\ UNCHANGED <<bootVars, storeVars, tokenVars, kind, entries, up, down>>

Fail(c) ==
  /\ pc[c] = "steps"
  /\ \E error \in Errors(Head(todo[c])) :
       answer' = [answer EXCEPT ![c] = Code(error)]
  /\ pc' = [pc EXCEPT ![c] = "done"] /\ todo' = [todo EXCEPT ![c] = <<>>]
  /\ UNCHANGED <<bootVars, storeVars, tokenVars, kind, entries, up, down>>

PollToken(c, i) ==
  /\ pc[c] = "tokens" /\ Resume(c, i)
  /\ UNCHANGED <<bootVars, storeVars, callVars, up, down>>

JoinAll(c) ==
  /\ pc[c] = "tokens" /\ AllReady(c)
  /\ entries' = [entries EXCEPT ![c] = Joined(c)]
  /\ answer' = [answer EXCEPT ![c] = "result"]
  /\ pc' = [pc EXCEPT ![c] = "done"]
  /\ Drop(c)
  /\ UNCHANGED <<bootVars, storeVars, kind, todo, up, down>>

-----------------------------------------------------------------------------
(***************************************************************************)
(* Outside: main, the stores, the tokens.                                  *)
(***************************************************************************)
Outside ==
  /\ \/ Boot /\ UNCHANGED <<storeVars, tokenVars, up, down>>
     \/ /\ StoresChange /\ UNCHANGED tokenVars
        /\ up' = [c \in Client |-> up[c] \/ (Busy(c) /\ nodeUp')]
        /\ down' = [c \in Client |-> IF Busy(c) THEN down[c] \cup DownNow(nodeUp', dbUp')
                                     ELSE down[c]]
     \/ boot = "serving" /\ TokenMoves /\ UNCHANGED <<bootVars, storeVars, up, down>>
  /\ UNCHANGED callVars

HandlerStep(c) ==
  \/ GoOn(c)
  \/ Fail(c)
  \/ \E i \in DOMAIN future[c] : PollToken(c, i)
  \/ JoinAll(c)

Next ==
  \/ Outside
  \/ \E c \in Client :
       \/ \E m \in Static \cup Reading : AnswerStatic(c, m)
       \/ \E m \in NotSupported : RefuseMethod(c, m)
       \/ \E m \in Reading : BeginSteps(c, m)
       \/ \E list \in List : BeginTokens(c, list)
       \/ HandlerStep(c)

(***************************************************************************)
(* main runs, and so does every handler: each request to a store is        *)
(* answered or fails.                                                      *)
(***************************************************************************)
Spec ==
  /\ Init /\ [][Next]_vars
  /\ WF_vars(Boot /\ UNCHANGED <<storeVars, tokenVars, callVars, up, down>>)
  /\ \A c \in Client : WF_vars(HandlerStep(c))

-----------------------------------------------------------------------------
(***************************************************************************)
(* alchemy_getTokenBalances: each token's entry is in its place and its    *)
(* own, however the futures and the transfers interleave.                  *)
(***************************************************************************)
TokensInOrder ==
  \A c \in Client :
    pc[c] = "done" /\ kind[c] = "tokens" => TokensAnsweredInOrder(c, entries[c])

(***************************************************************************)
(* net_health "Returns true if Kakarot RPC_URL is reachable": when it      *)
(* does, the node was there at some time while it ran.  But the            *)
(* block_number it awaits is the provider's, which asks the node only for  *)
(* want of a header in the database.                                       *)
(***************************************************************************)
HealthReachesNode ==
  \A c \in Client :
    pc[c] = "done" /\ kind[c] = "health" /\ answer[c] = "result" => up[c]

(***************************************************************************)
(* Every call is answered, also when tokens fail and stores are down.      *)
(***************************************************************************)
EveryCallEnds == \A c \in Client : Busy(c) ~> pc[c] = "done"
=============================================================================
