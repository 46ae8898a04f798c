----------------------------- MODULE StateReads -----------------------------
(***************************************************************************)
(* The handlers of EthDataProvider that answer from the state the Starknet *)
(* node keeps: balance, storage_at, get_code, transaction_count, and call  *)
(* and estimate_gas through call_helper.  to_starknet_block_id turns the   *)
(* Ethereum block id into a Starknet one (with one database read when it   *)
(* is a number); every later await is a call to the node at that id, while *)
(* the node goes on sealing blocks and the indexer lags behind.            *)
(*                                                                         *)
(* The state after block v is told apart by the transactions included up   *)
(* to v; "pending" is version head + 1, "latest" is version head.          *)
(***************************************************************************)
EXTENDS Chain

CONSTANTS Client,
          Account,  \* the accounts asked about
          Class,    \* the class behind each account's proxy
          Bumps,    \* per account the transactions that raise its nonce; the
                    \* first of them to be included deploys it
          Hash      \* the block hashes clients ask for

ASSUME AccountAssumption ==
  /\ Class \in [Account -> {"EOA", "CA", "other"}]
  /\ Bumps \in [Account -> SUBSET Tx]
  /\ \A a \in Account : IsFiniteSet(Bumps[a])
  /\ Hash \subseteq Block

VARIABLES pc,       \* where the request each client has in flight is
          ask,      \* that request
          readAt,   \* the Starknet id its read or its eth_call uses
          nonceAt,  \* the Starknet id its transaction_count uses
          nonce,    \* the nonce it found
          answer,   \* how it ended
          from,     \* ghost: the lowest version its answer may speak of
          floor,    \* ghost: the account's nonce in that version when asked
          sawNonce, \* ghost: the version the nonce was read from
          sawState  \* ghost: the version the read or the eth_call ran on

reqVars == <<pc, ask, readAt, nonceAt, nonce, answer, from, floor, sawNonce, sawState>>
vars == <<chainVars, reqVars>>

-----------------------------------------------------------------------------
(***************************************************************************)
(* The node.                                                               *)
(***************************************************************************)
Version(sid) ==
  CASE sid.by = "pending" -> head + 1
    [] sid.by = "latest"  -> head
    [] OTHER              -> sid.at

Answers(sid) == Version(sid) <= head + 1 /\ (sid.by \in {"number", "hash"} => sid.at <= head)

Deployed(a, v) == \E t \in Bumps[a] : included[t] <= v
Nonce(a, v) == Cardinality({t \in Bumps[a] : included[t] <= v})

(***************************************************************************)
(* Ids.  "latest" stands for Latest and Pending, "safe" for Safe and       *)
(* Finalized, "none" for no block id: the code treats each pair alike.     *)
(***************************************************************************)
Id == [by : {"number"}, at : Block] \cup [by : {"hash"}, at : Hash]
        \cup [by : {"latest", "safe", "earliest", "none"}, at : {0}]

SnId == [by : {"number", "hash"}, at : Block] \cup [by : {"pending", "latest"}, at : {0}]

Pending == [by |-> "pending", at |-> 0]

(***************************************************************************)
(* The requests.  A call carries its own nonce, or leaves it to            *)
(* transaction_count of its sender.                                        *)
(***************************************************************************)
Op == {"read", "count", "call", "call_with_nonce"}
Request == [op : Op, id : Id, account : Account]

AnswerKind == {"none", "ok", "error"}

TypeOK ==
  /\ ChainTypeOK
  /\ pc \in [Client -> {"idle", "resolve", "resolve_nonce", "class", "nonce", "read", "done"}]
  /\ ask \in [Client -> Request]
  /\ readAt \in [Client -> SnId]
  /\ nonceAt \in [Client -> SnId]
  /\ nonce \in [Client -> Nat]
  /\ answer \in [Client -> AnswerKind]
  /\ from \in [Client -> Block]
  /\ floor \in [Client -> Nat]
  /\ sawNonce \in [Client -> Block]
  /\ sawState \in [Client -> Block]

Init ==
  /\ ChainInit
  /\ pc = [c \in Client |-> "idle"]
  /\ ask \in [Client -> {r \in Request : r.op = "read" /\ r.id.by = "none"}]
  /\ readAt = [c \in Client |-> Pending]
  /\ nonceAt = [c \in Client |-> Pending]
  /\ nonce = [c \in Client |-> 0]
  /\ answer = [c \in Client |-> "none"]
  /\ from = [c \in Client |-> 0]
  /\ floor = [c \in Client |-> 0]
  /\ sawNonce = [c \in Client |-> 0]
  /\ sawState = [c \in Client |-> 0]

-----------------------------------------------------------------------------
\* Mutants of Resolves: a pending block is passed on by its number, or as the
\* latest sealed block.
ResolvesToNumber(id, sid) ==
  CASE id.by = "hash"     -> sid = id
    [] id.by = "number"   -> headers[id.at] # "none" /\ sid = id
    [] id.by = "earliest" -> sid = [by |-> "number", at |-> 0]
    [] id.by = "safe"     -> sid = [by |-> "latest", at |-> 0]
    [] OTHER              -> sid = Pending
ResolvesToLatest(id, sid) ==
  CASE id.by = "hash"     -> sid = id
    [] id.by = "number"   -> /\ headers[id.at] # "none"
                             /\ sid = IF headers[id.at] = "pending"
                                        THEN [by |-> "latest", at |-> 0]
                                        ELSE id
    [] id.by = "earliest" -> sid = [by |-> "number", at |-> 0]
    [] id.by = "safe"     -> sid = [by |-> "latest", at |-> 0]
    [] OTHER              -> sid = Pending

(***************************************************************************)
(* to_starknet_block_id.  Only a number needs the database: the header of  *)
(* a pending block has the zero hash.                                      *)
(***************************************************************************)
Resolves(id, sid) ==
  CASE id.by = "hash"     -> sid = id
    [] id.by = "number"   -> /\ headers[id.at] # "none"
                             /\ sid = IF DocHash(id.at, headers[id.at]) = ZeroHash
                                        THEN Pending
                                        ELSE id
    [] id.by = "earliest" -> sid = [by |-> "number", at |-> 0]
    [] id.by = "safe"     -> sid = [by |-> "latest", at |-> 0]
    [] OTHER              -> sid = Pending

(***************************************************************************)
(* The lowest version an answer to a request made now may be about.        *)
(***************************************************************************)
OldestVersion(id) ==
  CASE id.by \in {"number", "hash", "earliest"} -> id.at
    [] id.by = "safe"                           -> head
    [] OTHER                                    -> head + 1

Begin(c, r) ==
  /\ pc[c] \in {"idle", "done"}
  /\ pc' = [pc EXCEPT ![c] = "resolve"]
  /\ ask' = [ask EXCEPT ![c] = r]
  /\ answer' = [answer EXCEPT ![c] = "none"]
  /\ from' = [from EXCEPT ![c] = OldestVersion(r.id)]
  /\ floor' = [floor EXCEPT ![c] = Nonce(r.account, OldestVersion(r.id))]
  /\ readAt' = [readAt EXCEPT ![c] = Pending]
  /\ nonceAt' = [nonceAt EXCEPT ![c] = Pending]
  /\ nonce' = [nonce EXCEPT ![c] = 0]
  /\ sawNonce' = [sawNonce EXCEPT ![c] = 0]
  /\ sawState' = [sawState EXCEPT ![c] = 0]
  /\ UNCHANGED chainVars

(***************************************************************************)
(* "?" on any await, and a header that is not there.                       *)
(***************************************************************************)
Fail(c) ==
  /\ pc[c] \notin {"idle", "done"}
  /\ pc' = [pc EXCEPT ![c] = "done"]
  /\ answer' = [answer EXCEPT ![c] = "error"]
  /\ UNCHANGED <<chainVars, ask, readAt, nonceAt, nonce, from, floor, sawNonce, sawState>>

AfterResolve(op) ==
  CASE op = "count" -> "class"
    [] op = "call"  -> "resolve_nonce"
    [] OTHER        -> "read"

Resolve(c) ==
  /\ pc[c] = "resolve"
  /\ pc' = [pc EXCEPT ![c] = AfterResolve(ask[c].op)]
  /\ \E sid \in SnId :
       /\ Resolves(ask[c].id, sid)
       /\ IF ask[c].op = "count"
            THEN nonceAt' = [nonceAt EXCEPT ![c] = sid] /\ UNCHANGED readAt
            ELSE readAt' = [readAt EXCEPT ![c] = sid] /\ UNCHANGED nonceAt
  /\ UNCHANGED <<chainVars, ask, nonce, answer, from, floor, sawNonce, sawState>>

\* A mutant of ResolveNonce: call_helper asks for the count without a block id.
ResolveNoncePending(c) ==
  /\ pc[c] = "resolve_nonce"
  /\ pc' = [pc EXCEPT ![c] = "class"]
  /\ nonceAt' = [nonceAt EXCEPT ![c] = Pending]
  /\ UNCHANGED <<chainVars, ask, readAt, nonce, answer, from, floor, sawNonce, sawState>>

(***************************************************************************)
(* call_helper hands the Ethereum id to transaction_count, which resolves  *)
(* it again.                                                               *)
(***************************************************************************)
ResolveNonce(c) ==
  /\ pc[c] = "resolve_nonce"
  /\ pc' = [pc EXCEPT ![c] = "class"]
  /\ \E sid \in SnId :
       /\ Resolves(ask[c].id, sid)
       /\ nonceAt' = [nonceAt EXCEPT ![c] = sid]
  /\ UNCHANGED <<chainVars, ask, readAt, nonce, answer, from, floor, sawNonce, sawState>>

\* A mutant of NonceKnown: the last nonce used instead of the next one.
NonceKnownLastUsed(c, k) ==
  /\ nonce' = [nonce EXCEPT ![c] = k - 1]
  /\ sawNonce' = [sawNonce EXCEPT ![c] = Version(nonceAt[c])]
  /\ pc' = [pc EXCEPT ![c] = IF ask[c].op = "count" THEN "done" ELSE "read"]
  /\ answer' = [answer EXCEPT ![c] = IF ask[c].op = "count" THEN "ok" ELSE @]

(***************************************************************************)
(* transaction_count has its nonce: it is the answer, or the call goes on. *)
(***************************************************************************)
NonceKnown(c, k) ==
  /\ nonce' = [nonce EXCEPT ![c] = k]
  /\ sawNonce' = [sawNonce EXCEPT ![c] = Version(nonceAt[c])]
  /\ pc' = [pc EXCEPT ![c] = IF ask[c].op = "count" THEN "done" ELSE "read"]
  /\ answer' = [answer EXCEPT ![c] = IF ask[c].op = "count" THEN "ok" ELSE @]

(***************************************************************************)
(* get_implementation: an account the node does not know has nonce 0, and  *)
(* so has one of a class that is neither of Kakarot's.                     *)
(***************************************************************************)
ReadClass(c) ==
  /\ pc[c] = "class"
  /\ Answers(nonceAt[c])
  /\ LET a == ask[c].account IN
       IF Deployed(a, Version(nonceAt[c])) /\ Class[a] \in {"EOA", "CA"}
         THEN pc' = [pc EXCEPT ![c] = "nonce"] /\ UNCHANGED <<nonce, sawNonce, answer>>
         ELSE NonceKnown(c, 0)
  /\ UNCHANGED <<chainVars, ask, readAt, nonceAt, from, floor, sawState>>

\* A mutant of ReadNonce: the nonce of the pending block, whatever the id.
ReadNoncePending(c) ==
  /\ pc[c] = "nonce"
  /\ NonceKnown(c, Nonce(ask[c].account, head + 1))
  /\ UNCHANGED <<chainVars, ask, readAt, nonceAt, from, floor, sawState>>

ReadNonce(c) ==
  /\ pc[c] = "nonce"
  /\ Answers(nonceAt[c])
  /\ NonceKnown(c, Nonce(ask[c].account, Version(nonceAt[c])))
  /\ UNCHANGED <<chainVars, ask, readAt, nonceAt, from, floor, sawState>>

(***************************************************************************)
(* balanceOf, storage, bytecode, or eth_call.  An eth_call that reverts is *)
(* an error answer.                                                        *)
(***************************************************************************)
ReadState(c) ==
  /\ pc[c] = "read"
  /\ Answers(readAt[c])
  /\ sawState' = [sawState EXCEPT ![c] = Version(readAt[c])]
  /\ pc' = [pc EXCEPT ![c] = "done"]
  /\ \E kind \in {"ok", "error"} :
       /\ kind = "error" => ask[c].op \in {"call", "call_with_nonce"}
       /\ answer' = [answer EXCEPT ![c] = kind]
  /\ UNCHANGED <<chainVars, ask, readAt, nonceAt, nonce, from, floor, sawNonce>>

Environment == ChainNext /\ UNCHANGED reqVars

Next ==
  \/ Environment
  \/ \E c \in Client :
       \/ \E r \in Request : Begin(c, r)
       \/ Resolve(c)
       \/ ResolveNonce(c)
       \/ ReadClass(c)
       \/ ReadNonce(c)
       \/ ReadState(c)
       \/ Fail(c)

Spec == Init /\ [][Next]_vars

-----------------------------------------------------------------------------
(***************************************************************************)
(* The node is never asked for a numbered block it has not sealed: a       *)
(* number is passed on only when its header carries a hash, and a header   *)
(* carries one only once its block is sealed.                              *)
(***************************************************************************)
OnlySealedNumbers ==
  \A c \in Client : \A sid \in {readAt[c], nonceAt[c]} :
    sid.by = "number" => sid.at <= head

(***************************************************************************)
(* No answer comes from a state older than the block asked for, counting   *)
(* "latest" and no block id as the pending block at the time of asking:    *)
(* a number that resolves to the pending tag is answered from its own      *)
(* block or a later one, however many blocks are sealed in between.        *)
(***************************************************************************)
NeverOlderThanAsked ==
  \A c \in Client :
    pc[c] = "done" /\ answer[c] = "ok" =>
      /\ ask[c].op \in {"count", "call"} => from[c] <= sawNonce[c]
      /\ ask[c].op # "count" => from[c] <= sawState[c]

(***************************************************************************)
(* transaction_count reads the class and the nonce in two calls, and the   *)
(* account may be deployed or send transactions before, between and after  *)
(* them.  Its answer is still no less than the count was, in the block     *)
(* asked for, when it was asked, and no more than the count its id stands  *)
(* for when it answers: the request looks atomic to its client.            *)
(***************************************************************************)
CountIsTrue ==
  \A c \in Client :
    pc[c] = "done" /\ answer[c] = "ok" /\ ask[c].op = "count" =>
      LET a == ask[c].account IN
        Class[a] # "other" =>
          /\ floor[c] <= nonce[c]
          /\ nonce[c] <= Nonce(a, Version(nonceAt[c]))

(***************************************************************************)
(* call_helper resolves the block id twice, and the two may come out       *)
(* differently when the header goes from pending to sealed in between.     *)
(* The nonce it passes to eth_call is still never higher than the sender's *)
(* nonce in the state eth_call runs on.                                    *)
(***************************************************************************)
CallNonceNotNewer ==
  \A c \in Client :
    pc[c] = "done" /\ answer[c] = "ok" /\ ask[c].op = "call" =>
      nonce[c] <= Nonce(ask[c].account, sawState[c])

(***************************************************************************)
(* The comment of to_starknet_block_id: a number of a sealed Starknet      *)
(* block is passed on as that number.  The code asks the database, whose   *)
(* header may still be the pending one.                                    *)
(***************************************************************************)
SealedBlockByNumber ==
  [][\A c \in Client :
       /\ pc[c] = "resolve" /\ pc'[c] = "read"
       /\ ask[c].id.by = "number" /\ ask[c].id.at <= head
       => readAt'[c] = ask[c].id]_vars
=============================================================================
