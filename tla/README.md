# Kakarot RPC: a TLA+ model of the Ethereum RPC server over Starknet

Kakarot RPC answers the Ethereum JSON-RPC for an EVM that runs as contracts on
Starknet. It keeps almost no state of its own: every answer is put together
from two stores that move on while a request runs, a Starknet node and a
MongoDB database that an indexer fills. What can go wrong is therefore a matter
of order: which of the two is read when, and what has changed since. This
directory holds TLA+ modules of the request handlers over those two stores, of
the server around them and of the tools and tests that stand beside it, the TLC
configurations that check them on small instances, and proofs, checked by
TLAPS, of the theorems that hold for every instance.

All paths below are relative to the repository; `provider.rs` is
`src/eth_provider/provider.rs`.

## 1. The system

| Part | State | Operations | Interacts with |
| --- | --- | --- | --- |
| Block reads (`provider.rs`: `block_number`, `tag_into_block_number`, `header`, `block_exists`, `block`, counts, transactions by index, `block_receipts`) | none; locals live across awaits | two or three awaits per request | database; node when the database is empty |
| Range reads (`fee_history`, `get_logs`) | none | the latest number, then one range query | database |
| State reads (`to_starknet_block_id`, `balance`, `storage_at`, `get_code`, `transaction_count`, `call_helper`) | none | resolve the block id, then one to three calls to the node | database for numbers, node |
| Sending transactions (`send_raw_transaction`, `starknet/kakarot_core.rs`) | none | decode, chain id, balance, send | node |
| Deployer nonce (`send_raw_transaction` with feature `hive`; `constant.rs`, `main.rs`) | `DEPLOY_WALLET_NONCE`, a counter behind a tokio mutex | account check, lock, deployment, increment | node; every other request of a new account |
| Node and index (external) | blocks; one document per header, transaction, receipt and log | seal, take a transaction; insert and update a document | written by others, read by all parts |
| RPC servers (`src/eth_rpc`, `eth_provider/error.rs`) | none | dispatch, error codes, methods that are not supported | provider |
| Token balances (`alchemy_rpc.rs`, `models/balance.rs`, `contracts/erc20.rs`) | none | one `balanceOf` per token, joined | node |
| Conversions (`models/felt.rs`, `models/`, `eth_provider/utils.rs`) | none | pure | all |
| Stored documents (`eth_provider/database/types`) | none | (de)serialisation | database |
| Configuration and startup (`config.rs`, `main.rs`) | environment, statics of the hive build | read once | deployer nonce, RPC servers |
| Test accounts (`test_utils/eoa.rs`, `tx_waiter.rs`, `katana/mod.rs`) | none | nonce, sign, send, poll the receipt | provider, a Katana per test |
| Test database (`test_utils/mongo/mod.rs`) | one container per test binary | upsert the fixture | every test of the binary |
| Genesis builder (`test_utils/katana/genesis.rs`, `test_utils/hive`, two binaries) | maps of classes, contracts and balances | load, declare, deploy, fund, convert | writes the node's genesis and the manifest |
| Hive chain import (`bin/hive_chain.rs`, the start script of `docker/hive`) | one nonce counter | send every transaction of every block in order | genesis, manifest, node |

The hard behaviours, with the line at which each bites, are the `hazards` of
`PROJECT.json`. They are of these families:

* *Two reads, one answer.* Header and documents, nonce and state, class and
  nonce, latest number and range are read by separate awaits without a
  transaction around them, while blocks are sealed and documents go from
  pending (zero hash) to sealed.
* *Two stores, one chain.* A number is resolved by the database and read from
  the node; the database lags behind by any amount, and either may be down.
* *Shared counter.* Many requests draw the deployer's next nonce; a deployment
  may be refused, pooled and dropped, its answer lost, the server restarted. The
  import has one counter for the nonces of every signer.
* *Many futures, one answer.* The balances of a token list are read in
  interleaved pairs of awaits, some of which fail.
* *Boundaries.* 64-bit saturation and truncation in `fee_history`, in the fee
  arithmetic and in a signature's `v`; range bounds at, beyond and below the
  chain; words split into two felts.
* *Protocol between programs.* Genesis and manifest come from two builders, the
  import looks its signers up in what they wrote; a block of the file is sent
  when the clock of the node says so.
* *Shared test state.* Tests are threads of one process, upserting one fixture;
  an account's next nonce depends on whether its last transaction was waited for.

What makes each part correct:

* block reads: an answer is of one block, whole once the block is stored, and
  no later answer takes back what an earlier one showed;
* range reads: nothing that was there is missed, nothing outside is returned, a
  fee history has one ratio of each block from the oldest it reports on;
* state reads: the node is asked only for blocks it has, no answer comes from an
  older state than was asked for, a count is one the account really had;
* sending: the fee offered can be paid, together with the Ethereum fees, and the
  account recovers the signature from the felts it is sent, as far as 64 bits go;
* deployer nonce: whenever somebody may draw it, the counter is the nonce the
  node expects, less the deployments it missed, and never ahead of it; no more
  deployments are wasted than were missed; every request ends;
* server: a complete environment leads to a server, each call is answered,
  each token's balance stands where it was asked;
* genesis and import: every signer of the file is found under the address the
  import computes, no funds are lost while the genesis is built, and the node
  gets a beginning of the file, in its order;
* tests: the fixture is whole and, loaded by one test at a time, not doubled;
  nonces line up; the polling ends.

## 2. The modules

```
Chain ── HeadNumber ── BlockReads      Startup ── TokenBalances ── RpcServer
  │              └──── RangeReads      MockDatabase ── TestAccounts
  └───── StateReads                    Genesis ──┐
LogFilter   Words ── SendTransaction   HiveImport ┴── Hive
DeployWallet ══ implements ══> DeploySequencer
```

**Chain** (external). The node: `head` is the highest sealed block, the block
`head + 1` is pending, `included[t]` is the block of a transaction. The index:
`headers[n]` and `docs[col][t]` are *none*, *pending* (stored with the zero
hash) or *sealed*. The repository contains no indexer, so its behaviour is
assumed, as weakly as the handlers' use of the database allows: it writes
blocks in order from the first, the documents of one block one at a time in any
order, with any lag; it may write a pending document late, after the block was
sealed; it updates in place and never deletes.

**HeadNumber**. `block_number()` and `tag_into_block_number`: a number or
`earliest` is known at once; any other tag costs a read of the highest header
(`NewestHeader`) and, only when there is none, a call to the node
(`StarknetHead`). Ghosts: `viaHeader`, whether the number came from a header;
`newest`, the highest number ever taken from one.

**BlockReads**. One action per await: `Begin` (the code before the first
await), `ReadNewestHeader`, `AskStarknet`, `Lookup` (`header`, `block_exists`),
`Query` (the documents; `block` checks the withdrawals root after it) and
`Fail`, the `?` on any of them. Ghost: `shown`, what answers by number have
returned of each block. `transaction_by_hash` and `transaction_receipt` are one
query each; they appear in RpcServer only.

**RangeReads**. `fee_history` and `get_logs`, with 64-bit numbers scaled down to
`0..U64Max`; `StartBlock` is the saturating arithmetic, with
its effect at `u64::MAX`. The ratios themselves (floating point) are not
modelled, the blocks they belong to are: an answer holds a list of blocks, in
any order (`Listings`), as the query has no sort; logs are told apart by transaction, and
`Wanted` says which of them a topic and address filter selects. Ghost: `due`,
the logs stored when the request came.

**LogFilter**. The topic part of the `get_logs` filter: the positions are walked
one by one (`Flatten`, in the order a hash set yields its values), then compared
with a prefix of the log's topics (`RunQuery`).

**StateReads**. `to_starknet_block_id` (`Resolves`) and what follows it. *read*
stands for the handlers with one call to the node (`balance`, `storage_at`,
`get_code`), *count* for `transaction_count`, *call* for `call` and
`estimate_gas` without a nonce, where `call_helper` hands the Ethereum id to
`transaction_count`, which resolves it a second time; *call_with_nonce* for
those that bring one. A state is named by the block after which it holds
(`Version`): the pending tag means `head + 1`, the latest tag `head`. Ghosts:
`from`, the oldest state the answer may speak of; `floor`, the account's nonce
there; `sawNonce` and `sawState`, the states that were read.

**Words** and **SendTransaction**. `Words` is `split_u256` and its inverse and
the felt read as a u64, with both widths as constants. `SendTransaction` is
`send_raw_transaction` in the default build: the awaits, the arithmetic of
`max_fee` (`as u64`, `saturating_mul`, `saturating_sub`, the capped balance),
and the signature as the five felts of `to_starknet_transaction`. The `v` of a
legacy transaction has the chain id in it (`LegacyV`) and is a u64 (`V`): a chain
id of the node (`nodeChain`) that does not fit becomes 0, and one from half the
range on makes `v` wrap, or the request panic in a build with overflow checks
(`Fail`). `VOffset` is its 35, scaled down with the widths.

**DeployWallet**. The hive build. Each request is a program counter; `queue` is
the mutex's queue (tokio's is first come, first served), `holder` its owner,
`nonce` the counter, `current` a request's copy. `pool` is what the node took,
in order of nonces, `sealed` how much of it is in sealed blocks: the account
check and the restart read the sealed state, `provider.rs:519` and
`main.rs:66`. Faults: the node refuses anything (`NodeRefuses`); it takes a
deployment with a wrong nonce into its pool, says Ok and drops it later
(`NodePools`), as the Katana of `docker/hive/start.sh` does; an answer is lost
(`DeploymentFailed` from *answer* or *dropped*); the server is stopped and started
(`Restart`). Ghosts: `unchecked`, the requests whose account check failed for
another reason than a missing contract, an error the code drops; `missed`, how
many deployments the counter is behind the node; `overlooked`, how many it ever
missed; `wasted`, the requests told Ok whose deployment was dropped. The counter
gains on the node with each of those.

**DeploySequencer** is the abstract specification of the deployer's nonce:
requests ask, and are given in one step the next nonce and a deployment, or are
settled without one. There is no counter, no mutex and no refusal for a wrong
nonce. A lost answer, or a restart that reads the sealed nonce while a
deployment is pending, leaves it behind: then it deploys nothing until requests
that are settled for a deployment that came to nothing (`Waste`), or a restart,
have let it catch up. `Sequencer == INSTANCE DeploySequencer WITH ...` in DeployWallet
is the refinement mapping, with all faults of DeployWallet switched on.

**Startup**. `main` from the environment to the listening server: each step
ends in the next one, in an error returned, or in a panic, by what the
environment lacks (`Defect`) and where its provider's URL comes from
(`Network`); in the hive build the deployer's statics are set on the way
(`GetChainId`, `GetNonce`). Also the two stores, which come and go.

**TokenBalances** and **RpcServer**. A list of tokens becomes a sequence of
futures, each in two awaits, polled in any order; balances move meanwhile.
`RpcServer` gives each method of the four traits (`eth`, `net`, `web3`,
`alchemy`) the awaits its handler makes (`Paths`), each await its errors
(`Errors`) and each error its code (`Code`); what the reads return is the
subject of the modules above. Ghosts: `up`, that the node was up at some time during a call; `down`,
which stores were down at some time during it; `seen`, the balances a token had since.

**Genesis**. The typestate builder (`stage`), its maps `classHashes`,
`contracts` and `balances`, and the two programs that use it: `katana_genesis` (accounts,
then funds) and `hive_genesis` (`ConvertEntry` for each account of the hive
configuration, in any order, the manifest from a second builder). Either writes
the genesis (*written*) and then the manifest (*built*), and may fail between. A
felt that
names a contract is the term it is hashed from, so two contracts have one
address exactly when they are made of the same parts.

**HiveImport** and **Hive**. The import decodes the whole file, then waits until
the node has sealed enough blocks, asserts the counter, and sends. The node
(external) seals by the clock, takes a transaction only with its account's next
nonce, and may refuse any. `Hive` is the start script: the node gets the
genesis, the import's environment is filled from the manifest, so that
the signers it knows are those whose account is registered under the address
made of the manifest's values.

**MockDatabase** and **TestAccounts**. Upserts of the fixture by any number of
tests (an upsert without a unique index is a lookup and a write), then the three
operations of `KakarotEOA` against a Katana of the test's own: nonce, sign,
send, and, but for `transfer`, `watch_tx` with its bounded polls; `deploy` reads
the receipt again, and may find no event in it. Ghosts: `overlap`, that two fixtures were loaded at once;
`watched`, that every transaction was waited for.

**MC*.tla** give the constants their values for TLC, **\*_proofs.tla** hold the
theorems. A few operators named as mutants stand beside the definition they
change; nothing refers to them.

## 3. What is checked

| Run | Module | Bounds | What it shows |
| --- | --- | --- | --- |
| `block_reads` | MCBlockReads | 1 client asking again and again, 2 transactions, 2 collections, blocks 0..2, hashes: zero and that of block 1 | `LatestFound`, `HeaderAndTxsAgree`, `StoredBlockIsWhole`, `MonotonicBlock`, `MonotonicHead` |
| `range_reads` | MCRangeReads | 1 client, 2 transactions, blocks 0..2, u64 0..4; counts 0, 1, 2 and 4; numbers 1, 3 and 4, tags and none; 2 filters | `FeesOfBlocksAsked`, `LatestFees`, `NoLogMissed`, `LogsWithinBounds` |
| `log_filter` | MCLogFilter | 2 topics, 3 positions, logs of 0 to 3 topics | `PlainFilterExact` |
| `state_reads` | MCStateReads | 1 client, 3 accounts (EOA, contract account, neither), 2 transactions, blocks 0..3 | `OnlySealedNumbers`, `NeverOlderThanAsked`, `CountIsTrue`, `CallNonceNotNewer` |
| `deploy_wallet` | MCDeployWallet | 4 requests: two of one new account, one of another, one of an existing account; lost answers, 1 restart | `NeverAhead`, `InStep`, `DeployBeforeSubmit`, `EachMissWastesOne`, `ImplementsSequencer`, `EveryRequestEnds` |
| `send_transaction` | MCSendTransaction | halves of 8, u64 0..7, balances to 11, fees to 9, gas to 4, chain ids 1, 3 and 9: `v` fits, wraps, id too wide | `MaxFeeCovered`, `FeesLeft`, `SignatureKept` |
| `test_utils` | MCTestUtils | tests: 2, with 2 documents of the fixture, 2 operations each, 2 polls; tools: 5 contracts in 6 files, 3 EVM addresses, amounts of two digits to base 2, 6 chain files, blocks 0..3 | `MockDocuments`, `NonceIsNext`, `ConfirmedIsSealed`, `WatchEnds`, `SendersFound`, `AccountsRegistered`, `FundsSurvive`, `ImportFaithful`, `InBodyOrder`, `ImportEnds` |
| `rpc_server` | MCRpcServer | every network and missing variable, both builds, 1 client, 3 tokens (one broken, one no contract), lists with a repetition | `TokensInOrder`, `GoodEnvironmentServes`, `EveryCallEnds` |

Each property's comment in its module says what it means and of which code.
`block_reads`, `state_reads` and `deploy_wallet` also check their module's
`TypeOK`; that of RangeReads is a lemma of its proofs.

*Why these bounds.* Handlers of different requests share no state in the server
(the deployer's counter aside) and write nothing to the stores, so what one
request sees does not depend on the others: one client that keeps asking, with
ghosts that remember its earlier answers, meets every pair of answers that two
clients would, and the theorems below are for any number of clients. Three
blocks give a sealed block whose header is still pending, a pending one, and one
to come; two transactions can share a block, be in successive blocks, or be
indexed and not. `StateReads` needs one block more, for a pending tag that moves
twice while one request runs. The deployer's four requests are the fewest with
two deployments of one account, one of another in the queue, and a request that
needs none. The scaled integers keep every order in which the code's comparisons
can come out: zero, below, at and above each limit; 4 as the largest u64 leaves
two numbers above the last block, so that `end_block_plus` is met below, at and
beyond its saturation. Three entries of a list, one token asked about twice, are
the fewest in which an entry could be moved to its neighbour, to its twin or
dropped. Two tests and two documents give every interleaving of two upserts of
one document; two operations, a nonce drawn after a transaction that was waited
for, and after one that was not; two polls, a confirmation before, at and after
the last. The tests and the tools are different programs without shared state;
a behaviour of `test_utils` is one of either kind. The chain files of MCTestUtils have one signer with an empty block, two
signers, a nonce that fits the counter and not its signer, an account that is
not known, an unsound transaction and a corrupt end.

*Deadlock* is checked in every run: the handlers can always be asked again, and
the modules that stop do so only when all is over (`AllEnded` in DeployWallet,
`AllOver` in TestAccounts, `Finished` in Hive and LogFilter).

*Fairness* is assumed of the program's own steps only, except where the code
waits for another's clock.

* DeployWallet: weak fairness of each received request: the runtime polls every
  task, each await completes, if only with an error, and tokio's mutex serves
  its queue in order. `EveryRequestEnds` and the liveness of
  `ImplementsSequencer` rest on it.
* RpcServer: weak fairness of `main` and of each handler, for the same reason;
  that a store is up is not assumed. For `GoodEnvironmentServes` and
  `EveryCallEnds`.
* TestAccounts: weak fairness of the tests' threads, none of the node: the
  waiting ends although the transaction may never be executed.
* Hive: weak fairness of the import and of the node's sealing: the script starts
  the node with `--block-time`, so blocks come by the clock, and without them the
  import waits for ever.

Nothing is assumed of clients or of the indexer.

### Where the code and its comments part

Four runs check a statement of a comment that the code does not keep:

* `sealed_block_by_number`: `provider.rs:758` says a number of a sealed block is
  passed on as that number; the database decides, and while its header is still
  the pending one the read goes to the pending state, which may be of a later
  block. (`NeverOlderThanAsked` bounds the damage: never an earlier one.)
* `logs_from_latest`: `provider.rs:119` says `get_logs` returns the logs for the
  filter; a tag as fromBlock counts as block 0.
* `log_filter_any`: of the same sentence, topic alternatives and open positions
  are flattened, so such a filter selects other logs than it asks for.
* `net_health`: `net_rpc.rs:36` and `net_api.rs:23` say that it calls Starknet and
  that true means reachable; the provider's `block_number` asks the database
  first, so it is true from an old header while the node is gone.

Smaller ones, seen while translating and too plain for a run:

* `eth_api.rs:149` says a fee history is of the range requested or of a part of
  it; with `u64::MAX` as the newest block, the saturated end makes the window
  start one block earlier (`FeesOfBlocksAsked` says that it is no more than that);
* `provider.rs:506` says an account that is not found is deployed; once the
  counter has missed a deployment the next one may be accepted and dropped, and
  the transaction sent after it has no account (`EachMissWastesOne` bounds how
  often);
* `provider.rs:433` says `start_block < end_block`; for a count of one they are
  equal, and that is what the Ethereum method wants;
* `docs/methods/eth_coinbase.md` and `rpc_api_status.md` (`eth_getProof`) list
  methods as supported that answer `MethodNotSupported`.

## 4. What is proved

`tlapm` checks every proof; the theorems are listed in `PROJECT.json`. They
rest on the named assumptions on constants, which TLC evaluates
(`MaxBlockAssumption`, `AccountAssumption`, `HashAssumption`,
`RequestAssumption`, `FaultAssumption`, `WidthAssumption`, `HalfAssumption`,
`U64Assumption`, `RangeAssumption`, `CollectionAssumption`,
`PositionsAssumption`, `OpAssumption`, `ListAssumption`, `PollAssumption`, `DocAssumption`,
`ArtifactAssumption`, `AllocAssumption`, `BaseAssumption`, `FileAssumption`), and
on the library's theorems about sequences, finite sets and well-founded
relations. None of them bounds the number of blocks, clients, requests,
transactions, tokens, tests, accounts or restarts: `MaxBlock`, `MaxRestarts`,
`MaxPolls`, the files of the import and the widths are arbitrary. (Genesis'
`HashAssumption` is that the class hashes of the two kinds of account differ:
the import tells a key's account from a contract's by nothing else.)

Every invariant and every action property of the passing runs is stated by a
theorem; only liveness is left to TLC.

* **DeployWallet_proofs.** `NeverAhead` and `InStep` are not inductive: that the
  counter matches the node's at the end of a critical section depends on what
  happened inside it. `IInv` adds that the mutex is held exactly by the one
  request between `lock` and the end of its guard (`Mutex`), that its copy is the
  counter (`TrueCopy`), and where the counter stands: one behind the node while
  an answer is on its way (`OneUncounted`), and behind by what was
  missed otherwise (`AllCounted`), so that a stale nonce is offered only when
  something was (`StaleBehind`). From it follow `NeverAhead` and `InStep`.
  `EachMissWastesOne` needs the account kept with them: what was missed and what
  was wasted are together no more than what was ever overlooked, as each wasted
  deployment lets the counter gain one.
  `DeployBeforeSubmit` adds that whoever is about to submit has its account
  (`ReadyHasAccount`), kept because deployments are never taken back.
  `DrawingANonceIsAtomic` is the safety half of the refinement: every step of
  DeployWallet is one of DeploySequencer or changes nothing the sequencer has.
  `StageInv` adds what the mapping (`Stage`) needs: who is in the mutex's queue,
  once, and that the deployments taken are of requests past sending theirs; that a
  nonce is stale only when the counter is behind is `StaleBehind`.
* **Chain_proofs.** The facts every handler leans on: types, `Honest` (a header
  is stored as pending at the earliest when its block is, as sealed when its
  block is), headers never vanish, and a non-empty set of blocks has a highest
  one, from the well-foundedness of the natural numbers.
* **StateReads_proofs.** `OnlySealedNumbers` and `NeverOlderThanAsked`. The
  invariant `Good` follows a request: until its id is resolved, `from` is the
  block asked for; resolving (`ResolvedFresh`) gives an id of a state no older,
  by `Honest`; while the request waits that state only moves on (`OthersGood`).
  `CountInv` adds the nonce that was found: it is no less than the one the
  request started from, as nonces only grow with the blocks, and as the second
  resolution comes out like the first, or as a sealed number where that was the
  pending tag, it is not of a later state than the call's. Hence `CountIsTrue`
  and `CallNonceNotNewer`, although class, nonce and state are separate reads.
* **BlockReads_proofs.** `LatestFound` and `MonotonicHead`: the number
  taken from a header belongs to a stored one (`TopHeaderStored`), headers stay,
  so the lookup finds it, and the next highest is no lower. `AnswerInv` relates
  an answer to the index: documents found by a number or a sealed hash are of
  that block, whatever was rewritten since the header was read
  (`HeaderAndTxsAgree`), what was shown of a block stays in the index (`ShownStays`),
  so a later query finds what an earlier one did (`MonotonicBlock`), and all there is once
  the block is stored (`StoredBlockIsWhole`).
* **RangeReads_proofs.** `NoLogMissed` is the theorem with the longest reach: the
  upper bound is clamped to a number read after the request came and before the
  logs. That no due log lies above it needs two facts that no handler states:
  the headers of the database form a segment of the chain without a gap, and a
  stored log's block has its header in that segment. With them the clamped number
  is at least the block of every due log, whichever await comes when. These
  facts are `ClampIsSafe`.
  The invariant is `IInv`, of these facts (`Segment`, `Placed`), what a waiting
  request relies on and what its answer keeps. `LogsWithinBounds`,
  `FeesOfBlocksAsked` and `LatestFees` follow from what the same invariant says of
  an answer at the moment it is made; a list in which every block found occurs,
  as long as they are many, has each of them once (`ListingIs`). The module also proves LogFilter's
  `PlainFilterExact`: for a plain filter the list strung together has the topic
  of each position at that position (`Aligned`), and `$slice` leaves it exactly
  when the log begins with it (`SliceIs`).
* **SendTransaction_proofs.** `MaxFeeCovered` and `FeesLeft` at every width,
  64 and 256 bits among them, and `SignatureKept`: a word is its two halves put
  together, and dividing with remainder undoes that, so the account recovers r
  and s whatever the chain id, and the parity unless it is a legacy transaction
  whose `v` is cut to 64 bits (`AsU64Cuts`): then it does not.
* **RpcServer_proofs.** `TokensInOrder`, for any list. The futures keep their
  places and their tokens, each holds only what was true of its token at some
  time since the call, and that record only grows (`Kept`), so it is still true
  when `join_all` collects them.
* **TestUtils_proofs**, of what stands beside the server (`src/test_utils`).
  *TestAccounts*: `NonceIsNext` and `ConfirmedIsSealed`. As long as every
  transaction was waited for, nothing is under way between two operations
  (`Settled`): the node has executed all it took and dropped none, so the count
  of what it kept is the length of what it took. *MockDatabase*: `MockDocuments`,
  as fixtures that do not overlap find what the ones before them wrote.
  *Genesis and Hive*: `HiveInv`. The contracts are Kakarot and, for each entry of
  its mapping, one account at the address of that entry, with an allowance
  (`Wired`); what an account was funded with is in the fee token's storage even
  if its contract was replaced (`Funded`); a conversion has visited the
  entries that are no longer to do (`Converted`). Hence `AccountsRegistered`,
  `FundsSurvive`, and `SendersFound`, since the manifest names the same Kakarot
  and the same classes. *HiveImport*: `ImportInv`. Between two transactions
  the counter is the number the node took, which is the number of places before
  the one the import has reached (`Abreast`); ranks are cardinalities, so that
  one transaction more is one place more without induction over the file. And as
  the node's own count of the signer is that number too, all it took is his.
  Hence `ImportFaithful` and `InBodyOrder`.

Only model-checked: `EveryRequestEnds`, `EveryCallEnds`, `GoodEnvironmentServes`,
`WatchEnds`, `ImportEnds` and the liveness half of `ImplementsSequencer`, since
liveness under fairness and `ENABLED` are out of TLAPS's reach. So is induction
over data, which is why no definition a theorem depends on is recursive: the
rank of a transaction in a chain file and the nonce of an account are
cardinalities of sets.

## 5. Not modelled

* Stored documents (`eth_provider/database/types`) are serialisation wrappers
  without state; they appear as their status. The filters and projections of the
  database calls appear as the sets they select.
* Data the properties do not tell apart: calldata (with that of
  `evm_contract.rs` and the Kakarot decoder), bytecode, the contents of blocks and
  receipts, the ratios and base fees of a fee history, the wording of errors.
* Formatting and parsing: felts, addresses and padded hex as text. Their range
  checks appear as steps that may fail.
* The HTTP transport with its limit of connections, CORS and middleware are
  jsonrpsee's; telemetry is output only.
* Which ratio of a fee history is whose: the headers are read without a sort
  (`provider.rs:440`), RangeReads returns them in any order, and nothing in the
  repository says what their order should be, so nothing is claimed of it.
* Reorganisations: the repository has no code that handles one, and the database
  of the model never deletes.
* A node that takes a deployment of the right nonce and then drops or reverts it:
  the deployer pays no fee (`--disable-fee` in `docker/hive/start.sh`), and the
  deployment itself is Kakarot's contract.
* The mocked Starknet provider, fixtures' data generators and macros of the
  tests: generated values without a protocol.

## 6. Plan

Done: all modules, runs and proofs above, in the order Chain, HeadNumber,
BlockReads, StateReads, DeployWallet with DeploySequencer, RangeReads, LogFilter,
SendTransaction with Words, TestAccounts with MockDatabase, Genesis, HiveImport
and Hive, Startup, TokenBalances and RpcServer. What would add most next:

1. An abstract specification of a block read as one atomic look at the index.
   BlockReads implements it only for blocks that were stored before the request,
   as `StoredBlockIsWhole` says; the abstraction has to say so too.
   The refinement can then be proved from `AnswerInv`.
2. A chain that reorganises, once the repository's code says what its answers
   should be then.
