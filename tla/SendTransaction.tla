--------------------------- MODULE SendTransaction ---------------------------
(***************************************************************************)
(* eth_sendRawTransaction outside the hive build: the transaction is       *)
(* decoded, chain_id and the signer's balance are read from the node, and  *)
(* the Starknet transaction that carries it is sent with its signature and *)
(* a max_fee that should leave the signer its Ethereum fees.  Balances and *)
(* signatures are 256-bit, the node's chain id is a field element, and v   *)
(* and every number the fee is computed with are 64-bit; the widths, and   *)
(* the 35 in v, are scaled down.                                           *)
(***************************************************************************)
EXTENDS Words, Sequences

CONSTANTS Request,   \* the calls
          ChainIds,  \* the chain ids a node may have, field elements
          VOffset,   \* 35
          Signature, \* the signatures: [r, s, parity]
          WordMax,   \* bound: the largest balance
          FeeMax,    \* bound: the largest fee per gas, a u128 in the code
          GasMax     \* bound: the largest gas limit, a u64

ASSUME WidthAssumption ==
  /\ WordMax \in Nat /\ FeeMax \in Nat /\ GasMax \in 0..U64Max
  /\ ChainIds \subseteq Nat /\ VOffset \in Nat
  /\ Signature \subseteq [r : Nat, s : Nat, parity : {0, 1}]

VARIABLES tx,       \* per request the fields of its transaction
          pc,       \* where it is
          nodeChain, \* the node: its chain id
          balance,  \* the node: the signer's balance in the pending block, in halves
          chain,    \* the chain id the request read
          read,     \* ghost: the balance the request read
          maxFee,   \* the max_fee it computed
          sent      \* the signature of its Starknet transaction

vars == <<tx, pc, nodeChain, balance, chain, read, maxFee, sent>>

(***************************************************************************)
(* A transaction has a gas price, or, when dynamic, a fee cap and a tip.   *)
(***************************************************************************)
Tx == {t \in [type : {"legacy", "access_list", "dynamic"}, fee : 0..FeeMax, tip : 0..FeeMax,
              gas : 0..GasMax, signature : Signature] :
         t.tip <= t.fee /\ (t.type # "dynamic" => t.tip = 0)}

TypeOK ==
  /\ tx \in [Request -> Tx]
  /\ pc \in [Request -> {"decode", "chain_id", "balance", "submit", "ok", "err"}]
  /\ nodeChain \in ChainIds
  /\ Joined(balance) \in 0..WordMax
  /\ chain \in [Request -> 0..U64Max]
  /\ read \in [Request -> 0..WordMax]
  /\ maxFee \in [Request -> 0..U64Max]

(***************************************************************************)
(* A word in the node's storage: two field elements.                       *)
(***************************************************************************)
Halves(n) == [low |-> n % Half, high |-> n \div Half]

Init ==
  /\ tx \in [Request -> Tx]
  /\ pc = [r \in Request |-> "decode"]
  /\ nodeChain \in ChainIds
  /\ \E b \in 0..WordMax : balance = Halves(b)
  /\ chain = [r \in Request |-> 0]
  /\ read = [r \in Request |-> 0]
  /\ maxFee = [r \in Request |-> 0]
  /\ sent = [r \in Request |-> <<>>]

-----------------------------------------------------------------------------
AsU64(n) == n % (U64Max + 1)
WrappingMul(a, b) == AsU64(a * b)   \* a mutant of SaturatingMul
SaturatingMul(a, b) == IF a * b > U64Max THEN U64Max ELSE a * b
SaturatingSub(a, b) == IF a < b THEN 0 ELSE a - b

(***************************************************************************)
(* effective_gas_price(Some(base)) (external), called with the fee cap cut *)
(* to 64 bits as the base fee.                                             *)
(***************************************************************************)
EffectiveGasPrice(t, base) ==
  IF t.type = "dynamic" /\ t.fee - base > t.tip THEN t.tip + base ELSE t.fee

EthFees(t) == SaturatingMul(AsU64(EffectiveGasPrice(t, AsU64(t.fee))), t.gas)

ToU64(n) == IF n > U64Max THEN U64Max ELSE n
MaxFeeU64Max(t, b) == U64Max   \* a mutant of MaxFee: the former constant
MaxFee(t, b) == SaturatingSub(ToU64(b), EthFees(t))

(***************************************************************************)
(* to_starknet_transaction: the halves of r and s, and v, a u64.  A legacy *)
(* one's has the chain id in it, not that of the transaction but the       *)
(* node's, and wraps.  (A build with overflow checks panics: Fail.)        *)
(***************************************************************************)
LegacyV(t, c) == t.signature.parity + VOffset + 2 * c
V(t, c) == IF t.type = "legacy" THEN AsU64(LegacyV(t, c)) ELSE t.signature.parity
StarknetSignature(t, c) ==
  LET r == Split(t.signature.r)
      s == Split(t.signature.s)
  IN <<r.low, r.high, s.low, s.high, V(t, c)>>

-----------------------------------------------------------------------------
(***************************************************************************)
(* Any step may fail: bad bytes, no signer, an error of the node, a panic. *)
(***************************************************************************)
Fail(r) ==
  /\ pc[r] \notin {"ok", "err"}
  /\ pc' = [pc EXCEPT ![r] = "err"]
  /\ UNCHANGED <<tx, nodeChain, balance, chain, read, maxFee, sent>>

Decode(r) ==
  /\ pc[r] = "decode"
  /\ pc' = [pc EXCEPT ![r] = "chain_id"]
  /\ UNCHANGED <<tx, nodeChain, balance, chain, read, maxFee, sent>>

ChainId(r) ==
  /\ pc[r] = "chain_id"
  /\ pc' = [pc EXCEPT ![r] = "balance"]
  /\ chain' = [chain EXCEPT ![r] = U64OrZero(nodeChain)]
  /\ UNCHANGED <<tx, nodeChain, balance, read, maxFee, sent>>

(***************************************************************************)
(* balance(signer, None), and the fee and the transaction built from it.   *)
(***************************************************************************)
ReadBalance(r) ==
  /\ pc[r] = "balance"
  /\ pc' = [pc EXCEPT ![r] = "submit"]
  /\ read' = [read EXCEPT ![r] = Joined(balance)]
  /\ maxFee' = [maxFee EXCEPT ![r] = MaxFee(tx[r], Joined(balance))]
  /\ sent' = [sent EXCEPT ![r] = StarknetSignature(tx[r], chain[r])]
  /\ UNCHANGED <<tx, nodeChain, balance, chain>>

Submit(r) ==
  /\ pc[r] = "submit"
  /\ pc' = [pc EXCEPT ![r] = "ok"]
  /\ UNCHANGED <<tx, nodeChain, balance, chain, read, maxFee, sent>>

(***************************************************************************)
(* The signer's balance changes while the requests run.                    *)
(***************************************************************************)
Transfer ==
  /\ \E b \in 0..WordMax : balance' = Halves(b)
  /\ UNCHANGED <<tx, pc, nodeChain, chain, read, maxFee, sent>>

Next ==
  \/ \E r \in Request : Fail(r) \/ Decode(r) \/ ChainId(r) \/ ReadBalance(r) \/ Submit(r)
  \/ Transfer

Spec == Init /\ [][Next]_vars

-----------------------------------------------------------------------------
(***************************************************************************)
(* The fee offered never exceeds the balance that was read, at any width.  *)
(***************************************************************************)
MaxFeeCovered ==
  \A r \in Request : pc[r] \in {"submit", "ok"} => maxFee[r] <= read[r]

(***************************************************************************)
(* For a fee per gas that fits 64 bits, a non-zero max_fee leaves the      *)
(* signer the Ethereum fees it may have to pay as well: the saturations    *)
(* and the cut to 64 bits never let the two together exceed the balance.   *)
(***************************************************************************)
FeesLeft ==
  \A r \in Request :
    pc[r] \in {"submit", "ok"} /\ tx[r].fee <= U64Max /\ maxFee[r] > 0 =>
      tx[r].fee * tx[r].gas + maxFee[r] <= read[r]

(***************************************************************************)
(* The account (external) takes r and s from their halves, and the parity  *)
(* from v, which for a legacy transaction has the node's chain id in it.   *)
(***************************************************************************)
Recovered(type, sig, c) ==
  [r |-> Joined([low |-> sig[1], high |-> sig[2]]),
   s |-> Joined([low |-> sig[3], high |-> sig[4]]),
   parity |-> IF type = "legacy" THEN sig[5] - VOffset - 2 * c ELSE sig[5]]

(***************************************************************************)
(* The account gets the signer's r and s, for every type of transaction    *)
(* and every chain id.  It gets the parity as well, except of a legacy     *)
(* transaction exactly when v does not fit 64 bits: the chain id is then   *)
(* cut to 0, or v wraps, and what the account makes of it is not the       *)
(* signer's parity, whatever the chain id.                                 *)
(***************************************************************************)
SignatureKept ==
  \A r \in Request :
    pc[r] \in {"submit", "ok"} =>
      LET signature == tx[r].signature
          recovered == Recovered(tx[r].type, sent[r], nodeChain)
      IN  /\ recovered.r = signature.r /\ recovered.s = signature.s
          /\ recovered.parity = signature.parity
               <=> (tx[r].type = "legacy" => LegacyV(tx[r], nodeChain) <= U64Max)
=============================================================================
