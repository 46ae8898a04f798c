----------------------- MODULE SendTransaction_proofs -----------------------
(***************************************************************************)
(* The arithmetic of max_fee for words, fees and gas limits of any width.  *)
(***************************************************************************)
EXTENDS SendTransaction, TLAPS

(***************************************************************************)
(* A 64-bit number is left as it is by "as u64".                           *)
(***************************************************************************)
LEMMA AsU64Fits == ASSUME NEW n \in 0..U64Max PROVE AsU64(n) = n
  BY WidthAssumption, HalfAssumption DEF AsU64

LEMMA AsU64Type == ASSUME NEW n \in Nat PROVE AsU64(n) \in 0..U64Max
  BY WidthAssumption, HalfAssumption DEF AsU64

LEMMA ProductIsNat == ASSUME NEW a \in Nat, NEW b \in Nat PROVE a * b \in Nat
  OBVIOUS

LEMMA EthFeesType == ASSUME NEW t \in Tx PROVE EthFees(t) \in 0..U64Max
<1>1. t.fee \in Nat /\ t.tip \in Nat /\ t.gas \in Nat
  BY WidthAssumption, HalfAssumption DEF Tx
<1>2. AsU64(t.fee) \in 0..U64Max
  BY <1>1, AsU64Type
<1>3. EffectiveGasPrice(t, AsU64(t.fee)) \in Nat
  BY <1>1, <1>2, WidthAssumption, HalfAssumption DEF EffectiveGasPrice
<1>4. AsU64(EffectiveGasPrice(t, AsU64(t.fee))) \in Nat
  BY <1>3, AsU64Type, WidthAssumption, HalfAssumption
<1>5. AsU64(EffectiveGasPrice(t, AsU64(t.fee))) * t.gas \in Nat
  BY <1>1, <1>4, ProductIsNat
<1>6. QED
  BY <1>5, WidthAssumption, HalfAssumption DEF EthFees, SaturatingMul

(***************************************************************************)
(* max_fee is a 64-bit number and no more than the balance.                *)
(***************************************************************************)
LEMMA MaxFeeBound ==
  ASSUME NEW t \in Tx, NEW b \in Nat
  PROVE  MaxFee(t, b) \in 0..U64Max /\ MaxFee(t, b) <= b
  BY EthFeesType, WidthAssumption, HalfAssumption DEF MaxFee, SaturatingSub, ToU64

(***************************************************************************)
(* For a fee of 64 bits the price is that fee: the base fee handed to      *)
(* effective_gas_price is the cap itself, which leaves no room for a tip.  *)
(***************************************************************************)
LEMMA MaxFeeLeaves ==
  ASSUME NEW t \in Tx, NEW b \in Nat, t.fee <= U64Max, MaxFee(t, b) > 0
  PROVE  t.fee * t.gas + MaxFee(t, b) <= b
<1>1. t.fee \in 0..U64Max /\ t.tip \in Nat /\ t.gas \in Nat
  BY WidthAssumption, HalfAssumption DEF Tx
<1>2. AsU64(t.fee) = t.fee
  BY <1>1, AsU64Fits
<1>3. EffectiveGasPrice(t, AsU64(t.fee)) = t.fee
  BY <1>1, <1>2, WidthAssumption, HalfAssumption DEF EffectiveGasPrice
<1>4. EthFees(t) = SaturatingMul(t.fee, t.gas)
  BY <1>2, <1>3 DEF EthFees
<1>5. PICK fees \in Nat : fees = t.fee * t.gas
  BY <1>1, ProductIsNat
<1>6. EthFees(t) = IF fees > U64Max THEN U64Max ELSE fees
  BY <1>4, <1>5 DEF SaturatingMul
<1>7. fees + MaxFee(t, b) <= b
  BY <1>6, WidthAssumption, HalfAssumption DEF MaxFee, SaturatingSub, ToU64
<1>8. QED
  BY <1>5, <1>7

-----------------------------------------------------------------------------
(***************************************************************************)
(* Division with remainder, and the two halves of a word with their sum.   *)
(***************************************************************************)
LEMMA DivMod ==
  ASSUME NEW n \in Nat, NEW d \in Nat \ {0}
  PROVE  /\ n \div d \in Nat /\ n % d \in 0..(d - 1)
         /\ n = d * (n \div d) + (n % d)
  OBVIOUS

LEMMA JoinedSplit ==
  ASSUME NEW n \in Nat
  PROVE  Joined(Split(n)) = n /\ Joined(Halves(n)) = n
<1>1. n \div Half \in Nat /\ n % Half \in Nat /\ n = Half * (n \div Half) + (n % Half)
  BY DivMod, HalfAssumption
<1>2. Half * (n \div Half) = (n \div Half) * Half
  BY <1>1, HalfAssumption
<1>3. QED
  BY <1>1, <1>2, HalfAssumption DEF Joined, Split, Halves

(***************************************************************************)
(* A number cut to 64 bits is the number, or smaller if it does not fit.   *)
(***************************************************************************)
LEMMA AsU64Cuts ==
  ASSUME NEW n \in Nat
  PROVE  /\ AsU64(n) \in Nat
         /\ n <= U64Max => AsU64(n) = n
         /\ n > U64Max => AsU64(n) < n
  BY WidthAssumption, HalfAssumption DEF AsU64

(***************************************************************************)
(* The account makes r and s of what is sent, and the parity as far as v   *)
(* fits: a chain id that became 0, or a v that wrapped, is too small by    *)
(* more than the parity could make up for.                                 *)
(***************************************************************************)
LEMMA SignatureRecovered ==
  ASSUME NEW t \in Tx, NEW c \in ChainIds
  PROVE  LET recovered == Recovered(t.type, StarknetSignature(t, U64OrZero(c)), c)
         IN  /\ recovered.r = t.signature.r /\ recovered.s = t.signature.s
             /\ recovered.parity = t.signature.parity
                  <=> (t.type = "legacy" => LegacyV(t, c) <= U64Max)
<1> DEFINE sig == StarknetSignature(t, U64OrZero(c))
           v == V(t, U64OrZero(c))
<1>1. t.signature \in [r : Nat, s : Nat, parity : {0, 1}] /\ c \in Nat
  BY WidthAssumption, HalfAssumption DEF Tx
<1>2. /\ sig[1] = Split(t.signature.r).low /\ sig[2] = Split(t.signature.r).high
      /\ sig[3] = Split(t.signature.s).low /\ sig[4] = Split(t.signature.s).high
      /\ sig[5] = v
  BY DEF StarknetSignature
<1>3. /\ [low |-> sig[1], high |-> sig[2]] = Split(t.signature.r)
      /\ [low |-> sig[3], high |-> sig[4]] = Split(t.signature.s)
  BY <1>2 DEF Split
<1>4. /\ Joined([low |-> sig[1], high |-> sig[2]]) = t.signature.r
      /\ Joined([low |-> sig[3], high |-> sig[4]]) = t.signature.s
  BY <1>1, <1>3, JoinedSplit
<1>5. ASSUME t.type = "legacy"
      PROVE  v - VOffset - 2 * c = t.signature.parity <=> LegacyV(t, c) <= U64Max
  <2>1. v = AsU64(LegacyV(t, U64OrZero(c))) /\ VOffset \in Nat /\ U64Max \in Nat
    BY <1>5, WidthAssumption, HalfAssumption DEF V
  <2>2. LegacyV(t, c) = t.signature.parity + VOffset + 2 * c /\ LegacyV(t, c) \in Nat
    BY <1>1, <2>1 DEF LegacyV
  <2>3. CASE c <= U64Max
    <3>1. v = AsU64(LegacyV(t, c))
      BY <2>1, <2>3 DEF U64OrZero
    <3>2. /\ v \in Nat
          /\ LegacyV(t, c) <= U64Max => v = LegacyV(t, c)
          /\ LegacyV(t, c) > U64Max => v < LegacyV(t, c)
      BY <2>2, <3>1, AsU64Cuts
    <3>3. QED
      BY <1>1, <2>1, <2>2, <3>2
  <2>4. CASE c > U64Max
    <3>1. LegacyV(t, 0) = t.signature.parity + VOffset /\ v = AsU64(LegacyV(t, 0))
      BY <1>1, <2>1, <2>4 DEF U64OrZero, LegacyV
    <3>2. LegacyV(t, 0) \in Nat
      BY <1>1, <2>1, <3>1
    <3>3. v \in Nat /\ v <= LegacyV(t, 0)
      BY <2>1, <3>1, <3>2, AsU64Cuts
    <3>4. v < t.signature.parity + VOffset + 2 * c /\ LegacyV(t, c) > U64Max
      BY <1>1, <2>1, <2>2, <2>4, <3>1, <3>3
    <3>5. QED
      BY <1>1, <2>1, <2>2, <3>3, <3>4
  <2>5. QED
    BY <1>1, <2>1, <2>3, <2>4
<1>6. t.type # "legacy" => v = t.signature.parity
  BY DEF V
<1>7. QED
  BY <1>1, <1>2, <1>4, <1>5, <1>6 DEF Recovered

-----------------------------------------------------------------------------
(***************************************************************************)
(* What is sent was computed from the balance and the chain id read.       *)
(***************************************************************************)
Computed ==
  \A r \in Request :
    pc[r] \in {"submit", "ok"} =>
      /\ maxFee[r] = MaxFee(tx[r], read[r])
      /\ sent[r] = StarknetSignature(tx[r], U64OrZero(nodeChain))
ChainRead ==
  \A r \in Request : pc[r] = "balance" => chain[r] = U64OrZero(nodeChain)

IInv ==
  /\ TypeOK /\ Computed /\ ChainRead
  /\ DOMAIN sent = Request

LEMMA ChainType == ASSUME nodeChain \in ChainIds PROVE U64OrZero(nodeChain) \in 0..U64Max
  BY WidthAssumption, HalfAssumption DEF U64OrZero

(***************************************************************************)
(* Whatever becomes of one eth_sendRawTransaction keeps the invariant: the *)
(* balance read sets what the other steps rely on.                         *)
(***************************************************************************)
LEMMA RequestKeeps ==
  ASSUME IInv, NEW r \in Request,
         Decode(r) \/ ChainId(r) \/ ReadBalance(r) \/ Submit(r) \/ Fail(r)
  PROVE  IInv'
<1> USE DEF IInv, TypeOK, Computed, ChainRead
<1>a. CASE Decode(r) \/ Submit(r) \/ Fail(r)
  BY <1>a DEF Decode, Submit, Fail
<1>b. CASE ChainId(r)
  BY <1>b, ChainType DEF ChainId
<1>c. CASE ReadBalance(r)
  <2>1. MaxFee(tx[r], Joined(balance)) \in 0..U64Max
    BY MaxFeeBound, WidthAssumption, HalfAssumption
  <2>2. chain[r] = U64OrZero(nodeChain)
    BY <1>c DEF ReadBalance
  <2>3. TypeOK'
    BY <1>c, <2>1 DEF ReadBalance
  <2>4. (Computed /\ ChainRead /\ DOMAIN sent = Request)'
    BY <1>c, <2>2 DEF ReadBalance
  <2>5. QED
    BY <2>3, <2>4
<1>d. QED
  BY <1>a, <1>b, <1>c

(***************************************************************************)
(* A transfer to or from the account leaves the requests as they are, and  *)
(* the balance a word that its halves give back.                           *)
(***************************************************************************)
LEMMA TransferKeeps ==
  ASSUME IInv, Transfer
  PROVE  IInv'
<1>1. \A b \in 0..WordMax : Joined(Halves(b)) = b
  BY JoinedSplit, WidthAssumption, HalfAssumption
<1>2. QED
  BY <1>1 DEF Transfer, IInv, TypeOK, Computed, ChainRead

LEMMA Invariance == Spec => []IInv
<1>start. Init => IInv
  BY WidthAssumption, HalfAssumption, JoinedSplit
  DEF Init, IInv, TypeOK, Computed, ChainRead
<1>still. IInv /\ UNCHANGED vars => IInv'
  BY DEF vars, IInv, TypeOK, Computed, ChainRead
<1>step. IInv /\ [Next]_vars => IInv'
  BY RequestKeeps, TransferKeeps, <1>still DEF Next
<1> QED
  BY <1>start, <1>step, PTL DEF Spec

(***************************************************************************)
(* MaxFeeCovered: the max_fee of eth_sendRawTransaction never exceeds the  *)
(* balance the request read.                                               *)
(***************************************************************************)
THEOREM FeeCovered == Spec => []MaxFeeCovered
<1>1. IInv => MaxFeeCovered
  <2> SUFFICES ASSUME IInv, NEW r \in Request, pc[r] \in {"submit", "ok"}
               PROVE  maxFee[r] <= read[r]
    BY DEF MaxFeeCovered
  <2>1. tx[r] \in Tx /\ read[r] \in Nat /\ maxFee[r] = MaxFee(tx[r], read[r])
    BY WidthAssumption, HalfAssumption DEF IInv, TypeOK, Computed
  <2>2. QED
    BY <2>1, MaxFeeBound
<1>2. QED
  BY <1>1, Invariance, PTL

(***************************************************************************)
(* FeesLeft: a non-zero max_fee leaves the Ethereum fees in the balance.   *)
(***************************************************************************)
THEOREM EthFeesLeft == Spec => []FeesLeft
<1>1. IInv => FeesLeft
  <2> SUFFICES ASSUME IInv, NEW r \in Request, pc[r] \in {"submit", "ok"},
                      tx[r].fee <= U64Max, maxFee[r] > 0
               PROVE  tx[r].fee * tx[r].gas + maxFee[r] <= read[r]
    BY DEF FeesLeft
  <2>1. tx[r] \in Tx /\ read[r] \in Nat /\ maxFee[r] = MaxFee(tx[r], read[r])
    BY WidthAssumption, HalfAssumption DEF IInv, TypeOK, Computed
  <2>2. QED
    BY <2>1, MaxFeeLeaves
<1>2. QED
  BY <1>1, Invariance, PTL

(***************************************************************************)
(* SignatureKept: the account gets the signer's r and s in halves of any   *)
(* width, and with v a 64-bit number of any width it gets the parity       *)
(* unless the transaction is legacy and parity, 35 and twice the chain id  *)
(* exceed that width, in which case it does not.                           *)
(***************************************************************************)
THEOREM SignatureArrives == Spec => []SignatureKept
<1>1. IInv => SignatureKept
  <2> SUFFICES ASSUME IInv, NEW r \in Request, pc[r] \in {"submit", "ok"}
               PROVE  LET signature == tx[r].signature
                          recovered == Recovered(tx[r].type, sent[r], nodeChain)
                      IN  /\ recovered.r = signature.r /\ recovered.s = signature.s
                          /\ recovered.parity = signature.parity
                               <=> (tx[r].type = "legacy" => LegacyV(tx[r], nodeChain) <= U64Max)
    BY DEF SignatureKept
  <2>1. /\ tx[r] \in Tx /\ nodeChain \in ChainIds
        /\ sent[r] = StarknetSignature(tx[r], U64OrZero(nodeChain))
    BY DEF IInv, TypeOK, Computed
  <2>2. QED
    BY <2>1, SignatureRecovered
<1>2. QED
  BY <1>1, Invariance, PTL
=============================================================================
