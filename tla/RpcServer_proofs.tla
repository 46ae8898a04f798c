--------------------------- MODULE RpcServer_proofs ---------------------------
(***************************************************************************)
(* alchemy_getTokenBalances keeps its tokens apart, for any number of      *)
(* clients, any lists of tokens, repetitions included, any set of tokens   *)
(* that fail, and any failures of the node.  The argument: a future is     *)
(* made for each place of the list and only ever changes in that place;    *)
(* what it becomes is true of its own token when it becomes ready, and     *)
(* stays true, as balances seen and stores found down are only added to.   *)
(***************************************************************************)
EXTENDS RpcServer, SequenceTheorems, TLAPS

FutureType == [at : {"nonce", "call", "ready"}, token : Token, balance : Int, error : BOOLEAN]

StoreTypes ==
  /\ nodeUp \in BOOLEAN
  /\ held \in [Sound -> 0..MaxBalance]
  /\ seen \in [Client -> [Sound -> SUBSET (0..MaxBalance)]]
  /\ down \in [Client -> SUBSET {"node", "db"}]

CallTypes ==
  /\ pc \in [Client -> {"idle", "steps", "tokens", "done"}]
  /\ kind \in [Client -> {"none", "static", "not_supported", "health", "reading", "tokens"}]
  /\ asked \in [Client -> Seq(Token)]
  /\ future \in [Client -> Seq(FutureType)]
  /\ entries \in [Client -> Seq(FutureType)]

(***************************************************************************)
(* A call under way: its futures are those of its list, the ready ones     *)
(* true, and what the next may read is on record.                          *)
(***************************************************************************)
True(c, token, entry) ==
  /\ entry.token = token
  /\ Truthful(c, token, entry)
  /\ ~entry.error => token \notin Broken

OwnEntry(c, i) ==
  /\ future[c][i].token = asked[c][i]
  /\ future[c][i].at = "ready" => True(c, asked[c][i], future[c][i])

Answered(c) ==
  /\ DOMAIN entries[c] = DOMAIN asked[c]
  /\ \A i \in DOMAIN entries[c] : True(c, asked[c][i], entries[c][i])

Collecting(c) ==
  /\ DOMAIN future[c] = DOMAIN asked[c]
  /\ \A i \in DOMAIN future[c] : OwnEntry(c, i)
  /\ \A i \in DOMAIN future[c], t \in Sound : held[t] \in seen[c][t]
  /\ ~nodeUp => "node" \in down[c]

Kept(c) ==
  /\ pc[c] = "steps" => kind[c] # "tokens"
  /\ pc[c] = "tokens" => Collecting(c)
  /\ pc[c] = "done" /\ kind[c] = "tokens" => Answered(c)

IInv == StoreTypes /\ CallTypes /\ \A c \in Client : Kept(c)

LEMMA InvInit == Init => IInv
<1> SUFFICES ASSUME Init PROVE IInv
  OBVIOUS
<1>1. StoreTypes
  BY ListAssumption DEF Init, StartupInit, TokensInit, StoreTypes
<1>2. CallTypes
  BY DEF Init, TokensInit, CallTypes
<1>3. \A c \in Client : Kept(c)
  BY DEF Init, Kept
<1>4. QED
  BY <1>1, <1>2, <1>3 DEF IInv

-----------------------------------------------------------------------------
(***************************************************************************)
(* What was true of an entry stays so: only more was seen, more was down.  *)
(***************************************************************************)
Recorded(c) ==
  /\ \A t \in Sound : seen[c][t] \subseteq seen'[c][t]
  /\ down[c] \subseteq down'[c]

LEMMA TruthStays ==
  ASSUME NEW c \in Client, Recorded(c), NEW token \in Token, NEW entry, True(c, token, entry)
  PROVE  True(c, token, entry)'
<1>1. CASE entry.error
  BY <1>1 DEF True, Truthful, Recorded
<1>2. CASE ~entry.error
  <2>1. entry.balance \in (IF token \in NoCode THEN {0} ELSE seen[c][token])
    BY <1>2 DEF True, Truthful
  <2>2. token \notin NoCode => token \in Sound
    BY <1>2 DEF True, Sound
  <2>3. entry.balance \in (IF token \in NoCode THEN {0} ELSE seen'[c][token])
    BY <2>1, <2>2 DEF Recorded
  <2>4. QED
    BY <1>2, <2>3 DEF True, Truthful
<1>3. QED
  BY <1>1, <1>2

(***************************************************************************)
(* The places of a list, and of what is kept for them.                     *)
(***************************************************************************)
LEMMA Places ==
  ASSUME CallTypes, NEW c \in Client
  PROVE  /\ \A i \in DOMAIN asked[c] : asked[c][i] \in Token
         /\ \A i \in DOMAIN future[c] : future[c][i] \in FutureType
<1>1. asked[c] \in Seq(Token) /\ future[c] \in Seq(FutureType)
  BY DEF CallTypes
<1>2. QED
  BY <1>1, ElementOfSeq

(***************************************************************************)
(* A call none of whose steps is taken.                                    *)
(***************************************************************************)
LEMMA OthersKept ==
  ASSUME NEW c \in Client, CallTypes, Kept(c), Recorded(c),
         pc'[c] = pc[c], kind'[c] = kind[c], asked'[c] = asked[c],
         future'[c] = future[c], entries'[c] = entries[c],
         pc[c] = "tokens" =>
           /\ \A i \in DOMAIN future[c], t \in Sound : held'[t] \in seen'[c][t]
           /\ ~nodeUp' => "node" \in down'[c]
  PROVE  Kept(c)'
<1>1. CASE pc[c] = "tokens"
  <2>1. ASSUME NEW i \in DOMAIN future[c] PROVE OwnEntry(c, i)'
    <3>1. asked[c][i] \in Token /\ OwnEntry(c, i)
      BY <1>1, <2>1, Places DEF Kept, Collecting
    <3>2. future[c][i].at = "ready" => True(c, asked[c][i], future[c][i])'
      BY <3>1, TruthStays DEF OwnEntry
    <3>3. QED
      BY <3>1, <3>2 DEF OwnEntry, True, Truthful
  <2>2. Collecting(c)'
    BY <1>1, <2>1 DEF Kept, Collecting
  <2>3. QED
    BY <1>1, <2>2 DEF Kept
<1>2. CASE pc[c] = "done" /\ kind[c] = "tokens"
  <2>1. Answered(c)
    BY <1>2 DEF Kept
  <2>2. ASSUME NEW i \in DOMAIN entries[c] PROVE True(c, asked[c][i], entries[c][i])'
    <3>1. asked[c][i] \in Token /\ True(c, asked[c][i], entries[c][i])
      BY <2>1, <2>2, Places DEF Answered
    <3>2. QED
      BY <3>1, TruthStays
  <2>3. Answered(c)'
    BY <2>1, <2>2 DEF Answered, True, Truthful
  <2>4. QED
    BY <1>2, <2>3 DEF Kept
<1>3. CASE pc[c] # "tokens" /\ ~(pc[c] = "done" /\ kind[c] = "tokens")
  BY <1>3 DEF Kept
<1>4. QED
  BY <1>1, <1>2, <1>3
-----------------------------------------------------------------------------
(***************************************************************************)
(* One turn of a future: it stays that of its token, and when it becomes   *)
(* ready, it is true.                                                      *)
(***************************************************************************)
LEMMA PolledTrue ==
  ASSUME StoreTypes, NEW c \in Client, NEW f \in FutureType, f.at # "ready",
         \A t \in Sound : held[t] \in seen[c][t],
         ~nodeUp => "node" \in down[c]
  PROVE  /\ Polled(f) \in FutureType
         /\ Polled(f).token = f.token
         /\ Polled(f).at = "ready" => True(c, f.token, Polled(f))
<1>1. f.token \in Token /\ f.balance \in Int /\ f.error \in BOOLEAN
  BY DEF FutureType
<1>2. ASSUME NEW b \in Int
      PROVE  /\ Ready(f, b) \in FutureType /\ Ready(f, b).token = f.token
             /\ Ready(f, b).balance = b /\ (Ready(f, b).error <=> b = NoBalance)
  BY <1>1 DEF Ready, FutureType
<1>3. CASE ~nodeUp
  <2>1. Polled(f) = Ready(f, NoBalance) /\ NoBalance \in Int
    BY <1>3 DEF Polled, Failed, NoBalance
  <2>2. Polled(f).error /\ Polled(f).balance = NoBalance
    BY <2>1, <1>2
  <2>3. QED
    BY <1>2, <1>3, <2>1, <2>2 DEF True, Truthful
<1>4. CASE nodeUp /\ f.at = "nonce"
  <2>1. Polled(f) = [f EXCEPT !.at = "call"]
    BY <1>4 DEF Polled
  <2>2. QED
    BY <2>1 DEF FutureType
<1>5. CASE nodeUp /\ f.at # "nonce"
  <2>1. Polled(f) = Returned(f)
    BY <1>5 DEF Polled
  <2>2. CASE f.token \in Broken
    <3>1. Polled(f) = Ready(f, NoBalance) /\ NoBalance \in Int
      BY <2>1, <2>2 DEF Returned, Failed, NoBalance
    <3>2. QED
      BY <1>2, <2>2, <3>1 DEF True, Truthful
  <2>3. CASE f.token \in NoCode /\ f.token \notin Broken
    <3>1. Polled(f) = Ready(f, 0)
      BY <2>1, <2>3 DEF Returned
    <3>2. 0 \in Int /\ 0 # NoBalance
      BY DEF NoBalance
    <3>3. QED
      BY <1>2, <2>3, <3>1, <3>2 DEF True, Truthful
  <2>4. CASE f.token \notin NoCode /\ f.token \notin Broken
    <3>1. f.token \in Sound
      BY <1>1, <2>4 DEF Sound
    <3>2. Polled(f) = Ready(f, held[f.token])
      BY <2>1, <2>4 DEF Returned
    <3>3. held[f.token] \in Int /\ held[f.token] # NoBalance
      BY <3>1, ListAssumption DEF StoreTypes, NoBalance
    <3>4. QED
      BY <1>2, <2>4, <3>1, <3>2, <3>3 DEF True, Truthful
  <2>5. QED
    BY <2>2, <2>3, <2>4
<1>6. QED
  BY <1>3, <1>4, <1>5

(***************************************************************************)
(* The stores move on, and what they were and are is on record.            *)
(***************************************************************************)
LEMMA OutsideKeeps == IInv /\ Outside => IInv'
<1> SUFFICES ASSUME IInv, Outside PROVE IInv'
  OBVIOUS
<1>a. StoreTypes /\ CallTypes /\ \A c \in Client : Kept(c)
  BY DEF IInv
<1>b. UNCHANGED <<pc, kind, entries>>
  BY DEF Outside, callVars
<1>1. CASE Boot /\ UNCHANGED <<storeVars, tokenVars, up, down>>
  <2>1. UNCHANGED <<nodeUp, held, asked, future, seen, down>>
    BY <1>1 DEF storeVars, tokenVars
  <2>2. StoreTypes' /\ CallTypes'
    BY <1>a, <1>b, <2>1 DEF StoreTypes, CallTypes
  <2>3. \A c \in Client : Kept(c)'
    <3> TAKE c \in Client
    <3>1. Recorded(c)
      BY <2>1 DEF Recorded
    <3>2. QED
      BY <1>a, <1>b, <2>1, <3>1, OthersKept DEF Kept, Collecting
  <2>4. QED
    BY <2>2, <2>3 DEF IInv
<1>2. ASSUME StoresChange, UNCHANGED tokenVars,
             down' = [c \in Client |-> IF Busy(c) THEN down[c] \cup DownNow(nodeUp', dbUp')
                                       ELSE down[c]]
      PROVE  IInv'
  <2>1. UNCHANGED <<held, asked, future, seen>>
    BY <1>2 DEF tokenVars
  <2>2. nodeUp' \in BOOLEAN
    BY <1>a, <1>2 DEF StoresChange, StoreTypes
  <2>3. DownNow(nodeUp', dbUp') \subseteq {"node", "db"}
    BY DEF DownNow
  <2>4. ~nodeUp' => "node" \in DownNow(nodeUp', dbUp')
    BY DEF DownNow
  <2>5. down' \in [Client -> SUBSET {"node", "db"}]
    BY <1>a, <1>2, <2>3 DEF StoreTypes
  <2>6. StoreTypes' /\ CallTypes'
    BY <1>a, <1>b, <2>1, <2>2, <2>5 DEF StoreTypes, CallTypes
  <2>7. \A c \in Client : Kept(c)'
    <3> TAKE c \in Client
    <3>1. Recorded(c)
      BY <1>2, <2>1 DEF Recorded
    <3>2. pc[c] = "tokens" /\ ~nodeUp' => "node" \in down'[c]
      BY <1>2, <2>4 DEF Busy
    <3>3. QED
      BY <1>a, <1>b, <2>1, <3>1, <3>2, OthersKept DEF Kept, Collecting
  <2>8. QED
    BY <2>6, <2>7 DEF IInv
<1>3. ASSUME TokenMoves, UNCHANGED <<bootVars, storeVars, up, down>> PROVE IInv'
  <2>1. UNCHANGED <<nodeUp, asked, future, down>>
    BY <1>3 DEF TokenMoves, storeVars
  <2>2. PICK t \in Sound, b \in 0..MaxBalance :
          /\ held' = [held EXCEPT ![t] = b]
          /\ seen' = [c \in Client |->
                        IF future[c] = <<>> THEN seen[c] ELSE [seen[c] EXCEPT ![t] = @ \cup {b}]]
    BY <1>3 DEF TokenMoves
  <2>3. held' \in [Sound -> 0..MaxBalance]
    BY <1>a, <2>2 DEF StoreTypes
  <2>4. ASSUME NEW c \in Client
        PROVE  /\ seen'[c] \in [Sound -> SUBSET (0..MaxBalance)]
               /\ \A u \in Sound : seen[c][u] \subseteq seen'[c][u]
               /\ future[c] # <<>> => b \in seen'[c][t]
    <3>1. seen[c] \in [Sound -> SUBSET (0..MaxBalance)]
      BY <1>a DEF StoreTypes
    <3>2. seen'[c] = IF future[c] = <<>> THEN seen[c] ELSE [seen[c] EXCEPT ![t] = @ \cup {b}]
      BY <2>2
    <3>3. QED
      BY <3>1, <3>2
  <2>5. seen' \in [Client -> [Sound -> SUBSET (0..MaxBalance)]]
    BY <2>2, <2>4
  <2>6. StoreTypes' /\ CallTypes'
    BY <1>a, <1>b, <2>1, <2>3, <2>5 DEF StoreTypes, CallTypes
  <2>7. \A c \in Client : Kept(c)'
    <3> TAKE c \in Client
    <3>1. Recorded(c)
      BY <2>1, <2>4 DEF Recorded
    <3>2. ASSUME pc[c] = "tokens", NEW i \in DOMAIN future[c], NEW u \in Sound
          PROVE  held'[u] \in seen'[c][u]
      <4>1. future[c] # <<>>
        BY <3>2
      <4>2. held[u] \in seen[c][u]
        BY <1>a, <3>2 DEF Kept, Collecting
      <4>3. QED
        BY <1>a, <2>2, <2>4, <4>1, <4>2 DEF StoreTypes
    <3>3. pc[c] = "tokens" /\ ~nodeUp' => "node" \in down'[c]
      BY <1>a, <2>1 DEF Kept, Collecting
    <3>4. QED
      BY <1>a, <1>b, <2>1, <3>1, <3>2, <3>3, OthersKept
  <2>8. QED
    BY <2>6, <2>7 DEF IInv
<1>4. QED
  BY <1>1, <1>2, <1>3 DEF Outside
-----------------------------------------------------------------------------
(***************************************************************************)
(* A call that comes in has nothing to rely on; the others see nothing of  *)
(* it.                                                                     *)
(***************************************************************************)
LEMMA CalledKeeps ==
  ASSUME IInv, NEW c \in Client, NEW k, Called(c, k), held' = held,
         \A d \in Client \ {c} : /\ pc'[d] = pc[d] /\ asked'[d] = asked[d]
                                 /\ future'[d] = future[d] /\ seen'[d] = seen[d]
  PROVE  \A d \in Client \ {c} : Kept(d)'
<1>a. StoreTypes /\ CallTypes /\ \A d \in Client : Kept(d)
  BY DEF IInv
<1> SUFFICES ASSUME NEW d \in Client \ {c} PROVE Kept(d)'
  OBVIOUS
<1>1. UNCHANGED <<nodeUp, held, entries>> /\ kind'[d] = kind[d] /\ down'[d] = down[d]
  BY <1>a DEF Called, storeVars, StoreTypes, CallTypes
<1>2. Recorded(d)
  BY <1>1 DEF Recorded
<1>3. QED
  BY <1>a, <1>1, <1>2, OthersKept DEF Kept, Collecting

LEMMA CalledTypes ==
  ASSUME IInv, NEW c \in Client, NEW k, Called(c, k)
  PROVE  /\ down' \in [Client -> SUBSET {"node", "db"}]
         /\ UNCHANGED <<nodeUp, entries>>
         /\ ~nodeUp => "node" \in down'[c]
         /\ kind' = [kind EXCEPT ![c] = k]
<1>1. DownNow(nodeUp, dbUp) \subseteq {"node", "db"}
      /\ (~nodeUp => "node" \in DownNow(nodeUp, dbUp))
  BY DEF DownNow
<1>2. down' = [down EXCEPT ![c] = DownNow(nodeUp, dbUp)]
      /\ UNCHANGED <<nodeUp, entries>> /\ kind' = [kind EXCEPT ![c] = k]
  BY DEF Called, storeVars
<1>3. down \in [Client -> SUBSET {"node", "db"}]
  BY DEF IInv, StoreTypes
<1>4. QED
  BY <1>1, <1>2, <1>3

LEMMA InvStep == IInv /\ [Next]_vars => IInv'
<1> SUFFICES ASSUME IInv, [Next]_vars PROVE IInv'
  OBVIOUS
<1>a. StoreTypes /\ CallTypes /\ \A c \in Client : Kept(c)
  BY DEF IInv
<1>1. CASE Outside
  BY <1>1, OutsideKeeps
<1>2. ASSUME NEW c \in Client, NEW k \in {"static", "not_supported"}, NEW code,
             AnswerAtOnce(c, k, code)
      PROVE  IInv'
  <2>1. /\ Called(c, k) /\ pc' = [pc EXCEPT ![c] = "done"]
        /\ held' = held /\ asked' = asked /\ future' = future /\ seen' = seen
    BY <1>2 DEF AnswerAtOnce, tokenVars
  <2>2. StoreTypes' /\ CallTypes'
    <3>1. /\ down' \in [Client -> SUBSET {"node", "db"}] /\ UNCHANGED <<nodeUp, entries>>
          /\ kind' = [kind EXCEPT ![c] = k]
      BY <2>1, CalledTypes
    <3>2. StoreTypes'
      BY <1>a, <2>1, <3>1 DEF StoreTypes
    <3>3. CallTypes'
      BY <1>a, <2>1, <3>1 DEF CallTypes
    <3>4. QED
      BY <3>2, <3>3
  <2>3. \A d \in Client \ {c} : Kept(d)'
    BY <1>a, <2>1, CalledKeeps DEF CallTypes
  <2>4. pc'[c] = "done" /\ kind'[c] # "tokens"
    BY <1>a, <2>1, CalledTypes DEF CallTypes
  <2>5. QED
    BY <2>2, <2>3, <2>4 DEF IInv, Kept
<1>3. ASSUME NEW c \in Client, NEW m \in Reading, BeginSteps(c, m) PROVE IInv'
  <2> DEFINE k == IF m = "net_health" THEN "health" ELSE "reading"
  <2>1. /\ Called(c, k) /\ pc' = [pc EXCEPT ![c] = "steps"]
        /\ UNCHANGED <<held, asked, future, seen>>
    BY <1>3 DEF BeginSteps, tokenVars
  <2>2. StoreTypes' /\ CallTypes'
    <3>1. /\ down' \in [Client -> SUBSET {"node", "db"}] /\ UNCHANGED <<nodeUp, entries>>
          /\ kind' = [kind EXCEPT ![c] = k]
      BY <2>1, CalledTypes
    <3>2. StoreTypes'
      BY <1>a, <2>1, <3>1 DEF StoreTypes
    <3>3. CallTypes'
      BY <1>a, <2>1, <3>1 DEF CallTypes
    <3>4. QED
      BY <3>2, <3>3
  <2>3. \A d \in Client \ {c} : Kept(d)'
    BY <1>a, <2>1, CalledKeeps DEF CallTypes
  <2>4. pc'[c] = "steps" /\ kind'[c] # "tokens"
    BY <1>a, <2>1, CalledTypes DEF CallTypes
  <2>5. QED
    BY <2>2, <2>3, <2>4 DEF IInv, Kept
<1>4. ASSUME NEW c \in Client, NEW list \in List, BeginTokens(c, list) PROVE IInv'
  <2>1. Called(c, "tokens") /\ AskTokens(c, list) /\ pc' = [pc EXCEPT ![c] = "tokens"]
    BY <1>4 DEF BeginTokens
  <2>2. /\ asked' = [asked EXCEPT ![c] = list]
        /\ future' = [future EXCEPT ![c] = [i \in DOMAIN list |-> Waiting(list[i])]]
        /\ seen' = [seen EXCEPT ![c] = [t \in Sound |-> {held[t]}]]
        /\ held' = held
    BY <2>1 DEF AskTokens
  <2>3. list \in Seq(Token)
    BY ListAssumption
  <2>4. [i \in DOMAIN list |-> Waiting(list[i])] \in Seq(FutureType)
    <3>1. \A i \in 1..Len(list) : Waiting(list[i]) \in FutureType
      BY <2>3, ElementOfSeq DEF Waiting, FutureType, NoBalance
    <3>2. DOMAIN list = 1..Len(list) /\ Len(list) \in Nat
      BY <2>3
    <3>3. QED
      BY <3>1, <3>2
  <2>5. [t \in Sound |-> {held[t]}] \in [Sound -> SUBSET (0..MaxBalance)]
    BY <1>a DEF StoreTypes
  <2>6. StoreTypes'
    BY <1>a, <2>1, <2>2, <2>5, CalledTypes DEF StoreTypes
  <2>7. CallTypes'
    <3>1. kind' = [kind EXCEPT ![c] = "tokens"] /\ entries' = entries
      BY <2>1, CalledTypes
    <3>2. QED
      BY <1>a, <2>1, <2>2, <2>3, <2>4, <3>1 DEF CallTypes
  <2>8. \A d \in Client \ {c} : Kept(d)'
    BY <1>a, <2>1, <2>2, CalledKeeps DEF CallTypes, StoreTypes
  <2>9. Collecting(c)'
    <3>1. asked'[c] = list /\ future'[c] = [i \in DOMAIN list |-> Waiting(list[i])]
      BY <1>a, <2>2 DEF CallTypes
    <3>2. \A i \in DOMAIN list : future'[c][i].token = list[i] /\ future'[c][i].at = "nonce"
      BY <3>1 DEF Waiting
    <3>3. \A t \in Sound : held'[t] \in seen'[c][t]
      BY <1>a, <2>2 DEF StoreTypes
    <3>4. ~nodeUp' => "node" \in down'[c]
      BY <2>1, CalledTypes
    <3>5. QED
      BY <3>1, <3>2, <3>3, <3>4 DEF Collecting, OwnEntry
  <2>10. pc'[c] = "tokens"
    BY <1>a, <2>1 DEF CallTypes
  <2>11. QED
    BY <2>6, <2>7, <2>8, <2>9, <2>10 DEF IInv, Kept
<1>5. ASSUME NEW c \in Client, GoOn(c) \/ Fail(c) PROVE IInv'
  <2>1. /\ UNCHANGED <<nodeUp, held, asked, future, seen, kind, entries, down>>
        /\ pc[c] = "steps" /\ pc' \in {pc, [pc EXCEPT ![c] = "done"]}
    <3>1. CASE GoOn(c)
      <4>1. pc' = [pc EXCEPT ![c] = IF Rest(c) = <<>> THEN "done" ELSE @]
        BY <3>1 DEF GoOn
      <4>2. pc' \in {pc, [pc EXCEPT ![c] = "done"]}
        BY <4>1, <1>a DEF CallTypes
      <4>3. QED
        BY <3>1, <4>2 DEF GoOn, storeVars, tokenVars
    <3>2. CASE Fail(c)
      BY <3>2 DEF Fail, storeVars, tokenVars
    <3>3. QED
      BY <1>5, <3>1, <3>2
  <2>2. StoreTypes' /\ CallTypes'
    BY <1>a, <2>1 DEF StoreTypes, CallTypes
  <2>3. \A d \in Client \ {c} : Kept(d)'
    <3> TAKE d \in Client \ {c}
    <3>1. Recorded(d) /\ pc'[d] = pc[d]
      BY <1>a, <2>1 DEF Recorded, CallTypes
    <3>2. QED
      BY <1>a, <2>1, <3>1, OthersKept DEF Kept, Collecting
  <2>4. kind'[c] # "tokens" /\ pc'[c] # "tokens"
    BY <1>a, <2>1 DEF Kept, CallTypes
  <2>5. QED
    BY <2>2, <2>3, <2>4 DEF IInv, Kept
<1>6. ASSUME NEW c \in Client, NEW i \in DOMAIN future[c], PollToken(c, i) PROVE IInv'
  <2>1. /\ pc[c] = "tokens" /\ future[c][i].at # "ready"
        /\ future' = [future EXCEPT ![c][i] = Polled(@)]
        /\ UNCHANGED <<nodeUp, held, asked, seen, pc, kind, entries, down>>
    BY <1>6 DEF PollToken, Resume, storeVars, callVars
  <2>2. Collecting(c) /\ future[c][i] \in FutureType /\ asked[c][i] \in Token
    BY <1>a, <1>6, <2>1, Places DEF Kept, Collecting
  <2>3. /\ Polled(future[c][i]) \in FutureType
        /\ Polled(future[c][i]).token = asked[c][i]
        /\ Polled(future[c][i]).at = "ready" => True(c, asked[c][i], Polled(future[c][i]))
    BY <1>a, <1>6, <2>1, <2>2, PolledTrue DEF Collecting, OwnEntry
  <2>4. /\ future'[c] = [future[c] EXCEPT ![i] = Polled(future[c][i])]
        /\ \A d \in Client \ {c} : future'[d] = future[d]
    BY <1>a, <2>1 DEF CallTypes
  <2>5. future[c] \in Seq(FutureType) /\ i \in 1..Len(future[c])
    BY <1>a, <1>6 DEF CallTypes
  <2>6. future'[c] \in Seq(FutureType) /\ DOMAIN future'[c] = DOMAIN future[c]
    BY <2>3, <2>4, <2>5, ExceptSeq
  <2>7. future' \in [Client -> Seq(FutureType)]
    <3>1. future' = [future EXCEPT ![c] = [future[c] EXCEPT ![i] = Polled(future[c][i])]]
      BY <1>a, <2>1 DEF CallTypes
    <3>2. QED
      BY <1>a, <2>4, <2>6, <3>1 DEF CallTypes
  <2>8. StoreTypes' /\ CallTypes'
    BY <1>a, <2>1, <2>7 DEF StoreTypes, CallTypes
  <2>9. \A d \in Client \ {c} : Kept(d)'
    <3> TAKE d \in Client \ {c}
    <3>1. Recorded(d)
      BY <2>1 DEF Recorded
    <3>2. QED
      BY <1>a, <2>1, <2>4, <3>1, OthersKept DEF Kept, Collecting
  <2>10. ASSUME NEW j \in DOMAIN future'[c] PROVE OwnEntry(c, j)'
    <3>1. OwnEntry(c, j) /\ j \in DOMAIN future[c]
      BY <2>2, <2>6, <2>10 DEF Collecting
    <3>2. future'[c][j] = IF j = i THEN Polled(future[c][i]) ELSE future[c][j]
      BY <2>4, <3>1
    <3>3. QED
      BY <2>1, <2>3, <3>1, <3>2 DEF OwnEntry, True, Truthful
  <2>11. Collecting(c)'
    BY <2>1, <2>2, <2>6, <2>10 DEF Collecting
  <2>12. QED
    BY <2>1, <2>8, <2>9, <2>11 DEF IInv, Kept
<1>7. ASSUME NEW c \in Client, JoinAll(c) PROVE IInv'
  <2>1. /\ pc[c] = "tokens" /\ AllReady(c) /\ pc' = [pc EXCEPT ![c] = "done"]
        /\ entries' = [entries EXCEPT ![c] = future[c]]
        /\ future' = [future EXCEPT ![c] = <<>>]
        /\ UNCHANGED <<nodeUp, held, asked, seen, kind, down>>
    BY <1>7 DEF JoinAll, Joined, Drop, storeVars
  <2>2. StoreTypes' /\ CallTypes'
    BY <1>a, <2>1 DEF StoreTypes, CallTypes
  <2>3. \A d \in Client \ {c} : Kept(d)'
    <3> TAKE d \in Client \ {c}
    <3>1. Recorded(d) /\ pc'[d] = pc[d] /\ entries'[d] = entries[d] /\ future'[d] = future[d]
      BY <1>a, <2>1 DEF Recorded, CallTypes
    <3>2. QED
      BY <1>a, <2>1, <3>1, OthersKept DEF Kept, Collecting
  <2>4. Answered(c)'
    <3>1. entries'[c] = future[c] /\ asked'[c] = asked[c]
      BY <1>a, <2>1 DEF CallTypes
    <3>2. Collecting(c)
      BY <1>a, <2>1 DEF Kept
    <3>3. \A i \in DOMAIN future[c] : True(c, asked[c][i], future[c][i])
      BY <2>1, <3>2 DEF AllReady, Collecting, OwnEntry
    <3>4. QED
      BY <2>1, <3>1, <3>2, <3>3 DEF Answered, Collecting, True, Truthful
  <2>5. pc'[c] = "done"
    BY <1>a, <2>1 DEF CallTypes
  <2>6. QED
    BY <2>2, <2>3, <2>4, <2>5 DEF IInv, Kept
<1>8. CASE UNCHANGED vars
  <2>1. UNCHANGED <<nodeUp, held, seen, down, pc, kind, asked, future, entries>>
    BY <1>8 DEF vars, storeVars, tokenVars, callVars
  <2>2. StoreTypes' /\ CallTypes'
    BY <1>a, <2>1 DEF StoreTypes, CallTypes
  <2>3. \A c \in Client : Kept(c)'
    <3> TAKE c \in Client
    <3>1. Recorded(c)
      BY <2>1 DEF Recorded
    <3>2. QED
      BY <1>a, <2>1, <3>1, OthersKept DEF Kept, Collecting
  <2>4. QED
    BY <2>2, <2>3 DEF IInv
<1>9. QED
  BY <1>1, <1>2, <1>3, <1>4, <1>5, <1>6, <1>7, <1>8
  DEF Next, HandlerStep, AnswerStatic, RefuseMethod

LEMMA Invariance == Spec => []IInv
  BY InvInit, InvStep, PTL DEF Spec

(***************************************************************************)
(* TokensInOrder: each place of an answer to alchemy_getTokenBalances has  *)
(* the token asked about there, with a balance it had, or an error that is *)
(* its own or the node's.                                                  *)
(***************************************************************************)
THEOREM TokensOrdered == Spec => []TokensInOrder
<1>1. IInv => TokensInOrder
  BY DEF IInv, Kept, Answered, True, TokensInOrder, TokensAnsweredInOrder
<1>2. QED
  BY <1>1, Invariance, PTL
=============================================================================
