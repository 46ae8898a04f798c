---------------------------- MODULE TokenBalances ----------------------------
(***************************************************************************)
(* alchemy_getTokenBalances: one future per token asked about, polled      *)
(* together by join_all; each is an EthereumErc20::balance_of, a call at   *)
(* the latest block in two awaits.  The latest block may be another one at *)
(* each.  A failing token has an error in its own entry.                   *)
(***************************************************************************)
EXTENDS Startup

CONSTANTS Client,     \* clients, with one call each
          Token,      \* token addresses
          Broken,     \* those whose balanceOf reverts or returns more than a word
          NoCode,     \* those that are no contract: the call returns nothing
          List,       \* the lists of tokens asked about
          MaxBalance  \* bound: the largest balance

ASSUME ListAssumption ==
  /\ List \subseteq Seq(Token) /\ Broken \subseteq Token
  /\ NoCode \subseteq Token \ Broken /\ MaxBalance \in Nat

VARIABLES held,     \* the node: the account's balance of each token at the latest block
          asked,    \* token_addresses
          future,   \* per token asked about, its FutureTokenBalance
          seen,     \* ghost: the balances of each token since the call
          down      \* ghost: the stores that were down since the call

tokenVars == <<held, asked, future, seen>>

NoBalance == -1
Sound == Token \ (Broken \cup NoCode)
Waiting(token) == [at |-> "nonce", token |-> token, balance |-> NoBalance, error |-> FALSE]

TokensTypeOK ==
  /\ held \in [Sound -> 0..MaxBalance]
  /\ asked \in [Client -> List \cup {<<>>}]
  /\ \A c \in Client : DOMAIN future[c] \subseteq DOMAIN asked[c]
  /\ seen \in [Client -> [Sound -> SUBSET (0..MaxBalance)]]
  /\ down \in [Client -> SUBSET {"node", "db"}]

TokensInit ==
  /\ held = [t \in Sound |-> 0]
  /\ asked = [c \in Client |-> <<>>] /\ future = [c \in Client |-> <<>>]
  /\ seen = [c \in Client |-> [t \in Sound |-> {}]]
  /\ down = [c \in Client |-> {}]

-----------------------------------------------------------------------------
AskTokens(c, list) ==
  /\ asked' = [asked EXCEPT ![c] = list]
  /\ future' = [future EXCEPT ![c] = [i \in DOMAIN list |-> Waiting(list[i])]]
  /\ seen' = [seen EXCEPT ![c] = [t \in Sound |-> {held[t]}]]
  /\ UNCHANGED held

Ready(f, balance) ==
  [f EXCEPT !.at = "ready", !.balance = balance, !.error = (balance = NoBalance)]

Failed(f) == Ready(f, NoBalance)

(***************************************************************************)
(* U256::try_from_be_slice of what balanceOf returned; nothing is zero.    *)
(***************************************************************************)
Returned(f) ==
  IF f.token \in Broken THEN Failed(f)
  ELSE IF f.token \in NoCode THEN Ready(f, 0) ELSE Ready(f, held[f.token])

(***************************************************************************)
(* One future: the nonce of the zero address, then the call.               *)
(***************************************************************************)
Polled(f) ==
  IF ~nodeUp THEN Failed(f)
  ELSE IF f.at = "nonce" THEN [f EXCEPT !.at = "call"] ELSE Returned(f)

Resume(c, i) ==
  /\ i \in DOMAIN future[c] /\ future[c][i].at # "ready"
  /\ future' = [future EXCEPT ![c][i] = Polled(@)]
  /\ UNCHANGED <<held, asked, seen>>

\* A mutant of AllReady: tokens that failed are waited for.
AllFound(c) == \A i \in DOMAIN future[c] : future[c][i].balance # NoBalance
AllReady(c) == \A i \in DOMAIN future[c] : future[c][i].at = "ready"

\* A mutant of Joined: the tokens that failed are left out.
JoinedGood(c) == SelectSeq(future[c], LAMBDA f : ~f.error)
Joined(c) == future[c]

\* The futures are dropped with their results.
Drop(c) == future' = [future EXCEPT ![c] = <<>>] /\ UNCHANGED <<held, asked, seen>>

(***************************************************************************)
(* A block is sealed with a transfer of one token.                         *)
(***************************************************************************)
TokenMoves ==
  /\ \E t \in Sound, b \in 0..MaxBalance :
       /\ held' = [held EXCEPT ![t] = b]
       /\ seen' = [c \in Client |->
                   IF future[c] = <<>> THEN seen[c] ELSE [seen[c] EXCEPT ![t] = @ \cup {b}]]
  /\ UNCHANGED <<asked, future>>

-----------------------------------------------------------------------------
(***************************************************************************)
(* The answer has an entry for each token asked about, in that order, also *)
(* for one asked about twice; a balance is one the account had of that     *)
(* very token while the call ran, and an error is the token's own doing,   *)
(* or the node's: no token can fail or shift another.                      *)
(***************************************************************************)
Truthful(c, token, entry) ==
  IF entry.error THEN entry.balance = NoBalance /\ (token \in Broken \/ "node" \in down[c])
  ELSE entry.balance \in (IF token \in NoCode THEN {0} ELSE seen[c][token])

TokensAnsweredInOrder(c, entries) ==
  /\ DOMAIN entries = DOMAIN asked[c]
  /\ \A i \in DOMAIN entries :
       entries[i].token = asked[c][i] /\ Truthful(c, asked[c][i], entries[i])
=============================================================================
