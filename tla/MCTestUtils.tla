----------------------------- MODULE MCTestUtils -----------------------------
(* What stands beside the server: the tests with their accounts and their  *)
(* database, and the tools that make a genesis and import a chain.  They   *)
(* are different programs that share no state, so a behaviour here is one  *)
(* of either kind, the variables of the other at rest.                     *)
(*                                                                         *)
(* Two tests have two operations each; of the fixture there are a header   *)
(* and a transaction.  The tools have the five contracts, one of them in   *)
(* two files that differ, three EVM addresses and six chain files: one     *)
(* signer with an empty body, two signers, a nonce that fits the counter   *)
(* but not the signer, an account without a key, an unsound transaction, a *)
(* corrupt last block.                                                     *)
EXTENDS TestAccounts, Hive, TLC

CONSTANTS t1, t2,
          kakarot1, kakarot2, account1, eoa1, proxy1, precompiles1, a, b, c, zero

VARIABLE program   \* "tests" or "tools"

MCDoc == <<Headers[5], Transactions[1]>>

MCArtifact == 1..6
MCStem == <<"kakarot", "contract_account", "externally_owned_account", "proxy",
            "precompiles", "kakarot">>
MCHash == <<kakarot1, account1, eoa1, proxy1, precompiles1, kakarot2>>
MCAlloc == a :> [balance |-> 3, code |-> FALSE] @@ b :> [balance |-> 0, code |-> FALSE]
             @@ c :> [balance |-> 1, code |-> TRUE]

T(signer, n) == [signer |-> signer, nonce |-> n, sound |-> TRUE]
Bodies(seq) == [i \in DOMAIN seq |-> [txs |-> seq[i]]]
Good(seq) == [bodies |-> Bodies(seq), tail |-> FALSE]
MCFile ==
  {Good(<< <<T(a, 0)>>, <<>>, <<T(a, 1), T(a, 2)>> >>),
   Good(<< <<T(a, 0)>>, <<T(b, 0)>> >>),
   Good(<< <<T(a, 0), T(b, 1)>>, <<T(a, 1)>> >>),
   Good(<< <<>>, <<T(c, 0)>>, <<T(a, 0)>> >>),
   Good(<< <<T(b, 0), [T(b, 1) EXCEPT !.sound = FALSE]>> >>),
   [Good(<< <<T(a, 0)>> >>) EXCEPT !.tail = TRUE]}

MCInit ==
  /\ Init /\ HiveInit
  /\ \/ program = "tools"
     \/ program = "tests" /\ file = CHOOSE f \in File : TRUE   \* which is not read

Tests(A) == program = "tests" /\ A /\ UNCHANGED <<hiveVars, program>>
Tools(A) == program = "tools" /\ A /\ UNCHANGED <<vars, program>>

MCNext == Tests(Next) \/ Tools(HiveNext)

MCVars == <<vars, hiveVars, program>>

(* The fairness of TestAccounts' Spec and of HiveSpec. *)
MCSpec ==
  /\ MCInit /\ [][MCNext]_MCVars
  /\ \A t \in Test : WF_MCVars(Tests(TestStep(t)))
  /\ WF_MCVars(Tools(ImportStep /\ UNCHANGED <<genesisVars, ofHive>>))
  /\ WF_MCVars(Tools(Seal /\ UNCHANGED <<genesisVars, ofHive>>))
=============================================================================
