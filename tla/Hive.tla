-------------------------------- MODULE Hive --------------------------------
(***************************************************************************)
(* The start script of the hive container: hive_genesis makes the genesis  *)
(* and the manifest, the node is started from the one, the import's        *)
(* environment is filled from the other, and the import runs.  The run     *)
(* also covers katana_genesis, which starts no import.                     *)
(***************************************************************************)
EXTENDS Genesis, HiveImport

VARIABLE ofHive   \* whether the genesis was converted from a hive configuration

hiveVars == <<genesisVars, importVars, ofHive>>

HiveTypeOK == GenesisTypeOK /\ ImportTypeOK /\ ofHive \in BOOLEAN

HiveInit == GenesisInit /\ ImportInit /\ ofHive = FALSE

(***************************************************************************)
(* KAKAROT_ADDRESS and PROXY_ACCOUNT_CLASS_HASH come from the manifest;    *)
(* the import finds a signer's account at the address made of them.        *)
(***************************************************************************)
Sender(evm) == StarknetAddress(evm, manifest.kakarot, manifest.declarations)

MakeGenesis ==
  /\ GenesisNext
  /\ ofHive' = (ofHive \/ stage' = "converting")
  /\ UNCHANGED importVars

StartNode ==
  /\ stage = "built" /\ ofHive /\ step = "off"
  /\ step' = "decode"
  /\ known' = {e \in Evm : /\ Sender(e) \in DOMAIN contracts
                           /\ contracts[Sender(e)].implementation =
                                manifest.declarations["externally_owned_account"]}
  /\ UNCHANGED <<genesisVars, file, bodies, body, tx, counter, head, taken, ofHive>>

Import == (ImportStep \/ NoBlockNumber \/ Seal) /\ UNCHANGED <<genesisVars, ofHive>>

(***************************************************************************)
(* There is no import after katana_genesis.  After a failure of            *)
(* hive_genesis the script goes on, but the node has no genesis to start   *)
(* with, or the import no manifest to read its environment from.           *)
(***************************************************************************)
Finished ==
  /\ stage \in Ended
  /\ ~ofHive \/ stage = "failed" \/ (step \in Stopped /\ head = MaxHead)
  /\ UNCHANGED hiveVars

HiveNext == MakeGenesis \/ StartNode \/ Import \/ Finished

(***************************************************************************)
(* hive_chain is a program of its own that keeps running, and the node is  *)
(* started with --block-time.                                              *)
(***************************************************************************)
HiveSpec ==
  /\ HiveInit /\ [][HiveNext]_hiveVars
  /\ WF_hiveVars(ImportStep /\ UNCHANGED <<genesisVars, ofHive>>)
  /\ WF_hiveVars(Seal /\ UNCHANGED <<genesisVars, ofHive>>)

-----------------------------------------------------------------------------
(***************************************************************************)
(* The EOAs of the configuration can send: the import finds the account of *)
(* each where the genesis put it, and no other.                            *)
(***************************************************************************)
SendersKnown ==
  step # "off" => known = {e \in DOMAIN Alloc : ~Alloc[e].code}

(***************************************************************************)
(* Both programs agree on where the accounts are: the genesis, the         *)
(* manifest made by a second builder, and the import that reads the        *)
(* manifest.                                                               *)
(***************************************************************************)
SendersFound == ManifestMatchesGenesis /\ SendersKnown
=============================================================================
