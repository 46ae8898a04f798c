------------------------------- MODULE Startup -------------------------------
(***************************************************************************)
(* main: the environment is read, a provider chosen, MongoDB connected, in *)
(* the hive build the deployer's nonce fetched, the handlers registered,   *)
(* and the server started.  A missing value ends the program or panics,    *)
(* depending on where it is found.  Also the two stores everything asks:   *)
(* the Starknet node and the database (both external), which come and go.  *)
(***************************************************************************)
EXTENDS Integers, Sequences

CONSTANT Defect   \* the environment variables that may be missing or unreadable

VARIABLES env,       \* the environment, and whether this is the hive build
          boot,      \* where main is
          deployer,  \* the statics of the hive build that are set
          nodeUp,    \* the node answers
          dbUp,      \* the database answers
          indexed    \* the database has a header

bootVars == <<env, boot, deployer>>
storeVars == <<nodeUp, dbUp, indexed>>

(***************************************************************************)
(* STARKNET_NETWORK by where its provider's URL comes from: from itself    *)
(* (Katana, Madara, a URL) or from another variable; gateways have none.   *)
(***************************************************************************)
HasProviderUrl == {"url", "sharingan"}
Network == HasProviderUrl \cup {"sharingan_unset", "gateway", "unparsable"}
Env == [network : Network, defect : Defect \cup {"none"}, hive : BOOLEAN]

StartupTypeOK ==
  /\ env \in Env
  /\ boot \in {"config", "provider", "mongo", "chain_id", "nonce", "listen", "serving",
               "exited", "panicked"}
  /\ deployer \subseteq {"CHAIN_ID", "DEPLOY_WALLET_NONCE"}
  /\ nodeUp \in BOOLEAN /\ dbUp \in BOOLEAN /\ indexed \in BOOLEAN

StartupInit ==
  /\ env \in Env
  /\ boot = "config" /\ deployer = {}
  /\ nodeUp \in BOOLEAN /\ dbUp \in BOOLEAN /\ indexed \in BOOLEAN

Step(from, to) == boot = from /\ boot' = to /\ UNCHANGED <<env, storeVars>>

-----------------------------------------------------------------------------
(***************************************************************************)
(* The log filter, KakarotRpcConfig::from_env and RPCConfig::from_env      *)
(* return their errors.                                                    *)
(***************************************************************************)
ReadConfig ==
  /\ Step("config", IF env.network = "unparsable" \/ env.defect \in {"rust_log", "felt", "rpc_url"}
                      THEN "exited" ELSE "provider")
  /\ UNCHANGED deployer

(***************************************************************************)
(* A provider for the network; the URL of Sharingan is a variable that is  *)
(* unwrapped.                                                              *)
(***************************************************************************)
ProviderFailsOnUrl ==   \* a mutant of ProviderFails: gateways get an HTTP client too
  env.network \notin HasProviderUrl
ProviderFails == env.network = "sharingan_unset"
ChooseProvider ==
  /\ Step("provider", IF ProviderFails THEN "panicked" ELSE "mongo")
  /\ UNCHANGED deployer

ConnectMongo ==
  /\ \/ env.defect = "mongo" /\ Step("mongo", "panicked")
     \/ env.defect # "mongo" /\ Step("mongo", IF env.hive THEN "chain_id" ELSE "listen")
     \/ env.defect # "mongo" /\ ~dbUp /\ Step("mongo", "exited")
  /\ UNCHANGED deployer

(***************************************************************************)
(* The hive build: the deployer's client has no gateway to fall back on.   *)
(***************************************************************************)
GetChainId ==
  IF env.network \notin HasProviderUrl
    THEN Step("chain_id", "panicked") /\ UNCHANGED deployer
    ELSE \/ nodeUp /\ Step("chain_id", "nonce") /\ deployer' = deployer \cup {"CHAIN_ID"}
         \/ ~nodeUp /\ Step("chain_id", "exited") /\ UNCHANGED deployer

(***************************************************************************)
(* DEPLOY_WALLET is made when first used, here: from its own variables,    *)
(* and from CHAIN_ID, which must have been set.                            *)
(***************************************************************************)
NoWallet == "CHAIN_ID" \notin deployer \/ env.defect = "deployer"
GetNonce ==
  \/ NoWallet /\ Step("nonce", "panicked") /\ UNCHANGED deployer
  \/ /\ ~NoWallet /\ nodeUp /\ Step("nonce", "listen")
     /\ deployer' = deployer \cup {"DEPLOY_WALLET_NONCE"}
  \/ ~NoWallet /\ ~nodeUp /\ Step("nonce", "exited") /\ UNCHANGED deployer

(***************************************************************************)
(* rpc_module and run_server.  RPC_MAX_CONNECTIONS is unwrapped; the       *)
(* address may be malformed or taken.                                      *)
(***************************************************************************)
Listen ==
  /\ Step("listen", IF env.defect = "connections" THEN "panicked"
                    ELSE IF env.defect = "address" THEN "exited" ELSE "serving")
  /\ UNCHANGED deployer

Boot == ReadConfig \/ ChooseProvider \/ ConnectMongo \/ GetChainId \/ GetNonce \/ Listen

(***************************************************************************)
(* The stores.  A header, once there, stays.                               *)
(***************************************************************************)
StoresChange ==
  /\ \/ nodeUp' = ~nodeUp /\ UNCHANGED <<dbUp, indexed>>
     \/ dbUp' = ~dbUp /\ UNCHANGED <<nodeUp, indexed>>
     \/ ~indexed /\ indexed' = TRUE /\ UNCHANGED <<nodeUp, dbUp>>
  /\ UNCHANGED bootVars

-----------------------------------------------------------------------------
(***************************************************************************)
(* Every documented network starts when nothing is missing and the stores  *)
(* answer, and in the hive build with everything the deployments need; the *)
(* one exception is the hive build on a gateway, which panics.             *)
(***************************************************************************)
Documented ==
  /\ env.network \notin {"unparsable", "sharingan_unset"} /\ env.defect = "none"
  /\ env.hive => env.network # "gateway"
Started == boot = "serving" /\ (env.hive => deployer = {"CHAIN_ID", "DEPLOY_WALLET_NONCE"})
GoodEnvironmentServes == Documented /\ [](nodeUp /\ dbUp) => <>Started
=============================================================================
