------------------------------- MODULE Genesis -------------------------------
(***************************************************************************)
(* KatanaGenesisBuilder and the two programs that use it.  The builder is  *)
(* a typestate: classes are loaded, Kakarot is added, then any sequence of *)
(* accounts and funds, then the genesis is built.  katana_genesis walks    *)
(* that path; hive_genesis converts a hive configuration, whose accounts   *)
(* it visits in the order of a hash map, and takes the manifest from a     *)
(* second builder.  Felts that name contracts are the terms they are       *)
(* hashed from; 256-bit amounts are scaled down to two digits to Base.     *)
(***************************************************************************)
EXTENDS Integers, FiniteSets, Functions

CONSTANTS Artifact,   \* the files of the contracts' directory
          Stem,       \* per artifact, its name without extension
          Hash,       \* per artifact, its class hash
          Evm,        \* EVM addresses; a private key stands for its address
          Zero,       \* FieldElement::ZERO
          Alloc,      \* the hive configuration: addresses to [balance, code]
          Coinbase,   \* the coinbase of either program
          Base        \* 2^128, scaled down

ASSUME ArtifactAssumption ==
  /\ Artifact # {} /\ DOMAIN Stem = Artifact /\ DOMAIN Hash = Artifact
\* The hashes of the two account classes do not collide.
ASSUME HashAssumption ==
  \A a, b \in Artifact :
    Stem[a] = "contract_account" /\ Stem[b] = "externally_owned_account" => Hash[a] # Hash[b]
ASSUME AllocAssumption ==
  /\ DOMAIN Alloc \subseteq Evm /\ Coinbase \in Evm /\ Zero \notin Evm
  /\ \A e \in DOMAIN Alloc : Alloc[e].balance \in 0..(Base * Base - 1) /\ Alloc[e].code \in BOOLEAN
ASSUME BaseAssumption == Base \in Nat /\ Base > 1

VARIABLES stage,       \* the builder's type parameter, or how the program ended
          classHashes, \* class_hashes
          contracts,   \* contracts
          accounts,    \* accounts: whether the dev accounts were allocated
          balances,    \* fee_token_storage, the ERC20_balances in it
          allowances,  \* fee_token_storage, the accounts with an allowance
          todo,        \* alloc entries the conversion has yet to visit
          manifest,    \* the manifest made: declarations and kakarot_address
          funded       \* ghost: what each account was last given

genesisVars == <<stage, classHashes, contracts, accounts, balances, allowances, todo,
                 manifest, funded>>

Needed == {"kakarot", "contract_account", "externally_owned_account", "proxy", "precompiles"}
Amount == 0..(Base * Base - 1)
NoBalance == -1
NoManifest == [declarations |-> <<>>, kakarot |-> Zero]
Complete == {"written", "built"}   \* the genesis on disk, and the manifest after it
Ended == {"built", "failed"}

GenesisTypeOK ==
  /\ stage \in {"uninitialized", "loaded", "initialized", "converting", "written"} \cup Ended
  /\ DOMAIN classHashes \subseteq {Stem[a] : a \in Artifact}
  /\ accounts \in BOOLEAN
  /\ allowances \subseteq DOMAIN contracts
  /\ \A a \in DOMAIN balances : balances[a].low \in 0..(Base - 1) /\ balances[a].high \in 0..(Base - 1)
  /\ todo \subseteq DOMAIN Alloc
  /\ DOMAIN funded \subseteq Evm

GenesisInit ==
  /\ stage = "uninitialized"
  /\ classHashes = <<>> /\ contracts = <<>> /\ balances = <<>> /\ funded = <<>>
  /\ accounts = FALSE
  /\ allowances = {} /\ todo = {}
  /\ manifest = NoManifest

-----------------------------------------------------------------------------
(***************************************************************************)
(* Extending a map: the new entries win.                                   *)
(***************************************************************************)
Extended(f, g) == [x \in DOMAIN f \cup DOMAIN g |-> IF x \in DOMAIN g THEN g[x] ELSE f[x]]
Entry(x, v) == [y \in {x} |-> v]

(***************************************************************************)
(* Addresses.  Kakarot's is hashed from its class hash and constructor     *)
(* arguments, an account's from the EVM address, the proxy class and       *)
(* Kakarot.                                                                *)
(***************************************************************************)
KakarotAddressOfCoinbase(hashes, coinbase) ==   \* a mutant of KakarotAddress
  [name |-> "kakarot", classes |-> Restrict(hashes, Needed), by |-> coinbase]
KakarotAddress(hashes, coinbase) ==
  [name |-> "kakarot", classes |-> Restrict(hashes, Needed), by |-> Zero]
StarknetAddress(evm, kakarot, hashes) ==
  [name |-> "account", evm |-> evm, deployer |-> kakarot, class |-> hashes["proxy"]]

TheKakarot == CHOOSE a \in DOMAIN contracts : a.name = "kakarot"   \* the cache's kakarot_address
AddressOf(evm) == StarknetAddress(evm, TheKakarot, classHashes)

Kakarot(coinbase) ==
  [class |-> classHashes["kakarot"], balance |-> NoBalance, coinbase |-> coinbase,
   evmToStarknet |-> <<>>]
Account(evm, implementation, balance) ==
  [class |-> classHashes["proxy"], balance |-> balance, evm |-> evm,
   implementation |-> classHashes[implementation], kakarot |-> TheKakarot]

(***************************************************************************)
(* The storage of one 256-bit number: two felts.                           *)
(***************************************************************************)
Halves(n) == [low |-> n % Base, high |-> n \div Base]
Whole(h) == h.low + h.high * Base

-----------------------------------------------------------------------------
(***************************************************************************)
(* load_classes reads and hashes the files in parallel.  A hash that fails *)
(* is left out; of two files with one name the last to be collected wins.  *)
(* An unreadable file ends the program.                                    *)
(***************************************************************************)
LoadClasses ==
  /\ stage = "uninitialized"
  /\ \/ /\ stage' = "loaded"
        /\ \E winners \in {w \in SUBSET Artifact : IsInjective(Restrict(Stem, w))} :
             classHashes' = [s \in {Stem[a] : a \in winners} |->
                               Hash[CHOOSE a \in winners : Stem[a] = s]]
     \/ /\ stage' = "failed"
        /\ UNCHANGED classHashes
  /\ UNCHANGED <<contracts, accounts, balances, allowances, todo, manifest, funded>>

(***************************************************************************)
(* with_dev_allocation, in any state of the builder; twice is as once.     *)
(***************************************************************************)
DevAllocation ==
  /\ stage \in {"uninitialized", "loaded", "initialized"}
  /\ ~accounts
  /\ accounts' = TRUE
  /\ UNCHANGED <<stage, classHashes, contracts, balances, allowances, todo, manifest, funded>>

(***************************************************************************)
(* with_kakarot: every hash is looked up before anything is changed.       *)
(***************************************************************************)
WithKakarot(next) ==
  IF Needed \subseteq DOMAIN classHashes
    THEN /\ stage' = next
         /\ contracts' = Entry(KakarotAddress(classHashes, Coinbase), Kakarot(Coinbase))
    ELSE /\ stage' = "failed"
         /\ UNCHANGED contracts

SetUpKakarot ==
  /\ stage = "loaded"
  /\ WithKakarot("initialized")
  /\ UNCHANGED <<classHashes, accounts, balances, allowances, todo, manifest, funded>>

Registered(contract, evm, address) ==
  [contract EXCEPT !.evmToStarknet = Extended(@, Entry(evm, address))]

EoaAdded(evm) ==
  contracts' =
    LET kakarot == Registered(contracts[TheKakarot], evm, AddressOf(evm))
        account == Account(evm, "externally_owned_account", NoBalance)
    IN Extended(Extended(contracts, Entry(TheKakarot, kakarot)), Entry(AddressOf(evm), account))

\* A mutant of WithEoa: the allowance is forgotten.
WithEoaUnallowed(evm) ==
  /\ stage = "initialized"
  /\ EoaAdded(evm)
  /\ UNCHANGED <<stage, classHashes, accounts, balances, allowances, todo, manifest, funded>>

(***************************************************************************)
(* with_eoa: the account, replacing one already there, its allowance for   *)
(* Kakarot, and its entry in Kakarot's mapping.  An invalid key ends the   *)
(* program.                                                                *)
(***************************************************************************)
WithEoa(evm) ==
  /\ stage = "initialized"
  /\ \/ /\ EoaAdded(evm)
        /\ allowances' = allowances \cup {AddressOf(evm)}
        /\ UNCHANGED stage
     \/ /\ stage' = "failed"
        /\ UNCHANGED <<contracts, allowances>>
  /\ UNCHANGED <<classHashes, accounts, balances, todo, manifest, funded>>

\* A mutant of NewBalances: a high half of zero is not written.
NewBalancesLowOnly(address, amount) ==
  IF amount >= Base \/ address \notin DOMAIN balances
    THEN Extended(balances, Entry(address, Halves(amount)))
    ELSE [balances EXCEPT ![address].low = amount]
NewBalances(address, amount) == Extended(balances, Entry(address, Halves(amount)))

(***************************************************************************)
(* fund: an account that is not there, or an invalid key, is an error.     *)
(***************************************************************************)
Fund(evm, amount) ==
  /\ stage = "initialized"
  /\ \/ /\ AddressOf(evm) \in DOMAIN contracts
        /\ balances' = NewBalances(AddressOf(evm), amount)
        /\ contracts' = [contracts EXCEPT ![AddressOf(evm)].balance = amount]
        /\ funded' = Extended(funded, Entry(evm, amount))
        /\ UNCHANGED stage
     \/ /\ stage' = "failed"
        /\ UNCHANGED <<balances, contracts, funded>>
  /\ UNCHANGED <<classHashes, accounts, allowances, todo, manifest>>

ManifestOf(kakarot) == [declarations |-> classHashes, kakarot |-> kakarot]

(***************************************************************************)
(* Either program makes the manifest, writes the genesis and then the      *)
(* manifest; a write, or what precedes it, may fail.                       *)
(***************************************************************************)
WriteGenesis(kakarot) ==
  \/ stage' = "written" /\ manifest' = ManifestOf(kakarot)
  \/ stage' = "failed" /\ UNCHANGED manifest

WriteManifest ==
  /\ stage = "written"
  /\ stage' \in Ended
  /\ UNCHANGED <<classHashes, contracts, accounts, balances, allowances, todo, manifest, funded>>

(***************************************************************************)
(* katana_genesis: both come from one builder.                             *)
(***************************************************************************)
Build ==
  /\ stage = "initialized"
  /\ WriteGenesis(TheKakarot)
  /\ UNCHANGED <<classHashes, contracts, accounts, balances, allowances, todo, funded>>

-----------------------------------------------------------------------------
(***************************************************************************)
(* hive_genesis: try_into_genesis_json on a clone of the loaded builder.   *)
(***************************************************************************)
BeginConversion ==
  /\ stage = "loaded"
  /\ WithKakarot("converting")
  /\ todo' = DOMAIN Alloc
  /\ UNCHANGED <<classHashes, accounts, balances, allowances, manifest, funded>>

ImplementationOfEoa(evm) == "externally_owned_account"   \* a mutant of Implementation
Implementation(evm) == IF Alloc[evm].code THEN "contract_account" ELSE "externally_owned_account"

(***************************************************************************)
(* One entry of alloc, in any order: the mapping, the account with its     *)
(* balance, the allowance.  The code gathers them in maps and extends the  *)
(* built genesis at the end; nothing reads the genesis in between.         *)
(***************************************************************************)
ConvertEntry(evm) ==
  /\ stage = "converting" /\ evm \in todo
  /\ \/ /\ contracts' =
             Extended([contracts EXCEPT ![TheKakarot] = Registered(@, evm, AddressOf(evm))],
                      Entry(AddressOf(evm), Account(evm, Implementation(evm), Alloc[evm].balance)))
        /\ allowances' = allowances \cup {AddressOf(evm)}
        /\ funded' = Extended(funded, Entry(evm, Alloc[evm].balance))
        /\ todo' = todo \ {evm}
        /\ UNCHANGED stage
     \/ /\ stage' = "failed"
        /\ UNCHANGED <<contracts, allowances, funded, todo>>
  /\ UNCHANGED <<classHashes, accounts, balances, manifest>>

(***************************************************************************)
(* The manifest comes from with_kakarot(ZERO) on the loaded builder.       *)
(***************************************************************************)
FinishConversion ==
  /\ stage = "converting" /\ todo = {}
  /\ WriteGenesis(KakarotAddress(classHashes, Zero))
  /\ UNCHANGED <<classHashes, contracts, accounts, balances, allowances, todo, funded>>

GenesisNext ==
  \/ LoadClasses
  \/ DevAllocation
  \/ SetUpKakarot
  \/ \E evm \in Evm : WithEoa(evm) \/ (\E amount \in Amount : Fund(evm, amount))
  \/ Build
  \/ BeginConversion
  \/ \E evm \in DOMAIN Alloc : ConvertEntry(evm)
  \/ FinishConversion
  \/ WriteManifest

-----------------------------------------------------------------------------
(***************************************************************************)
(* The node (external) writes a contract's balance, when it has one, over  *)
(* the fee token's storage.                                                *)
(***************************************************************************)
NodeBalance(address) ==
  IF contracts[address].balance # NoBalance THEN contracts[address].balance
  ELSE IF address \in DOMAIN balances THEN Whole(balances[address]) ELSE 0

(***************************************************************************)
(* The manifest describes the genesis beside it, although hive_genesis     *)
(* makes them from two builders with two coinbases: Kakarot and every      *)
(* account are where the manifest's class hashes and address put them.     *)
(***************************************************************************)
ManifestMatchesGenesis ==
  stage = "built" =>
    /\ manifest.kakarot \in DOMAIN contracts
    /\ \A a \in DOMAIN contracts \ {manifest.kakarot} :
         a = StarknetAddress(contracts[a].evm, manifest.kakarot, manifest.declarations)

(***************************************************************************)
(* Kakarot's mapping, the accounts and the allowances agree, whatever was  *)
(* added, replaced or converted in whatever order: every account is found  *)
(* from its EVM address and may be drawn upon by Kakarot.                  *)
(***************************************************************************)
AccountsRegistered ==
  stage \in {"initialized", "converting"} \cup Complete =>
    LET mapping == contracts[TheKakarot].evmToStarknet
        deployed == DOMAIN contracts \ {TheKakarot}
    IN /\ Range(mapping) = deployed /\ allowances = deployed
       /\ \A evm \in DOMAIN mapping : contracts[mapping[evm]].evm = evm

(***************************************************************************)
(* The node gives each account what it was last funded with, also after    *)
(* with_eoa replaced the contract and its balance, or a smaller amount     *)
(* followed a larger one.                                                  *)
(***************************************************************************)
FundsSurvive ==
  stage \in {"initialized"} \cup Complete =>
    \A evm \in DOMAIN funded : NodeBalance(AddressOf(evm)) = funded[evm]
=============================================================================
