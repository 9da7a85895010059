------------------------------- MODULE Genesis -------------------------------
(***************************************************************************)
(* The chains a node can be started on and the genesis of each:            *)
(* node/src/command.rs (load_spec), node/src/chain_spec.rs and             *)
(* runtime/src/genesis_config_presets.rs.  Accounts and session keys are   *)
(* those of the well-known development keys and are named for them.        *)
(***************************************************************************)
CONSTANT NoPreset   \* what get_preset answers to an id it does not know

\* Sr25519Keyring::iter() without One and Two.
Keyring == {"Alice", "Bob", "Charlie", "Dave", "Eve", "Ferdie",
            "AliceStash", "BobStash", "CharlieStash", "DaveStash",
            "EveStash", "FerdieStash"}

\* Each endowed account receives 2^60; each authority has GRANDPA weight 1.
TestnetGenesis(authorities, endowed, root) ==
    [authorities |-> authorities, endowed |-> endowed, root |-> root]

DevelopmentConfigGenesis ==
    TestnetGenesis(<<"Alice">>,
                   {"Alice", "Bob", "AliceStash", "BobStash"}, "Alice")

LocalConfigGenesis == TestnetGenesis(<<"Alice", "Bob">>, Keyring, "Alice")

PresetNames == {"development", "local_testnet"}

GetPreset(id) ==
    CASE id = "development"   -> DevelopmentConfigGenesis
      [] id = "local_testnet" -> LocalConfigGenesis
      [] OTHER                -> NoPreset

\* What is kept of a chain specification is the preset it names.
DevelopmentChainSpec == "development"

LocalChainSpec == "local_testnet"

\* The specification behind the --chain argument; any other argument is the
\* path of one, which this project does not describe.
LoadSpec(id) ==
    CASE id = "dev"           -> DevelopmentChainSpec
      [] id \in {"", "local"} -> LocalChainSpec
      [] OTHER                -> id

=============================================================================
