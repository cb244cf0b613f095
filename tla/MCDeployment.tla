----------------------------- MODULE MCDeployment -----------------------------
(* The deployment scripts as the programs Deployment runs.                 *)
EXTENDS Deployment, DeployScripts

CONSTANTS MCNets, MCUpkeep

MCEntries == {"LendPool", "LendPoolLoan", "LendPoolConfigurator",
  "BNFTRegistry", "IncentivesController", "ReserveOracle", "NFTOracle",
  "WETHGateway", "PunkGateway", "WalletBalanceProvider",
  "BendProtocolDataProvider", "UIPoolDataProvider"}

MCKeys == MCEntries \cup eContractid \cup RateStrategies \cup Tokens \cup Roles

MCGenesis == [n \in MCNets |-> GenesisOf(n)]
MCConfig == [n \in MCNets |-> ConfigOf(n, MCKeys)]
MCMigration == [n \in MCNets |-> Migrations[n]]

(* The groups of tasks an operator runs by hand.  The development          *)
(* environment has no collector, and its oracles have no proxies; a        *)
(* deployment with --skip-oracle has no NFT oracle in its book.            *)
UpkeepSets ==
  [routine |-> [n \in MCNets |-> HandTasks \cup
     CASE n = "dev" ->
            MockTasks \cup (Contracts \ {"ReserveOracle", "NFTOracle"})
       [] n = "skip" -> Contracts \cup (ProductionTasks \ {"set-nft-assets"})
       [] OTHER -> Contracts \cup ProductionTasks],
   proxies |-> [n \in MCNets |-> LostProxyTasks \cup {"wrapper-gateway"}]]
ChosenUpkeep == UpkeepSets[MCUpkeep]

MCNotResumable == {"initialize-lend-pool", "dev-initialize-lend-pool",
                   "initialize-gateway", "mock-bnft-tokens",
                   "add-nft-to-oracle", "set-nft-assets"}

(* What the theorems about the published contracts assume, read off the    *)
(* scripts: the development environment publishes a registry its book      *)
(* names and oracles it initialised without a proxy.                       *)
Views == {"WalletBalanceProvider", "BendProtocolDataProvider",
          "UIPoolDataProvider"}
ASSUME ScriptsAreDisciplined ==
  /\ \A n \in Nets \ {"dev"} : Disciplined(n, Entries, {"plain", "proxy"})
  /\ \A n \in Nets : Disciplined(n, Views, {"plain"}) /\ UpkeepReplaces(n, Views)
=============================================================================
