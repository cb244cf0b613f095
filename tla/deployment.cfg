SPECIFICATION FairSpec
CONSTANTS
  MCNets = {"main", "reuse", "skip", "dev"}
  MCUpkeep = "routine"
  Nets <- MCNets
  Keys <- MCKeys
  Entries <- MCEntries
  Genesis <- MCGenesis
  Config <- MCConfig
  Tasks <- TaskNames
  Program <- Scripts
  Migration <- MCMigration
  Upkeep <- ChosenUpkeep
  Production <- Full
  NotResumable <- MCNotResumable
  MaxCrashes = 1
  MaxRedeploys = 1
  MaxUpkeep = 1
INVARIANTS
  TypeOK
  BookNamesMinedContracts
  PublishedIsInitialised
  ScriptsAreResumable
  ListedAssetsArePriced
  OpenMarketsAreComplete
  FinishedBookIsTheMarket
  LinksAreCurrent
PROPERTIES
  PublishedProxiesStay
  MigrationFinishes
CHECK_DEADLOCK FALSE
