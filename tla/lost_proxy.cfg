SPECIFICATION Spec
CONSTANTS
  MCNets = {"main"}
  MCUpkeep = "proxies"
  Nets <- MCNets
  Keys <- MCKeys
  Entries <- MCEntries
  Genesis <- MCGenesis
  Config <- MCConfig
  Tasks <- TaskNames
  Program <- Scripts
  Migration <- MCMigration
  Upkeep <- ChosenUpkeep
  Production <- Full
  NotResumable <- MCNotResumable
  MaxCrashes = 1
  MaxRedeploys = 1
  MaxUpkeep = 2
INVARIANTS
  FoundForUpgradeIsProxy
CHECK_DEADLOCK FALSE
