SPECIFICATION Spec
CONSTANTS
  u1 = u1
  u2 = u2
  n1 = n1
  n2 = n2
  r1 = r1
  r2 = r2
  Ray = 2
  Wad = 100
  PercentFactor = 100
  Users <- TwoUsers
  Nfts <- OneNft
  Reserves <- TwoReserves
  ZeroAddress = ZeroAddress
  LoanAddress = LoanAddress
  BnftAddress = BnftAddress
  MaxLoans = 2
  Amounts <- OneThreeFour
  Delegations <- None
  BidPrices <- FiveSix
  NftPrices <- TwoSix
  CollateralConfigs <- NewCollateral
  AuctionConfigs <- None
  BatchConfigs <- None
  PausedTimes <- NewPausedTimes
  AdminSwitches <- None
  InitialConfig <- ListedShort
  MaxIndex = 4
  MaxTime = 3
SYMMETRY Symmetry
INVARIANTS
  DebtMatchesLoans
  EscrowMatchesBids
PROPERTIES
  NoInstantLiquidation
  AuctionProgress
