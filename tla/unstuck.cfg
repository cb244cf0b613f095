SPECIFICATION Spec
CONSTANTS
  u1 = u1
  u2 = u2
  n1 = n1
  n2 = n2
  r1 = r1
  r2 = r2
  Ray = 2
  Wad = 100
  PercentFactor = 100
  Users <- TwoUsers
  Nfts <- OneNft
  Reserves <- OneReserve
  ZeroAddress = ZeroAddress
  LoanAddress = LoanAddress
  BnftAddress = BnftAddress
  MaxLoans = 2
  Amounts <- OneTwo
  Delegations <- One
  BidPrices <- TwoThree
  NftPrices <- LowHigh
  CollateralConfigs <- None
  AuctionConfigs <- None
  BatchConfigs <- None
  PausedTimes <- None
  AdminSwitches <- FlagsOnly
  InitialConfig <- ListedShort
  MaxIndex = 3
  MaxTime = 3
SYMMETRY Symmetry
INVARIANTS
  NoCollateralStuck
