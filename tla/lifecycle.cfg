SPECIFICATION Spec
CONSTANTS
  u1 = u1
  u2 = u2
  n1 = n1
  n2 = n2
  r1 = r1
  r2 = r2
  Ray = 2
  Wad = 100
  PercentFactor = 100
  Users <- TwoUsers
  Nfts <- TwoNfts
  Reserves <- OneReserve
  ZeroAddress = ZeroAddress
  LoanAddress = LoanAddress
  BnftAddress = BnftAddress
  MaxLoans = 3
  Amounts <- OneTwo
  Delegations <- None
  BidPrices <- TwoThree
  NftPrices <- LowHigh
  CollateralConfigs <- None
  AuctionConfigs <- None
  BatchConfigs <- None
  PausedTimes <- None
  AdminSwitches <- None
  InitialConfig <- ListedShort
  MaxIndex = 2
  MaxTime = 3
SYMMETRY Symmetry
INVARIANTS
  TypeOK
  LoanBook
  Custody
  CollateralCounters
  AuctionBooks
PROPERTIES
  LoanLife
  ImplementsVault
