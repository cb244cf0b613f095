SPECIFICATION Spec
CONSTANTS
  u1 = u1
  u2 = u2
  Ray = 1000
  Wad = 100
  PercentFactor = 100
  Users <- TwoUsers
  Treasury = Treasury
  SecondsPerYear = 4
  OptimalUtilization = 600
  BaseRate = 100
  Slope1 = 400
  Slope2 = 1200
  MaxUtilizationRate = 750
  ReserveFactors <- Factors
  AdminFlags <- None
  Amounts <- FewAmounts
  TransferAmounts <- None
  MaxTransactions = 5
  MaxTime = 4
SYMMETRY Symmetry
PROPERTIES
  NoUnbackedClaims
