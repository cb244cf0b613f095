SPECIFICATION Spec
CONSTANTS
  a1 = a1
  a2 = a2
  Assets <- TwoAssets
  NoAsset = NoAsset
  DecimalPrecision = 100
  Prices <- ZeroAndTwo
  TwapIntervals <- Intervals
  ValidityParams <- BothLimits
  StartTime = 4
  MaxTime = 7
  MaxReports = 3
  MaxOwnerCalls = 5
SYMMETRY Symmetry
INVARIANTS
  TypeOK
  MappingsKnown
  TwapIsAverage
PROPERTIES
  OnlyPastPricesCount
