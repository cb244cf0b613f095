---------------------------- MODULE MCNFTOracle -----------------------------
(* The price oracle on small instances *)
EXTENDS NFTOracle, TLC

CONSTANTS a1, a2

TwoAssets == {a1, a2}
Symmetry == Permutations(Assets)

ZeroAndTwo == {0, 8, 10}
OnePrice == {10}
Intervals == {0, 2}
OneInterval == {2}

\* 25% at most, 15% only after two time units
Limits == [maxPriceDeviation |-> 25, maxPriceDeviationWithTime |-> 15,
           timeIntervalWithPrice |-> 2, minUpdateTime |-> 1]
NoLimits == [maxPriceDeviation |-> 1000, maxPriceDeviationWithTime |-> 1000,
             timeIntervalWithPrice |-> 0, minUpdateTime |-> 0]
BothLimits == {Limits, NoLimits}
OneLimit == {NoLimits}

=============================================================================
