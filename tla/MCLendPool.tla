----------------------------- MODULE MCLendPool -----------------------------
(***************************************************************************)
(* The pool on small instances.  Each .cfg picks the sets for one question *)
(* and leaves the dimensions it does not ask about at a single value.      *)
(***************************************************************************)
EXTENDS LendPoolAccounting, LendPoolRefinement, TLC

CONSTANTS u1, u2, n1, n2, r1, r2

Collection(rd, ad) ==
  [ltv |-> 50, liquidationThreshold |-> 80, liquidationBonus |-> 10,
   redeemDuration |-> rd, auctionDuration |-> ad, redeemThreshold |-> 50,
   maxCollateralCap |-> 2, eligible |-> Nfts]

ListedShort == Collection(0, 1)
ListedLong == Collection(1, 2)

(* What the administrators may reconfigure the collection to *)
NewCollateral ==
  {[ltv |-> 40, liquidationThreshold |-> 50, liquidationBonus |-> 100],
   [ltv |-> 0, liquidationThreshold |-> 0, liquidationBonus |-> 0],
   [ltv |-> 90, liquidationThreshold |-> 80, liquidationBonus |-> 10]}
NewAuctions ==  \* the first is refused
  {[redeemDuration |-> 2, auctionDuration |-> 1],
   [redeemDuration |-> 1, auctionDuration |-> 1]}
NewBatch == {ListedShort}
NewBatchUnordered == {Collection(2, 1)}
NewPausedTimes == {<<1, 1>>}

TwoUsers == {u1, u2}
OneNft == {n1}
TwoNfts == {n1, n2}
OneReserve == {r1}
TwoReserves == {r1, r2}
None == {}

(* Users, tokens and reserves are interchangeable. *)
Symmetry ==
  Permutations(Users) \cup Permutations(Nfts) \cup Permutations(Reserves)

One == {1}
OneTwo == {1, 2}
TwoThree == {2, 3}
LowHigh == {1, 4}
OneThreeFour == {1, 3, 4}
FiveSix == {5, 6}
TwoSix == {2, 6}

PauseAndOracle == {"pause", "oracle"}
FlagsOnly == {"nft", "reserve"}
=============================================================================
