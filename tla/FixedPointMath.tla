--------------------------- MODULE FixedPointMath ---------------------------
(***************************************************************************)
(* The fixed-point arithmetic of the protocol: contracts/libraries/math/   *)
(* WadRayMath.sol and PercentageMath.sol.  Every operation of these two    *)
(* libraries is an integer division rounded half up; they differ in the    *)
(* unit they scale by.  The units (RAY = 1e27, WAD = 1e18,                 *)
(* PERCENTAGE_FACTOR = 1e4) are constants here, so that TLC can work with  *)
(* small ones and the proofs with all of them.  The code's overflow        *)
(* requires (uint256) are left out: amounts are far below 2^256.           *)
(***************************************************************************)
EXTENDS Integers

CONSTANTS
  Ray,            \* the unit of the borrow index (RAY)
  Wad,            \* the unit of a health factor (WAD)
  PercentFactor   \* 100.00 percent (PERCENTAGE_FACTOR)

(* RAY is even and positive, so that HALF_RAY is exactly half of it. *)
ASSUME RayAssumption == Ray \in Nat /\ Ray > 0 /\ Ray % 2 = 0

ASSUME UnitAssumption ==
  /\ Wad \in Nat /\ Wad > 0
  /\ PercentFactor \in Nat /\ PercentFactor > 0

-----------------------------------------------------------------------------
(* a / b rounded half up: the body every library function shares. *)
RoundedDiv(a, b) == (a + (b \div 2)) \div b

RayMul(a, b) == RoundedDiv(a * b, Ray)

RayDiv(a, b) == RoundedDiv(a * Ray, b)

WadDiv(a, b) == RoundedDiv(a * Wad, b)

PercentMul(value, percentage) == RoundedDiv(value * percentage, PercentFactor)

PercentDiv(value, percentage) == RoundedDiv(value * PercentFactor, percentage)

(* ONE_PERCENT and TEN_PERCENT of PercentageMath. *)
OnePercent == PercentFactor \div 100

TenPercent == PercentFactor \div 10
=============================================================================
