--------------------------- MODULE ReserveProofs ----------------------------
(***************************************************************************)
(* What holds of a reserve for every number of users, every rate strategy  *)
(* and every unit.  The arithmetic comes first: interest is never          *)
(* negative, so an index never falls; and the index that a view computes   *)
(* is the one that a transaction of the same block accrues to.             *)
(***************************************************************************)
EXTENDS Reserve, MathLemmas

LEMMA ReserveUnits ==
  /\ Ray \in Nat /\ Ray > 0
  /\ Wad \in Nat /\ Wad > 0 /\ Wad <= Ray
  /\ PercentFactor \in Nat /\ PercentFactor > 0
  /\ SecondsPerYear \in Nat /\ SecondsPerYear > 0
  /\ OptimalUtilization \in Nat /\ OptimalUtilization > 0
  /\ Ray - OptimalUtilization \in Nat /\ Ray - OptimalUtilization > 0
  /\ BaseRate \in Nat /\ Slope1 \in Nat /\ Slope2 \in Nat
  BY RayAssumption, UnitAssumption, RateAssumption, SMT

LEMMA LinearInterestBound ==
  ASSUME TypeOK, NEW rate \in Nat
  PROVE  LinearInterest(rate) \in Nat /\ LinearInterest(rate) >= Ray
<1>1. now - lastUpdateTimestamp \in Nat
  BY SMT DEF TypeOK
<1>2. rate * (now - lastUpdateTimestamp) \in Nat
  BY <1>1, ProductType
<1>3. (rate * (now - lastUpdateTimestamp)) \div SecondsPerYear \in Nat
  BY <1>2, DivBounds, ReserveUnits
<1> QED
  BY <1>3, ReserveUnits, SMT DEF LinearInterest

LEMMA CompoundedInterestBound ==
  ASSUME TypeOK, NEW rate \in Nat
  PROVE  /\ CompoundedInterest(rate) \in Nat
         /\ CompoundedInterest(rate) >= Ray
         /\ (rate \div SecondsPerYear) * (now - lastUpdateTimestamp) \in Nat
         /\ CompoundedInterest(rate) >=
              Ray + (rate \div SecondsPerYear) * (now - lastUpdateTimestamp)
<1> DEFINE exp == now - lastUpdateTimestamp
           perSecond == rate \div SecondsPerYear
           powerTwo == RayMul(perSecond, perSecond)
           powerThree == RayMul(powerTwo, perSecond)
           minusTwo == IF exp > 2 THEN exp - 2 ELSE 0
           first == perSecond * exp
           second == (exp * (exp - 1) * powerTwo) \div 2
           third == (exp * (exp - 1) * minusTwo * powerThree) \div 6
<1>1. exp \in Nat
  BY SMT DEF TypeOK
<1>2. CASE exp = 0
  <2>1. perSecond \in Nat /\ CompoundedInterest(rate) = Ray
    BY <1>2, DivBounds, ReserveUnits DEF CompoundedInterest
  <2> HIDE DEF perSecond
  <2>2. perSecond * exp = 0
    BY <1>2, <2>1, SMT
  <2> QED
    BY <2>1, <2>2, ReserveUnits, SMT DEF perSecond
<1>3. CASE exp # 0
  <2>1. perSecond \in Nat
    BY DivBounds, ReserveUnits
  <2>2. powerTwo \in Nat /\ powerThree \in Nat
    BY <2>1, RayMulType
  <2>3. exp - 1 \in Nat /\ minusTwo \in Nat
    BY <1>1, <1>3, SMT
  <2>4. CompoundedInterest(rate) = Ray + first + second + third
    BY <1>3 DEF CompoundedInterest
  <2> HIDE DEF exp, perSecond, powerTwo, powerThree, minusTwo
  <2>5. exp * (exp - 1) \in Nat
    BY <1>1, <2>3, ProductType
  <2>6. exp * (exp - 1) * powerTwo \in Nat /\ exp * (exp - 1) * minusTwo \in Nat
    BY <2>2, <2>3, <2>5, ProductType
  <2>7. exp * (exp - 1) * minusTwo * powerThree \in Nat
    BY <2>2, <2>6, ProductType
  <2>8. first \in Nat
    BY <1>1, <2>1, ProductType
  <2>9. second \in Nat /\ third \in Nat
    BY <2>6, <2>7, SMT
  <2> HIDE DEF second, third
  <2>10. first \in Nat /\ CompoundedInterest(rate) >= Ray + first
    <3> HIDE DEF first
    <3> QED
      BY <2>4, <2>8, <2>9, ReserveUnits, SMT
  <2>11. CompoundedInterest(rate) \in Nat /\ CompoundedInterest(rate) >= Ray
    <3> HIDE DEF first
    <3> QED
      BY <2>4, <2>8, <2>9, ReserveUnits, SMT
  <2> QED
    BY <2>10, <2>11 DEF exp, perSecond
<1> QED
  BY <1>2, <1>3

(* Accruing never lowers an index. *)
LEMMA AccruedIndexes ==
  ASSUME TypeOK
  PROVE  /\ AccruedLiquidityIndex \in Nat
         /\ AccruedLiquidityIndex >= liquidityIndex
         /\ AccruedBorrowIndex \in Nat
         /\ AccruedBorrowIndex >= variableBorrowIndex
         /\ liquidityIndex >= Ray /\ variableBorrowIndex >= Ray
<1>1. /\ liquidityIndex \in Nat /\ liquidityIndex >= Ray
      /\ variableBorrowIndex \in Nat /\ variableBorrowIndex >= Ray
      /\ currentLiquidityRate \in Nat /\ currentVariableBorrowRate \in Nat
  BY DEF TypeOK
<1>2. AccruedLiquidityIndex \in Nat /\ AccruedLiquidityIndex >= liquidityIndex
  <2>1. LET interest == LinearInterest(currentLiquidityRate)
        IN  /\ RayMul(interest, liquidityIndex) \in Nat
            /\ RayMul(interest, liquidityIndex) >= liquidityIndex
    BY <1>1, LinearInterestBound, RayMulGrows
  <2> QED
    BY <2>1, <1>1, SMT DEF AccruedLiquidityIndex
<1>3. AccruedBorrowIndex \in Nat /\ AccruedBorrowIndex >= variableBorrowIndex
  <2>1. LET interest == CompoundedInterest(currentVariableBorrowRate)
        IN  /\ RayMul(interest, variableBorrowIndex) \in Nat
            /\ RayMul(interest, variableBorrowIndex) >= variableBorrowIndex
    BY <1>1, CompoundedInterestBound, RayMulGrows
  <2> QED
    BY <2>1, <1>1, SMT DEF AccruedBorrowIndex
<1> QED
  BY <1>1, <1>2, <1>3

(* The index of the views is the one the next transaction accrues to. *)
LEMMA ViewIsAccrued ==
  ASSUME TypeOK
  PROVE  NormalizedIncome = AccruedLiquidityIndex
<1>1. LinearInterest(0) = Ray
  <2>1. /\ now - lastUpdateTimestamp \in Nat
        /\ 0 * (now - lastUpdateTimestamp) = 0
    BY SMT DEF TypeOK
  <2>2. 0 \div SecondsPerYear = 0
    BY ReserveUnits, DivUnique, SMT
  <2> QED
    BY <2>1, <2>2, ReserveUnits, SMT DEF LinearInterest
<1>2. lastUpdateTimestamp = now
        => LinearInterest(currentLiquidityRate) = Ray
  <2> SUFFICES ASSUME lastUpdateTimestamp = now
               PROVE  LinearInterest(currentLiquidityRate) = Ray
    OBVIOUS
  <2>1. currentLiquidityRate * (now - lastUpdateTimestamp) = 0
    BY SMT DEF TypeOK
  <2>2. 0 \div SecondsPerYear = 0
    BY ReserveUnits, DivUnique, SMT
  <2> QED
    BY <2>1, <2>2, ReserveUnits, SMT DEF LinearInterest
<1>3. liquidityIndex \in Nat /\ currentLiquidityRate \in Nat
  BY DEF TypeOK
<1>4. RayMul(Ray, liquidityIndex) = liquidityIndex
  BY <1>3, RayMulOne
<1>5. CASE currentLiquidityRate > 0
  BY <1>2, <1>4, <1>5 DEF NormalizedIncome, AccruedLiquidityIndex
<1>6. CASE ~(currentLiquidityRate > 0)
  <2>1. currentLiquidityRate = 0
    BY <1>3, <1>6, SMT
  <2> QED
    BY <2>1, <1>1, <1>4, <1>6 DEF NormalizedIncome, AccruedLiquidityIndex
<1> QED
  BY <1>5, <1>6

LEMMA TreasuryShareType ==
  ASSUME TypeOK
  PROVE  TreasuryShare \in Nat
<1> DEFINE before == RayMul(debtSupply, variableBorrowIndex)
           after == RayMul(debtSupply, AccruedBorrowIndex)
<1>1. /\ debtSupply \in Nat /\ variableBorrowIndex \in Nat
      /\ reserveFactor \in Nat
  BY ReserveInputAssumption DEF TypeOK
<1>2. before \in Nat /\ after \in Nat /\ before <= after
  BY <1>1, AccruedIndexes, RayMulMonotone, RayMulType
<1>3. after - before \in Nat
  BY <1>2, SMT
<1>4. PercentMul(after - before, reserveFactor) \in Nat
  BY <1>1, <1>3, PercentMulType
<1>5. AccruedLiquidityIndex \in Nat /\ AccruedLiquidityIndex > 0
  <2>1. liquidityIndex \in Nat
    BY DEF TypeOK
  <2> QED
    BY <2>1, AccruedIndexes, ReserveUnits, SMT
<1> QED
  BY <1>4, <1>5, RayDivType DEF TreasuryShare

-----------------------------------------------------------------------------
(* The rates that a transaction sets are natural numbers. *)
LEMMA BorrowRateType ==
  ASSUME NEW utilization \in Nat
  PROVE  VariableBorrowRate(utilization) \in Nat
<1>1. CASE utilization > OptimalUtilization
  <2>1. utilization - OptimalUtilization \in Nat
    BY <1>1, ReserveUnits, SMT
  <2>2. RayDiv(utilization - OptimalUtilization, Ray - OptimalUtilization) \in Nat
    BY <2>1, ReserveUnits, RayDivType
  <2>3. RayMul(Slope2, RayDiv(utilization - OptimalUtilization,
                              Ray - OptimalUtilization)) \in Nat
    BY <2>2, ReserveUnits, RayMulType
  <2> QED
    BY <1>1, <2>3, ReserveUnits, SMT DEF VariableBorrowRate
<1>2. CASE ~(utilization > OptimalUtilization)
  <2>1. RayDiv(RayMul(utilization, Slope1), OptimalUtilization) \in Nat
    BY ReserveUnits, RayMulType, RayDivType
  <2> QED
    BY <1>2, <2>1, ReserveUnits, SMT DEF VariableBorrowRate
<1> QED
  BY <1>1, <1>2

LEMMA UtilizationType ==
  ASSUME NEW available \in Nat, NEW debt \in Nat
  PROVE  UtilizationRate(available, debt) \in Nat
<1>1. CASE debt = 0
  BY <1>1 DEF UtilizationRate
<1>2. CASE debt # 0
  <2>1. available + debt \in Nat /\ available + debt > 0
    BY <1>2, SMT
  <2> QED
    BY <1>2, <2>1, RayDivType DEF UtilizationRate
<1> QED
  BY <1>1, <1>2

LEMMA LiquidityRateType ==
  ASSUME NEW debt \in Nat, NEW rate \in Nat, NEW utilization \in Nat,
         reserveFactor \in Nat, reserveFactor <= PercentFactor
  PROVE  LiquidityRate(debt, rate, utilization) \in Nat
<1>1. OverallBorrowRate(debt, rate) \in Nat
  <2>1. CASE debt = 0
    BY <2>1 DEF OverallBorrowRate
  <2>2. CASE debt # 0
    <3>1. Ray \div Wad \in Nat /\ Ray \div Wad > 0
      <4>1. /\ Ray \div Wad \in Nat
            /\ Ray < Wad * (Ray \div Wad) + Wad
        BY ReserveUnits, DivBounds
      <4>2. Ray \div Wad # 0
        <5> SUFFICES ASSUME Ray \div Wad = 0 PROVE FALSE
          OBVIOUS
        <5>1. Ray < Wad * 0 + Wad
          BY <4>1
        <5> QED
          BY <5>1, ReserveUnits, SMT
      <4> QED
        BY <4>1, <4>2, SMT
    <3>2. WadToRay(debt) \in Nat /\ WadToRay(debt) > 0
      BY <2>2, <3>1, SMT DEF WadToRay
    <3>3. RayMul(WadToRay(debt), rate) \in Nat
      BY <3>2, RayMulType
    <3> QED
      BY <2>2, <3>2, <3>3, RayDivType DEF OverallBorrowRate
  <2> QED
    BY <2>1, <2>2
<1>2. PercentFactor - reserveFactor \in Nat
  BY ReserveUnits, SMT
<1>3. RayMul(OverallBorrowRate(debt, rate), utilization) \in Nat
  BY <1>1, RayMulType
<1> QED
  BY <1>2, <1>3, PercentMulType DEF LiquidityRate

LEMMA RatesUpdated ==
  ASSUME cash \in Nat, reserveFactor \in Nat,
         debtSupply' \in Nat, variableBorrowIndex' \in Nat,
         NEW added \in Nat, NEW taken \in Nat,
         UpdateInterestRates(added, taken)
  PROVE  /\ cash + added - taken \in Nat
         /\ currentLiquidityRate' \in Nat
         /\ currentVariableBorrowRate' \in Nat
<1> DEFINE available == cash + added - taken
           debt == RayMul(debtSupply', variableBorrowIndex')
           utilization == UtilizationRate(available, debt)
           rate == VariableBorrowRate(utilization)
<1>1. available \in Nat
  BY SMT DEF UpdateInterestRates
<1>2. debt \in Nat
  BY RayMulType
<1>3. utilization \in Nat
  BY <1>1, <1>2, UtilizationType
<1>4. rate \in Nat
  BY <1>3, BorrowRateType
<1>5. /\ reserveFactor <= PercentFactor
      /\ currentVariableBorrowRate' = rate
      /\ currentLiquidityRate' = LiquidityRate(debt, rate, utilization)
  BY DEF UpdateInterestRates
<1> HIDE DEF available, debt, utilization, rate
<1>6. LiquidityRate(debt, rate, utilization) \in Nat
  BY <1>2, <1>3, <1>4, <1>5, LiquidityRateType
<1> QED
  BY <1>1, <1>4, <1>5, <1>6 DEF available

-----------------------------------------------------------------------------
(* What the tokens of a transaction leave: balances are natural numbers,   *)
(* the code's checked subtraction being a guard.                           *)
LEMMA TokensType ==
  ASSUME TypeOK, NEW account \in Accounts, NEW delta \in Int,
         TokensChange(account, delta)
  PROVE  /\ bTokenBalance' \in [Accounts -> Nat]
         /\ bTokenSupply' \in Nat
<1>1. /\ TreasuryShare \in Nat /\ Treasury \in Accounts
      /\ bTokenBalance \in [Accounts -> Nat] /\ bTokenSupply \in Nat
  BY TreasuryShareType DEF Accounts, TypeOK
<1> DEFINE share == TreasuryShare
           minted == [bTokenBalance EXCEPT ![Treasury] = @ + share]
<1>2. /\ bTokenBalance' = [minted EXCEPT ![account] = @ + delta]
      /\ bTokenBalance'[account] >= 0
      /\ bTokenSupply' = bTokenSupply + share + delta
      /\ bTokenSupply' >= 0
  BY DEF TokensChange
<1>3. share \in Nat
  BY <1>1
<1> HIDE DEF share
<1>4. minted \in [Accounts -> Nat]
  BY <1>1, <1>3, SMT
<1> HIDE DEF minted
<1> QED
  BY <1>1, <1>2, <1>3, <1>4, SMT

LEMMA DebtType ==
  ASSUME TypeOK, NEW user \in Users, NEW delta \in Int, DebtChange(user, delta)
  PROVE  debtBalance' \in [Users -> Nat] /\ debtSupply' \in Nat
  BY SMT DEF DebtChange, TypeOK

LEMMA IndexesUpdated ==
  ASSUME TypeOK, UpdateIndexes
  PROVE  /\ liquidityIndex' \in Nat /\ liquidityIndex' >= liquidityIndex
         /\ variableBorrowIndex' \in Nat
         /\ variableBorrowIndex' >= variableBorrowIndex
         /\ liquidityIndex' >= Ray /\ variableBorrowIndex' >= Ray
         /\ lastUpdateTimestamp' = now
<1>1. /\ liquidityIndex' = AccruedLiquidityIndex
      /\ variableBorrowIndex' = AccruedBorrowIndex
      /\ lastUpdateTimestamp' = now
  BY DEF UpdateIndexes
<1>2. liquidityIndex \in Nat /\ variableBorrowIndex \in Nat
  BY DEF TypeOK
<1> QED
  BY <1>1, <1>2, AccruedIndexes, ReserveUnits, SMT

LEMMA ScaledAmountType ==
  ASSUME TypeOK, NEW amount \in Nat
  PROVE  /\ RayDiv(amount, AccruedLiquidityIndex) \in Nat
         /\ RayDiv(amount, AccruedBorrowIndex) \in Nat
<1>1. liquidityIndex \in Nat /\ variableBorrowIndex \in Nat
  BY DEF TypeOK
<1>2. AccruedLiquidityIndex > 0 /\ AccruedBorrowIndex > 0
  BY <1>1, AccruedIndexes, ReserveUnits, SMT
<1> QED
  BY <1>2, AccruedIndexes, RayDivType

(* The shape of every transaction that accrues *)
LEMMA TransactionType ==
  ASSUME TypeOK, UpdateIndexes,
         bTokenBalance' \in [Accounts -> Nat], bTokenSupply' \in Nat,
         debtBalance' \in [Users -> Nat], debtSupply' \in Nat,
         NEW added \in Nat, NEW taken \in Nat,
         UpdateInterestRates(added, taken),
         cash' = cash + added - taken,
         transactions' \in Nat,
         UNCHANGED <<reserveFactor, flags, now>>
  PROVE  TypeOK'
<1>1. /\ cash \in Nat /\ reserveFactor \in Nat
      /\ now \in Nat /\ flags \in Flags /\ reserveFactor \in ReserveFactors
  BY ReserveInputAssumption DEF TypeOK
<1>2. /\ cash' \in Nat
      /\ currentLiquidityRate' \in Nat /\ currentVariableBorrowRate' \in Nat
  BY <1>1, IndexesUpdated, RatesUpdated
<1>3. /\ lastUpdateTimestamp' \in Nat
      /\ lastUpdateTimestamp' <= now'
  BY <1>1, IndexesUpdated, SMT
<1>4. reserveFactor' \in ReserveFactors /\ flags' \in Flags /\ now' \in Nat
  BY <1>1
<1>5. /\ liquidityIndex' \in Nat /\ liquidityIndex' >= Ray
      /\ variableBorrowIndex' \in Nat /\ variableBorrowIndex' >= Ray
  BY IndexesUpdated
<1> QED
  BY <1>2, <1>3, <1>4, <1>5 DEF TypeOK

-----------------------------------------------------------------------------
LEMMA DepositType ==
  ASSUME TypeOK, transactions' \in Nat, NEW u \in Users, NEW a \in Nat, Deposit(u, a)
  PROVE  TypeOK'
<1> DEFINE minted == RayDiv(a, AccruedLiquidityIndex)
<1>1. minted \in Nat /\ u \in Accounts
  BY ScaledAmountType DEF Accounts
<1>2. TokensChange(u, minted)
  BY DEF Deposit
<1>3. minted \in Int
  BY <1>1, SMT
<1> HIDE DEF minted
<1>4. bTokenBalance' \in [Accounts -> Nat] /\ bTokenSupply' \in Nat
  BY <1>1, <1>2, <1>3, TokensType
<1>5. debtBalance' \in [Users -> Nat] /\ debtSupply' \in Nat
  BY DEF Deposit, TypeOK, debtVars
<1>6. /\ UpdateIndexes /\ UpdateInterestRates(a, 0)
      /\ UNCHANGED <<reserveFactor, flags, now>>
  BY DEF Deposit
<1>7. cash' = cash + a - 0
  BY SMT DEF Deposit, TypeOK
<1> QED
  BY <1>4, <1>5, <1>6, <1>7, TransactionType

LEMMA WithdrawType ==
  ASSUME TypeOK, transactions' \in Nat, NEW x \in Accounts, NEW a \in Nat, Withdraw(x, a)
  PROVE  TypeOK'
<1> DEFINE burned == RayDiv(a, AccruedLiquidityIndex)
<1>1. burned \in Nat
  BY ScaledAmountType
<1>2. TokensChange(x, -burned)
  BY DEF Withdraw
<1>3. -burned \in Int
  BY <1>1, SMT
<1> HIDE DEF burned
<1>4. bTokenBalance' \in [Accounts -> Nat] /\ bTokenSupply' \in Nat
  BY <1>2, <1>3, TokensType
<1>5. debtBalance' \in [Users -> Nat] /\ debtSupply' \in Nat
  BY DEF Withdraw, TypeOK, debtVars
<1>6. /\ UpdateIndexes /\ UpdateInterestRates(0, a)
      /\ UNCHANGED <<reserveFactor, flags, now>>
  BY DEF Withdraw
<1>7. cash' = cash + 0 - a
  BY SMT DEF Withdraw, TypeOK
<1> QED
  BY <1>4, <1>5, <1>6, <1>7, TransactionType

LEMMA BalanceType ==
  ASSUME TypeOK, NEW x \in Accounts
  PROVE  BalanceOf(x) \in Nat
<1>1. bTokenBalance[x] \in Nat
  BY DEF TypeOK
<1>2. NormalizedIncome \in Nat
  BY ViewIsAccrued, AccruedIndexes
<1> QED
  BY <1>1, <1>2, RayMulType DEF BalanceOf

(* The treasury's mint is all that borrowers' transactions do to bTokens. *)
LEMMA TreasuryMintType ==
  ASSUME TypeOK, TokensChange(Treasury, 0)
  PROVE  bTokenBalance' \in [Accounts -> Nat] /\ bTokenSupply' \in Nat
<1>1. Treasury \in Accounts /\ 0 \in Int
  BY SMT DEF Accounts
<1> QED
  BY <1>1, TokensType

LEMMA BorrowType ==
  ASSUME TypeOK, transactions' \in Nat, NEW u \in Users, NEW a \in Nat, Borrow(u, a)
  PROVE  TypeOK'
<1> DEFINE minted == RayDiv(a, AccruedBorrowIndex)
<1>1. minted \in Nat
  BY ScaledAmountType
<1>2. DebtChange(u, minted)
  BY DEF Borrow
<1>3. minted \in Int
  BY <1>1, SMT
<1> HIDE DEF minted
<1>4. debtBalance' \in [Users -> Nat] /\ debtSupply' \in Nat
  BY <1>2, <1>3, DebtType
<1>5. bTokenBalance' \in [Accounts -> Nat] /\ bTokenSupply' \in Nat
  BY TreasuryMintType DEF Borrow
<1>6. /\ UpdateIndexes /\ UpdateInterestRates(0, a)
      /\ UNCHANGED <<reserveFactor, flags, now>>
  BY DEF Borrow
<1>7. cash' = cash + 0 - a
  BY SMT DEF Borrow, TypeOK
<1> QED
  BY <1>4, <1>5, <1>6, <1>7, TransactionType

LEMMA RepayType ==
  ASSUME TypeOK, transactions' \in Nat, NEW u \in Users, NEW a \in Nat, Repay(u, a)
  PROVE  TypeOK'
<1> DEFINE debt == RayMul(debtBalance[u], AccruedBorrowIndex)
           paid == IF a < debt THEN a ELSE debt
           burned == RayDiv(paid, AccruedBorrowIndex)
<1>1. debt \in Nat
  BY AccruedIndexes, RayMulType DEF TypeOK
<1>2. paid \in Nat
  BY <1>1
<1>3. burned \in Nat
  BY <1>2, ScaledAmountType
<1>4. /\ DebtChange(u, -burned)
      /\ UpdateIndexes /\ UpdateInterestRates(paid, 0)
      /\ cash' = cash + paid
      /\ TokensChange(Treasury, 0)
      /\ UNCHANGED <<reserveFactor, flags, now>>
  BY DEF Repay
<1> HIDE DEF debt, paid, burned
<1>5. -burned \in Int
  BY <1>3, SMT
<1>6. debtBalance' \in [Users -> Nat] /\ debtSupply' \in Nat
  BY <1>4, <1>5, DebtType
<1>7. bTokenBalance' \in [Accounts -> Nat] /\ bTokenSupply' \in Nat
  BY <1>4, TreasuryMintType
<1>8. cash' = cash + paid - 0
  BY <1>2, <1>4, SMT DEF TypeOK
<1> QED
  BY <1>2, <1>4, <1>6, <1>7, <1>8, TransactionType

LEMMA AuctionType ==
  ASSUME TypeOK, transactions' \in Nat, NEW u \in Users, Auction(u)
  PROVE  TypeOK'
<1>1. bTokenBalance' \in [Accounts -> Nat] /\ bTokenSupply' \in Nat
  BY TreasuryMintType DEF Auction
<1>2. debtBalance' \in [Users -> Nat] /\ debtSupply' \in Nat
  BY DEF Auction, TypeOK, debtVars
<1>3. /\ UpdateIndexes /\ UpdateInterestRates(0, 0)
      /\ UNCHANGED <<reserveFactor, flags, now>>
  BY DEF Auction
<1>4. cash' = cash + 0 - 0
  BY SMT DEF Auction, TypeOK
<1> QED
  BY <1>1, <1>2, <1>3, <1>4, TransactionType

LEMMA TransferType ==
  ASSUME TypeOK, transactions' \in Nat, NEW x \in Accounts, NEW y \in Accounts,
         NEW a \in Nat, Transfer(x, y, a)
  PROVE  TypeOK'
<1> DEFINE moved == RayDiv(a, NormalizedIncome)
           paid == [bTokenBalance EXCEPT ![x] = @ - moved]
<1>1. moved \in Nat
  BY ViewIsAccrued, ScaledAmountType
<1>2. /\ moved <= bTokenBalance[x]
      /\ bTokenBalance' = [paid EXCEPT ![y] = @ + moved]
      /\ UNCHANGED <<indexVars, rateVars, bTokenSupply, debtVars, cash,
                     reserveFactor, flags, now>>
  BY DEF Transfer
<1> HIDE DEF moved
<1>3. paid \in [Accounts -> Nat]
  BY <1>1, <1>2, SMT DEF TypeOK
<1> HIDE DEF paid
<1>4. bTokenBalance' \in [Accounts -> Nat]
  BY <1>1, <1>2, <1>3, SMT
<1> QED
  BY <1>2, <1>4 DEF TypeOK, indexVars, rateVars, debtVars

LEMMA AdminType ==
  ASSUME TypeOK, UNCHANGED transactions, AdminStep \/ Tick
  PROVE  TypeOK'
<1>1. ASSUME NEW factor \in ReserveFactors, SetReserveFactor(factor)
      PROVE  TypeOK'
  BY <1>1 DEF SetReserveFactor, TypeOK, indexVars, rateVars, bTokenVars, debtVars
<1>2. ASSUME NEW field \in AdminFlags, NEW flag \in BOOLEAN, SetFlag(field, flag)
      PROVE  TypeOK'
  <2>1. flags' \in Flags
    BY <1>2, Zenon DEF SetFlag, Flags, TypeOK
  <2> QED
    BY <1>2, <2>1 DEF SetFlag, TypeOK, indexVars, rateVars, bTokenVars, debtVars
<1>3. CASE Tick
  <2>1. now' \in Nat /\ lastUpdateTimestamp' \in Nat /\ lastUpdateTimestamp' <= now'
    BY <1>3, SMT DEF Tick, TypeOK, indexVars
  <2> QED
    BY <1>3, <2>1 DEF Tick, TypeOK, indexVars, rateVars, bTokenVars, debtVars
<1> QED
  BY <1>1, <1>2, <1>3 DEF AdminStep

LEMMA PoolType ==
  ASSUME TypeOK, PoolStep, transactions' = transactions + 1
  PROVE  TypeOK'
<1>1. transactions' \in Nat
  BY SMT DEF TypeOK
<1>2. /\ \A a \in Amounts : a \in Nat
      /\ \A a \in TransferAmounts : a \in Nat
  BY ReserveInputAssumption
<1>3. ASSUME NEW u \in Users, NEW a \in Amounts, Deposit(u, a) PROVE TypeOK'
  BY <1>1, <1>2, <1>3, DepositType
<1>4. ASSUME NEW x \in Accounts, NEW a \in Amounts, Withdraw(x, a) PROVE TypeOK'
  BY <1>1, <1>2, <1>4, WithdrawType
<1>5. ASSUME NEW x \in Accounts, WithdrawAll(x) PROVE TypeOK'
  <2>1. BalanceOf(x) \in Nat
    BY BalanceType
  <2> QED
    BY <1>1, <1>5, <2>1, WithdrawType DEF WithdrawAll
<1>6. ASSUME NEW u \in Users, NEW a \in Amounts, Borrow(u, a) PROVE TypeOK'
  BY <1>1, <1>2, <1>6, BorrowType
<1>7. ASSUME NEW u \in Users, NEW a \in Amounts, Repay(u, a) PROVE TypeOK'
  BY <1>1, <1>2, <1>7, RepayType
<1>8. ASSUME NEW u \in Users, Auction(u) PROVE TypeOK'
  BY <1>1, <1>8, AuctionType
<1>9. ASSUME NEW x \in Accounts, NEW y \in Accounts, NEW a \in TransferAmounts,
             Transfer(x, y, a)
      PROVE  TypeOK'
  BY <1>1, <1>2, <1>9, TransferType
<1> QED
  BY <1>3, <1>4, <1>5, <1>6, <1>7, <1>8, <1>9 DEF PoolStep

-----------------------------------------------------------------------------
(***************************************************************************)
(* Type correctness of the reserve.  It says more than types: no index is  *)
(* below one ray, no balance, supply or rate is negative, and the indexes  *)
(* are never dated after the block they were computed in.                  *)
(***************************************************************************)
THEOREM ReserveTypeCorrect == Spec => []TypeOK
<1>1. Init => TypeOK
  BY RayAssumption, SMT DEF Init, TypeOK, Flags
<1>2. TypeOK /\ [Next]_vars => TypeOK'
  <2> SUFFICES ASSUME TypeOK, [Next]_vars PROVE TypeOK'
    OBVIOUS
  <2>1. CASE Next
    BY <2>1, PoolType, AdminType DEF Next
  <2>2. CASE UNCHANGED vars
    BY <2>2 DEF vars, TypeOK, indexVars, rateVars, bTokenVars, debtVars
  <2> QED
    BY <2>1, <2>2
<1> QED
  BY <1>1, <1>2, PTL DEF Spec

(* A step either accrues or leaves the indexes as they are. *)
LEMMA IndexSteps ==
  ASSUME TypeOK, [Next]_vars
  PROVE  UpdateIndexes \/ UNCHANGED indexVars
         \/ UNCHANGED <<liquidityIndex, variableBorrowIndex>>
<1>1. CASE PoolStep
  BY <1>1 DEF PoolStep, Deposit, Withdraw, WithdrawAll, Borrow, Repay, Auction,
     Transfer, indexVars
<1>2. CASE AdminStep \/ Tick
  BY <1>2 DEF AdminStep, SetReserveFactor, SetFlag, Tick, indexVars
<1>3. CASE UNCHANGED vars
  BY <1>3 DEF vars, indexVars
<1> QED
  BY <1>1, <1>2, <1>3 DEF Next

(***************************************************************************)
(* Neither index ever falls, for any rates, any clock and any order of the *)
(* transactions: what the loans of module LendPool rest on.                *)
(***************************************************************************)
THEOREM IndexesGrowCorrect == Spec => IndexesGrow
<1>1. TypeOK /\ [Next]_vars
        => [/\ liquidityIndex' >= liquidityIndex
            /\ variableBorrowIndex' >= variableBorrowIndex]_vars
  <2> SUFFICES ASSUME TypeOK, [Next]_vars
               PROVE  /\ liquidityIndex' >= liquidityIndex
                      /\ variableBorrowIndex' >= variableBorrowIndex
    OBVIOUS
  <2>1. CASE UpdateIndexes
    BY <2>1, IndexesUpdated
  <2>2. CASE UNCHANGED <<liquidityIndex, variableBorrowIndex>>
    BY <2>2, SMT DEF TypeOK
  <2> QED
    BY <2>1, <2>2, IndexSteps DEF indexVars
<1> QED
  BY <1>1, ReserveTypeCorrect, PTL DEF Spec, IndexesGrow

(***************************************************************************)
(* A depositor who withdraws everything keeps no bTokens: the amount read  *)
(* from the view is burned back to exactly the scaled balance.             *)
(***************************************************************************)
THEOREM WithdrawAllCorrect == Spec => WithdrawAllEmpties
<1>1. TypeOK => [\A u \in Users : WithdrawAll(u) => bTokenBalance'[u] = 0]_vars
  <2> SUFFICES ASSUME TypeOK, NEW u \in Users, WithdrawAll(u)
               PROVE  bTokenBalance'[u] = 0
    OBVIOUS
  <2>1. /\ u # Treasury /\ u \in Accounts /\ Treasury \in Accounts
        /\ bTokenBalance \in [Accounts -> Nat] /\ bTokenBalance[u] \in Nat
    BY AccountAssumption DEF Accounts, TypeOK
  <2>2. /\ AccruedLiquidityIndex \in Nat /\ AccruedLiquidityIndex >= Ray
        /\ NormalizedIncome = AccruedLiquidityIndex
    <3>1. liquidityIndex \in Nat /\ Ray \in Nat
      BY ReserveUnits DEF TypeOK
    <3>2. AccruedLiquidityIndex \in Nat /\ AccruedLiquidityIndex >= liquidityIndex
          /\ liquidityIndex >= Ray
      BY AccruedIndexes
    <3> QED
      BY <3>1, <3>2, ViewIsAccrued, SMT
  <2>3. RayDiv(BalanceOf(u), AccruedLiquidityIndex) = bTokenBalance[u]
    BY <2>1, <2>2, ScaledRoundTrip DEF BalanceOf
  <2>4. TokensChange(u, -bTokenBalance[u])
    BY <2>3 DEF WithdrawAll, Withdraw
  <2>5. bTokenBalance'[u] = bTokenBalance[u] + -bTokenBalance[u]
    BY <2>1, <2>4, Zenon DEF TokensChange
  <2> QED
    BY <2>1, <2>5, SMT
<1> QED
  BY <1>1, ReserveTypeCorrect, PTL DEF Spec, WithdrawAllEmpties
-----------------------------------------------------------------------------
(* What a step that sets the rates leaves: they are those of its own state *)
RatesSet ==
  /\ currentVariableBorrowRate' =
       VariableBorrowRate(
         UtilizationRate(cash', RayMul(debtSupply', variableBorrowIndex')))
  /\ currentLiquidityRate' =
       LiquidityRate(RayMul(debtSupply', variableBorrowIndex'),
                     currentVariableBorrowRate',
                     UtilizationRate(cash', RayMul(debtSupply',
                                                   variableBorrowIndex')))
  /\ reserveFactor <= PercentFactor
  /\ flags.active /\ flags' = flags

LEMMA RatesSetBy ==
  ASSUME NEW added, NEW taken, UpdateInterestRates(added, taken),
         cash' = cash + added - taken, flags.active, flags' = flags
  PROVE  RatesSet
BY DEF UpdateInterestRates, RatesSet

(* Every transaction of the pool but a transfer sets the rates. *)
LEMMA PoolSetsRates ==
  ASSUME TypeOK, PoolStep
  PROVE  \/ RatesSet
         \/ UNCHANGED <<indexVars, rateVars, debtVars, cash, flags>>
<1>1. /\ \A a \in Amounts : a \in Nat
      /\ cash \in Nat
  BY ReserveInputAssumption DEF TypeOK
<1>2. ASSUME NEW u \in Users, NEW a \in Amounts, Deposit(u, a)
      PROVE  RatesSet
  <2>1. /\ UpdateInterestRates(a, 0) /\ flags.active /\ flags' = flags
        /\ cash' = cash + a
    BY <1>2 DEF Deposit
  <2>2. cash' = cash + a - 0
    BY <2>1, <1>1, SMT
  <2> QED
    BY <2>1, <2>2, RatesSetBy
<1>3. ASSUME NEW x \in Accounts, NEW a \in Nat, Withdraw(x, a)
      PROVE  RatesSet
  <2>1. /\ UpdateInterestRates(0, a) /\ flags.active /\ flags' = flags
        /\ cash' = cash - a
    BY <1>3 DEF Withdraw
  <2>2. cash' = cash + 0 - a
    BY <2>1, <1>1, SMT
  <2> QED
    BY <2>1, <2>2, RatesSetBy
<1>4. ASSUME NEW x \in Accounts, WithdrawAll(x)
      PROVE  RatesSet
  BY <1>3, <1>4, BalanceType DEF WithdrawAll
<1>5. ASSUME NEW u \in Users, NEW a \in Amounts, Borrow(u, a)
      PROVE  RatesSet
  <2>1. /\ UpdateInterestRates(0, a) /\ flags.active /\ flags' = flags
        /\ cash' = cash - a
    BY <1>5 DEF Borrow
  <2>2. cash' = cash + 0 - a
    BY <2>1, <1>1, SMT
  <2> QED
    BY <2>1, <2>2, RatesSetBy
<1>6. ASSUME NEW u \in Users, NEW a \in Amounts, Repay(u, a)
      PROVE  RatesSet
  <2> DEFINE debt == RayMul(debtBalance[u], AccruedBorrowIndex)
             paid == IF a < debt THEN a ELSE debt
  <2>1. /\ UpdateInterestRates(paid, 0) /\ flags.active /\ flags' = flags
        /\ cash' = cash + paid
    BY <1>6 DEF Repay
  <2>2. paid \in Nat
    <3>1. debt \in Nat
      BY AccruedIndexes, RayMulType DEF TypeOK
    <3> QED
      BY <3>1, <1>1
  <2> HIDE DEF paid
  <2>3. cash' = cash + paid - 0
    BY <2>1, <2>2, <1>1, SMT
  <2> QED
    BY <2>1, <2>3, RatesSetBy
<1>7. ASSUME NEW u \in Users, Auction(u)
      PROVE  RatesSet
  <2>1. /\ UpdateInterestRates(0, 0) /\ flags.active /\ flags' = flags
        /\ cash' = cash
    BY <1>7 DEF Auction
  <2>2. cash' = cash + 0 - 0
    BY <2>1, <1>1, SMT
  <2> QED
    BY <2>1, <2>2, RatesSetBy
<1>8. ASSUME NEW x \in Accounts, NEW y \in Accounts, NEW a \in TransferAmounts,
             Transfer(x, y, a)
      PROVE  UNCHANGED <<indexVars, rateVars, debtVars, cash, flags>>
  BY <1>8 DEF Transfer
<1> QED
  BY <1>1, <1>2, <1>3, <1>4, <1>5, <1>6, <1>7, <1>8 DEF PoolStep

(* The other steps leave what the rates are computed from. *)
LEMMA OtherSteps ==
  ASSUME AdminStep \/ Tick \/ UNCHANGED vars
  PROVE  UNCHANGED <<indexVars, rateVars, debtVars, cash>>
BY DEF AdminStep, SetReserveFactor, SetFlag, Tick, vars

LEMMA RatesStay ==
  TypeOK /\ RatesCurrent /\ [Next]_vars => RatesCurrent'
<1> SUFFICES ASSUME TypeOK, RatesCurrent, [Next]_vars
             PROVE  RatesCurrent'
  OBVIOUS
<1>1. CASE RatesSet
  BY <1>1 DEF RatesSet, RatesCurrent
<1>2. CASE UNCHANGED <<indexVars, rateVars, debtVars, cash>>
  BY <1>2 DEF RatesCurrent, indexVars, rateVars, debtVars
<1> QED
  BY <1>1, <1>2, PoolSetsRates, OtherSteps DEF Next

(***************************************************************************)
(* Although the rates are set before the money moves, the borrow rate      *)
(* between two transactions is that of the actual utilization: for every   *)
(* rate strategy, all amounts and any order of the transactions.           *)
(***************************************************************************)
THEOREM RatesCurrentCorrect == Spec => []RatesCurrent
<1>1. Init => RatesCurrent
  BY SMT DEF Init, RatesCurrent
<1> QED
  BY <1>1, RatesStay, ReserveTypeCorrect, PTL DEF Spec
-----------------------------------------------------------------------------
(***************************************************************************)
(* Deactivating a reserve asks that it holds no cash and pays no liquidity *)
(* rate.  That nobody owes it anything follows from the rates: with all of *)
(* the money lent, the utilization is 100%, and the rate that depositors   *)
(* earn is zero only if the roundings swallow the borrow rate, or if the   *)
(* treasury takes everything.  The two hypotheses exclude that.            *)
(***************************************************************************)
RatesAreVisible == BaseRate + Slope1 + Slope2 >= 2 * Wad + PercentFactor

LiquidityRateWith(factor, debt, rate, utilization) ==
  PercentMul(RayMul(OverallBorrowRate(debt, rate), utilization),
             PercentFactor - factor)

Debt == RayMul(debtSupply, variableBorrowIndex)

\* The rates are those of the state, with a reserve factor that may have
\* been changed since.
RatesInForce ==
  debtSupply # 0 =>
    \E factor \in ReserveFactors :
      /\ factor <= PercentFactor
      /\ currentLiquidityRate =
           LiquidityRateWith(factor, Debt,
                             VariableBorrowRate(UtilizationRate(cash, Debt)),
                             UtilizationRate(cash, Debt))

LEMMA RayDivSelf ==
  ASSUME NEW a \in Nat, a > 0
  PROVE  RayDiv(a, a) = Ray
<1> DEFINE p == a * Ray
<1>1. p \in Nat /\ Ray \in Nat
  BY ProductType, ReserveUnits
<1>2. /\ a \div 2 \in Nat /\ a \div 2 < a
      /\ p + (a \div 2) \in Nat
  BY <1>1, SMT
<1>3. (p + (a \div 2)) \div a = Ray
  <2>1. a * Ray <= p + (a \div 2) /\ p + (a \div 2) < a * Ray + a
    BY <1>1, <1>2
  <2> HIDE DEF p
  <2> QED
    BY <1>1, <1>2, <2>1, DivUnique
<1> QED
  BY <1>3 DEF RayDiv, RoundedDiv

\* Everything is lent: the highest borrow rate.
LEMMA FullUtilization ==
  ASSUME NEW debt \in Nat, debt > 0
  PROVE  /\ UtilizationRate(0, debt) = Ray
         /\ VariableBorrowRate(Ray) = BaseRate + Slope1 + Slope2
<1>1. UtilizationRate(0, debt) = Ray
  <2>1. 0 + debt = debt /\ debt # 0
    BY SMT
  <2> QED
    BY <2>1, RayDivSelf DEF UtilizationRate
<1>2. RayDiv(Ray - OptimalUtilization, Ray - OptimalUtilization) = Ray
  BY RayDivSelf, ReserveUnits
<1>3. RayMul(Slope2, Ray) = Slope2
  <2>1. RayMul(Ray, Slope2) = Slope2
    BY RayMulOne, ReserveUnits
  <2>2. Slope2 * Ray = Ray * Slope2
    BY ReserveUnits, SMT
  <2> QED
    BY <2>1, <2>2 DEF RayMul
<1>4. Ray > OptimalUtilization
  BY ReserveUnits, SMT
<1> QED
  BY <1>1, <1>2, <1>3, <1>4 DEF VariableBorrowRate

\* A quotient rounded half up is above the exact one less one.
LEMMA RoundedAbove ==
  ASSUME NEW a \in Nat, NEW b \in Nat, b > 0
  PROVE  RoundedDiv(a, b) \in Nat /\ a < b * RoundedDiv(a, b) + b
<1>1. a + (b \div 2) \in Nat /\ b \div 2 \in Nat
  BY SMT
<1>2. a + (b \div 2) < b * RoundedDiv(a, b) + b /\ RoundedDiv(a, b) \in Nat
  BY <1>1, DivBounds DEF RoundedDiv
<1>3. b * RoundedDiv(a, b) \in Nat
  BY <1>2, ProductType
<1> HIDE DEF RoundedDiv
<1> QED
  BY <1>1, <1>2, <1>3, SMT

\* The rate over all borrowers loses less than two wads to its roundings.
LEMMA OverallRateAbove ==
  ASSUME NEW debt \in Nat, debt > 0, NEW rate \in Nat, rate >= 2 * Wad
  PROVE  /\ OverallBorrowRate(debt, rate) \in Nat
         /\ OverallBorrowRate(debt, rate) >= rate - 2 * Wad
<1> DEFINE k == Ray \div Wad
           x == debt * k
           y == RayMul(x, rate)
           z == RayDiv(y, x)
<1>1. k \in Nat /\ Ray < Wad * k + Wad
  BY ReserveUnits, DivBounds
<1>2. k > 0
  <2> SUFFICES ASSUME k = 0 PROVE FALSE
    BY <1>1, SMT
  <2>1. Ray < Wad * 0 + Wad
    BY <1>1
  <2> QED
    BY <2>1, ReserveUnits, SMT
<1> HIDE DEF k
<1>3. x \in Nat /\ x >= k /\ x > 0
  <2>1. PICK d \in Nat : debt = d + 1
    <3>1. debt - 1 \in Nat /\ debt = (debt - 1) + 1
      BY SMT
    <3> QED
      BY <3>1
  <2>2. (d + 1) * k = d * k + k /\ d * k \in Nat
    BY <1>1, ProductType, SMT
  <2> QED
    BY <1>1, <1>2, <2>1, <2>2, SMT
<1>4. OverallBorrowRate(debt, rate) = z
  BY SMT DEF OverallBorrowRate, WadToRay, k
<1> HIDE DEF x
<1>5. /\ y \in Nat /\ x * rate \in Nat
      /\ x * rate < Ray * y + Ray
  BY <1>3, ReserveUnits, ProductType, RoundedAbove DEF RayMul
<1> HIDE DEF y
<1>6. /\ z \in Nat /\ y * Ray \in Nat
      /\ y * Ray < x * z + x
  BY <1>3, <1>5, ReserveUnits, ProductType, RoundedAbove DEF RayDiv
<1> HIDE DEF z
<1>7. Ray < 2 * (Wad * x)
  <2>1. PICK w \in Nat : Wad = w + 1
    <3>1. Wad - 1 \in Nat /\ Wad = (Wad - 1) + 1
      BY ReserveUnits, SMT
    <3> QED
      BY <3>1
  <2>2. PICK e \in Nat : x = k + e
    <3>1. x - k \in Nat /\ x = k + (x - k)
      BY <1>1, <1>3, SMT
    <3> QED
      BY <3>1
  <2>3. Wad * x = Wad * k + Wad * e /\ Wad * k \in Nat /\ Wad * e \in Nat
    BY <2>2, <1>1, ReserveUnits, ProductType, SMT
  <2>4. PICK j \in Nat : k = j + 1
    <3>1. k - 1 \in Nat /\ k = (k - 1) + 1
      BY <1>1, <1>2, SMT
    <3> QED
      BY <3>1
  <2>5. Wad * k = Wad * j + Wad /\ Wad * j \in Nat
    BY <2>4, ReserveUnits, ProductType, SMT
  <2> QED
    BY <1>1, <2>3, <2>5, ReserveUnits, SMT
<1>8. z >= rate - 2 * Wad
  <2> SUFFICES ASSUME z < rate - 2 * Wad PROVE FALSE
    BY <1>6, ReserveUnits, SMT
  <2>1. PICK g \in Nat : rate = z + 2 * Wad + 1 + g
    <3>1. /\ rate - (z + 2 * Wad + 1) \in Nat
          /\ rate = z + 2 * Wad + 1 + (rate - (z + 2 * Wad + 1))
      BY <1>6, ReserveUnits, SMT
    <3> QED
      BY <3>1
  <2>2. /\ x * rate = x * z + 2 * (Wad * x) + x + x * g
        /\ x * g \in Nat /\ x * z \in Nat /\ Wad * x \in Nat
    BY <2>1, <1>3, <1>6, ReserveUnits, ProductType, SMT
  <2>3. y * Ray = Ray * y
    BY <1>5, ReserveUnits, SMT
  <2> QED
    BY <1>3, <1>5, <1>6, <1>7, <2>2, <2>3, ReserveUnits, SMT
<1> QED
  BY <1>4, <1>6, <1>8

\* A share of a rate of at least 100% of the unit does not round to nothing.
LEMMA ShareVisible ==
  ASSUME NEW rate \in Nat, rate >= PercentFactor,
         NEW share \in Nat, share > 0
  PROVE  PercentMul(rate, share) # 0
<1>1. rate * share \in Nat /\ rate * share >= rate
  <2>1. PICK d \in Nat : share = d + 1
    <3>1. share - 1 \in Nat /\ share = (share - 1) + 1
      BY SMT
    <3> QED
      BY <3>1
  <2>2. rate * (d + 1) = rate * d + rate /\ rate * d \in Nat
    BY ProductType, SMT
  <2> QED
    BY <2>1, <2>2, SMT
<1> DEFINE a == rate * share
           q == RoundedDiv(a, PercentFactor)
<1>2. a \in Nat /\ a >= PercentFactor
  BY <1>1, ReserveUnits, SMT
<1> HIDE DEF a
<1>3. q \in Nat /\ a < PercentFactor * q + PercentFactor
  BY <1>2, ReserveUnits, RoundedAbove
<1>4. q # 0
  <2> SUFFICES ASSUME q = 0 PROVE FALSE
    OBVIOUS
  <2>1. a < PercentFactor * 0 + PercentFactor
    BY <1>3
  <2> QED
    BY <1>2, <2>1, ReserveUnits, SMT
<1> QED
  BY <1>4 DEF PercentMul, a

\* So a reserve without cash that is owed something pays its depositors.
LEMMA DebtEarns ==
  ASSUME TypeOK, RatesInForce, RatesAreVisible,
         PercentFactor \notin ReserveFactors,
         cash = 0, debtSupply # 0
  PROVE  currentLiquidityRate # 0
<1>1. Debt \in Nat /\ Debt > 0
  <2>1. /\ debtSupply \in Nat /\ variableBorrowIndex \in Nat
        /\ variableBorrowIndex >= Ray
    BY DEF TypeOK
  <2>2. /\ RayMul(variableBorrowIndex, debtSupply) \in Nat
        /\ RayMul(variableBorrowIndex, debtSupply) >= debtSupply
    BY <2>1, RayMulGrows, RayMulType
  <2>3. debtSupply * variableBorrowIndex = variableBorrowIndex * debtSupply
    BY <2>1, SMT
  <2>4. Debt = RayMul(variableBorrowIndex, debtSupply)
    BY <2>3 DEF Debt, RayMul
  <2> QED
    BY <2>1, <2>2, <2>4, SMT
<1>2. PICK factor \in ReserveFactors :
        /\ factor <= PercentFactor
        /\ currentLiquidityRate =
             LiquidityRateWith(factor, Debt,
                               VariableBorrowRate(UtilizationRate(cash, Debt)),
                               UtilizationRate(cash, Debt))
  BY Zenon DEF RatesInForce
<1>3. /\ UtilizationRate(cash, Debt) = Ray
      /\ VariableBorrowRate(Ray) = BaseRate + Slope1 + Slope2
  BY <1>1, FullUtilization
<1> DEFINE rate == BaseRate + Slope1 + Slope2
           overall == OverallBorrowRate(Debt, rate)
<1>4. rate \in Nat /\ rate >= 2 * Wad + PercentFactor /\ rate >= 2 * Wad
  BY ReserveUnits, SMT DEF RatesAreVisible
<1>5. currentLiquidityRate =
        PercentMul(RayMul(overall, Ray), PercentFactor - factor)
  BY <1>2, <1>3 DEF LiquidityRateWith
<1> HIDE DEF rate
<1>6. overall \in Nat /\ overall >= rate - 2 * Wad
  BY <1>1, <1>4, OverallRateAbove
<1> HIDE DEF overall
<1>7. overall >= PercentFactor
  BY <1>4, <1>6, ReserveUnits, SMT
<1>8. RayMul(overall, Ray) = overall
  <2>1. RayMul(Ray, overall) = overall
    BY <1>6, RayMulOne
  <2>2. overall * Ray = Ray * overall
    BY <1>6, ReserveUnits, SMT
  <2> QED
    BY <2>1, <2>2 DEF RayMul
<1>9. PercentFactor - factor \in Nat /\ PercentFactor - factor > 0
  <2>1. factor \in Nat /\ factor # PercentFactor
    BY ReserveInputAssumption
  <2> QED
    BY <1>2, <2>1, ReserveUnits, SMT
<1> QED
  BY <1>5, <1>6, <1>7, <1>8, <1>9, ShareVisible

LEMMA RatesInForceStay ==
  TypeOK /\ RatesInForce /\ [Next]_vars => RatesInForce'
<1> SUFFICES ASSUME TypeOK, RatesInForce, [Next]_vars
             PROVE  RatesInForce'
  OBVIOUS
<1>1. CASE RatesSet
  <2>1. reserveFactor \in ReserveFactors
    BY DEF TypeOK
  <2> QED
    BY <1>1, <2>1 DEF RatesSet, RatesInForce, LiquidityRateWith, LiquidityRate,
       Debt
<1>2. CASE UNCHANGED <<indexVars, rateVars, debtVars, cash>>
  BY <1>2 DEF RatesInForce, Debt, indexVars, rateVars, debtVars
<1> QED
  BY <1>1, <1>2, PoolSetsRates, OtherSteps DEF Next

(***************************************************************************)
(* A deactivated reserve is owed nothing, whatever amounts were lent and   *)
(* at which rates: the check of cash and liquidity rate is enough.  It is  *)
(* so for every rate strategy whose rate at full utilization exceeds two   *)
(* wads, and for every reserve factor but 100%, with which depositors earn *)
(* nothing and the check lets a reserve pass whose money is all lent.      *)
(***************************************************************************)
THEOREM InactiveOwedNothingCorrect ==
  ASSUME RatesAreVisible, PercentFactor \notin ReserveFactors
  PROVE  Spec => []InactiveReserveOwedNothing
<1> DEFINE Inv == RatesInForce /\ InactiveReserveOwedNothing
<1>1. Init => Inv
  BY DEF Init, RatesInForce, InactiveReserveOwedNothing
<1>2. TypeOK /\ Inv /\ [Next]_vars => Inv'
  <2> SUFFICES ASSUME TypeOK, RatesInForce, InactiveReserveOwedNothing,
                      [Next]_vars
               PROVE  InactiveReserveOwedNothing'
    BY RatesInForceStay
  <2>1. CASE RatesSet
    BY <2>1 DEF RatesSet, InactiveReserveOwedNothing
  <2>2. CASE UNCHANGED <<debtSupply, flags>>
    BY <2>2 DEF InactiveReserveOwedNothing
  <2>3. ASSUME NEW field \in AdminFlags, NEW flag \in BOOLEAN,
               SetFlag(field, flag)
        PROVE  InactiveReserveOwedNothing'
    <3>1. debtSupply' = debtSupply
      BY <2>3 DEF SetFlag, debtVars
    <3>2. CASE field = "active" /\ ~flag
      <4>1. debtSupply = 0
        BY <2>3, <3>2, DebtEarns DEF SetFlag, NoLiquidity
      <4> QED
        BY <3>1, <4>1 DEF InactiveReserveOwedNothing
    <3>3. CASE ~(field = "active" /\ ~flag)
      <4>1. flags' = [flags EXCEPT ![field] = flag] /\ flags \in Flags
        BY <2>3 DEF SetFlag, TypeOK
      <4>2. ~flags'.active => ~flags.active
        BY <3>3, <4>1 DEF Flags
      <4> QED
        BY <3>1, <4>2 DEF InactiveReserveOwedNothing
    <3> QED
      BY <3>2, <3>3
  <2>4. CASE AdminStep \/ Tick \/ UNCHANGED vars
    <3>1. ASSUME NEW factor \in ReserveFactors, SetReserveFactor(factor)
          PROVE  UNCHANGED <<debtSupply, flags>>
      BY <3>1 DEF SetReserveFactor, debtVars
    <3>2. ASSUME Tick \/ UNCHANGED vars
          PROVE  UNCHANGED <<debtSupply, flags>>
      BY <3>2 DEF Tick, vars, debtVars
    <3> QED
      BY <2>2, <2>3, <2>4, <3>1, <3>2 DEF AdminStep
  <2>5. CASE PoolStep
    BY <2>1, <2>2, <2>5, PoolSetsRates DEF debtVars
  <2> QED
    BY <2>4, <2>5 DEF Next
<1>3. Inv => InactiveReserveOwedNothing
  OBVIOUS
<1> HIDE DEF Inv
<1> QED
  BY <1>1, <1>2, <1>3, ReserveTypeCorrect, PTL DEF Spec
-----------------------------------------------------------------------------
(***************************************************************************)
(* No transaction makes the claims grow over the assets by more than its   *)
(* roundings.  First the arithmetic, on numbers; every inequality is       *)
(* doubled, so that half a unit is a number.  Then the rates in force: the *)
(* claims that a transaction adds are at the rates of the last one.  Then  *)
(* one accrual, one transaction, and every step.                           *)
(***************************************************************************)
(***************************************************************************)
(* Claims after a transaction: the supply S earned i rays per unit, t was  *)
(* minted for the treasury's share T and d for a deposit of m.             *)
(***************************************************************************)
LEMMA ClaimsAfter ==
  ASSUME NEW S \in Nat, NEW L \in Nat, NEW i \in Nat, NEW L1 \in Nat,
         NEW C \in Nat, NEW T \in Nat, NEW t \in Nat, NEW m \in Int,
         NEW d \in Int, NEW C1 \in Nat,
         2 * (Ray * L1) <= 2 * ((Ray + i) * L) + Ray,
         2 * (S * L) <= 2 * (Ray * C) + Ray,
         Ray + i <= L1,
         2 * (L1 * t) <= 2 * (T * Ray) + L1,
         2 * (L1 * d) <= 2 * (m * Ray) + L1,
         2 * (Ray * C1) <= 2 * ((S + t + d) * L1) + Ray
  PROVE  2 * (Ray * C1) <=
           2 * (Ray * C) + 2 * (i * C) + 2 * (Ray * T) + 2 * (Ray * m)
             + S + 3 * L1 + Ray
<1>1. Ray \in Nat /\ Ray > 0
  BY RayAssumption
<1> DEFINE h == Ray + i
<1>2. h \in Nat
  BY <1>1, SMT
<1>3. 2 * (S * (Ray * L1)) <= 2 * (S * (h * L)) + S * Ray
  <2>1. S * (2 * (Ray * L1)) <= S * (2 * (h * L) + Ray)
    BY <1>1, <1>2, ProductMonotone, SMT
  <2> QED
    BY <2>1, <1>1, <1>2, SMT
<1>4. 2 * (h * (S * L)) <= 2 * (h * (Ray * C)) + h * Ray
  <2>1. h * (2 * (S * L)) <= h * (2 * (Ray * C) + Ray)
    BY <1>1, <1>2, ProductMonotone, SMT
  <2> QED
    BY <2>1, <1>1, <1>2, SMT
<1>5. 2 * (S * L1) <= 2 * (h * C) + h + S
  <2>1. /\ S * (Ray * L1) = Ray * (S * L1)
        /\ S * (h * L) = h * (S * L)
        /\ h * (Ray * C) = Ray * (h * C)
    BY <1>1, <1>2, SMT
  <2>2. Ray * (2 * (S * L1)) <= Ray * (2 * (h * C) + h + S)
    BY <1>1, <1>2, <1>3, <1>4, <2>1, SMT
  <2>3. 2 * (S * L1) \in Int /\ 2 * (h * C) + h + S \in Int
    BY <1>2, SMT
  <2> HIDE DEF h
  <2> QED
    BY <1>1, <2>2, <2>3, CancelFactor
<1>6. h * C = Ray * C + i * C
  BY <1>1, SMT
<1>7. (S + t + d) * L1 = S * L1 + L1 * t + L1 * d
  BY SMT
<1>8. T * Ray = Ray * T /\ m * Ray = Ray * m
  BY <1>1, SMT
<1>9. /\ S * L1 \in Int /\ L1 * t \in Int /\ L1 * d \in Int
      /\ Ray * C \in Int /\ i * C \in Int /\ Ray * T \in Int
      /\ Ray * m \in Int /\ Ray * C1 \in Int
  BY <1>1, SMT
<1> QED
  BY <1>1, <1>5, <1>6, <1>7, <1>8, <1>9, SMT

(* Debt after a transaction that lends n, minting e. *)
LEMMA DebtAfter ==
  ASSUME NEW D \in Nat, NEW V1 \in Nat, NEW e \in Int, NEW n \in Int,
         NEW A1 \in Nat, NEW B1 \in Nat,
         2 * (Ray * A1) <= 2 * (D * V1) + Ray,
         2 * (n * Ray) <= 2 * (V1 * e) + V1,
         2 * ((D + e) * V1) <= 2 * (Ray * B1) + Ray
  PROVE  2 * (Ray * A1) + 2 * (Ray * n) <= 2 * (Ray * B1) + V1 + 2 * Ray
<1>1. Ray \in Nat /\ Ray > 0
  BY RayAssumption
<1>2. (D + e) * V1 = D * V1 + V1 * e /\ n * Ray = Ray * n
  BY <1>1, SMT
<1>3. /\ D * V1 \in Int /\ V1 * e \in Int /\ Ray * n \in Int
      /\ Ray * A1 \in Int /\ Ray * B1 \in Int
  BY <1>1, SMT
<1> QED
  BY <1>1, <1>2, <1>3, SMT

(***************************************************************************)
(* What the borrowers are charged: with D scaled debt, the compounded      *)
(* factor c is at least one ray and g, and it raises the index from V to   *)
(* V1 and the debt from A0 to A1.                                          *)
(***************************************************************************)
LEMMA InterestCharged ==
  ASSUME NEW D \in Nat, NEW V \in Nat, NEW V1 \in Nat, NEW g \in Nat,
         NEW c \in Nat, Ray + g <= c, NEW A0 \in Nat, A0 > 0, NEW A1 \in Nat,
         2 * (c * V) <= 2 * (Ray * V1) + Ray,
         2 * (Ray * A0) <= 2 * (D * V) + Ray,
         2 * (D * V1) <= 2 * (Ray * A1) + Ray
  PROVE  2 * (g * A0) + 2 * (Ray * A0) <= 2 * (Ray * A1) + g + D + 2 * Ray
<1>1. Ray \in Nat /\ Ray > 0
  BY RayAssumption
<1> DEFINE X == D * V
           Y1 == D * V1
           h == Ray + g
<1>2. X \in Nat /\ Y1 \in Nat /\ h \in Nat /\ X * c \in Nat
  BY <1>1, ProductType, SMT
<1>3. 2 * (X * c) <= 2 * (Ray * Y1) + Ray * D
  <2>1. D * (2 * (c * V)) <= D * (2 * (Ray * V1) + Ray)
    BY <1>1, ProductMonotone, SMT
  <2>2. D * (2 * (c * V)) = 2 * (X * c)
    BY SMT
  <2>3. D * (2 * (Ray * V1) + Ray) = 2 * (Ray * Y1) + Ray * D
    BY <1>1, SMT
  <2> QED
    BY <2>1, <2>2, <2>3
<1>4. 2 * (Ray * Y1) <= Ray * (2 * (Ray * A1) + Ray)
  <2>1. Ray * (2 * Y1) <= Ray * (2 * (Ray * A1) + Ray)
    BY <1>1, ProductMonotone, SMT
  <2> QED
    BY <2>1, <1>1, <1>2, SMT
<1>5. X * h <= X * c
  BY <1>1, <1>2, ProductMonotone, SMT
<1>6. h * (2 * (Ray * A0) - Ray) <= 2 * (X * h)
  <2>1. h * (2 * (Ray * A0) - Ray) <= h * (2 * X)
    BY <1>1, <1>2, ProductMonotone, SMT
  <2>2. h * (2 * X) = 2 * (X * h)
    BY <1>2, SMT
  <2> QED
    BY <2>1, <2>2
<1>7. h * (2 * (Ray * A0) - Ray) = Ray * (2 * (Ray * A0) - Ray + 2 * (g * A0) - g)
  BY <1>1, SMT
<1>8. Ray * (2 * (Ray * A0) - Ray + 2 * (g * A0) - g)
        <= Ray * (2 * (Ray * A1) + Ray + D)
  <2>1. Ray * (2 * (Ray * A1) + Ray) + Ray * D
          = Ray * (2 * (Ray * A1) + Ray + D)
    BY <1>1, SMT
  <2>2. /\ X * h \in Int /\ Ray * Y1 \in Int /\ Ray * D \in Int
        /\ Ray * (2 * (Ray * A1) + Ray) \in Int
        /\ h * (2 * (Ray * A0) - Ray) \in Int
    BY <1>1, <1>2, SMT
  <2> HIDE DEF X, Y1, h
  <2> QED
    BY <1>2, <1>3, <1>4, <1>5, <1>6, <1>7, <2>1, <2>2, SMT
<1>9. 2 * (Ray * A0) - Ray + 2 * (g * A0) - g <= 2 * (Ray * A1) + Ray + D
  <2>1. /\ 2 * (Ray * A0) - Ray + 2 * (g * A0) - g \in Int
        /\ 2 * (Ray * A1) + Ray + D \in Int
    BY <1>1, SMT
  <2> QED
    BY <1>1, <1>8, <2>1, CancelFactor
<1>10. Ray * A0 \in Int /\ g * A0 \in Int /\ Ray * A1 \in Int
  BY <1>1, SMT
<1> QED
  BY <1>1, <1>9, <1>10, SMT

(***************************************************************************)
(* The rate over all borrowers, o, is that of the index, b, but for the    *)
(* two roundings at w, the debt A0 in units of k.                          *)
(***************************************************************************)
LEMMA OverallRateBelow ==
  ASSUME NEW A0 \in Nat, A0 > 0, NEW b \in Nat, NEW k \in Nat, k > 0,
         Ray <= 2 * (Wad * k),
         NEW x \in Nat, NEW o \in Nat,
         2 * (Ray * x) <= 2 * ((A0 * k) * b) + Ray,
         2 * ((A0 * k) * o) <= 2 * (x * Ray) + A0 * k
  PROVE  /\ 2 * (A0 * o) <= 2 * (A0 * b) + A0 + 2 * Wad
         /\ o <= b + Wad
<1>1. Ray \in Nat /\ Ray > 0 /\ Wad \in Nat /\ Wad > 0
  BY RayAssumption, UnitAssumption
<1>2. k * (2 * (A0 * o)) <= k * (2 * (A0 * b) + A0 + 2 * Wad)
  <2>1. /\ k * (2 * (A0 * o)) = 2 * ((A0 * k) * o)
        /\ k * (2 * (A0 * b) + A0 + 2 * Wad)
             = 2 * ((A0 * k) * b) + A0 * k + 2 * (Wad * k)
        /\ x * Ray = Ray * x
    BY <1>1, SMT
  <2>2. /\ (A0 * k) * o \in Int /\ (A0 * k) * b \in Int /\ A0 * k \in Int
        /\ Wad * k \in Int /\ Ray * x \in Int
    BY <1>1, SMT
  <2> QED
    BY <1>1, <2>1, <2>2, SMT
<1>3. 2 * (A0 * o) <= 2 * (A0 * b) + A0 + 2 * Wad
  <2>1. 2 * (A0 * o) \in Int /\ 2 * (A0 * b) + A0 + 2 * Wad \in Int
    BY <1>1, SMT
  <2> QED
    BY <1>2, <2>1, CancelFactor
<1>4. o <= b + Wad
  <2> SUFFICES ASSUME o > b + Wad PROVE FALSE
    BY <1>1, SMT
  <2>1. PICK r \in Nat : o = b + Wad + 1 + r
    <3>1. o - (b + Wad + 1) \in Nat /\ o = b + Wad + 1 + (o - (b + Wad + 1))
      BY <1>1, SMT
    <3> QED
      BY <3>1
  <2>2. PICK a \in Nat : A0 = a + 1
    <3>1. A0 - 1 \in Nat /\ A0 = (A0 - 1) + 1
      BY SMT
    <3> QED
      BY <3>1
  <2>3. A0 * o = A0 * b + (a * Wad + Wad) + A0 + A0 * r
    BY <1>1, <2>1, <2>2, SMT
  <2>4. a * Wad \in Nat /\ A0 * r \in Nat /\ A0 * b \in Nat
    BY <1>1, <2>1, <2>2, ProductType
  <2> QED
    BY <1>1, <1>3, <2>3, <2>4, SMT
<1> QED
  BY <1>3, <1>4

(***************************************************************************)
(* What the depositors are credited, before the treasury's share: at the   *)
(* rate z on all the assets A for the time dt, no more than the borrowers  *)
(* are charged, acc, and the roundings of the rates.                       *)
(***************************************************************************)
RateRoundings(V1, D, A, dt, v, e) ==
  V1 + D + 3 * Ray + 2 * (Ray * e) + 6 * (A * dt) + A * v

LEMMA InterestCredited ==
  ASSUME NEW A \in Nat, NEW A0 \in Nat, A0 <= A, NEW b \in Nat, NEW o \in Nat,
         NEW u \in Nat, NEW z \in Nat, NEW g \in Nat, NEW dt \in Nat,
         NEW Y \in Nat, Y > 0, NEW V1 \in Nat, NEW v \in Nat, NEW e \in Nat,
         NEW acc \in Nat, NEW D \in Nat, Wad <= Ray,
         2 * (A * u) <= 2 * (A0 * Ray) + A,
         2 * (A0 * o) <= 2 * (A0 * b) + A0 + 2 * Wad,
         o <= b + Wad,
         2 * (Ray * z) <= 2 * (o * u) + Ray,
         b * dt <= Y * g + Y * dt,
         2 * (g * A0) <= 2 * (Ray * acc) + g + D + 2 * Ray,
         Ray + g <= V1, V1 <= Ray * v + Ray, dt <= Y * e + Y
  PROVE  2 * (dt * (A * z))
           <= Y * (2 * (Ray * acc) + RateRoundings(V1, D, A, dt, v, e))
<1>1. Ray \in Nat /\ Ray > 0 /\ Wad \in Nat /\ Wad > 0
  BY RayAssumption, UnitAssumption
\* the rate on the assets, at one moment
<1>2. 2 * (Ray * (A * z))
        <= Ray * (2 * (A0 * b) + A0 + 2 * Wad + A) + A * o
  <2>1. 2 * (Ray * (A * z)) <= 2 * (o * (A * u)) + Ray * A
    <3>1. A * (2 * (Ray * z)) <= A * (2 * (o * u) + Ray)
      BY <1>1, ProductMonotone, SMT
    <3>2. /\ A * (2 * (Ray * z)) = 2 * (Ray * (A * z))
          /\ A * (2 * (o * u) + Ray) = 2 * (o * (A * u)) + Ray * A
      BY <1>1, SMT
    <3> QED
      BY <3>1, <3>2
  <2>2. 2 * (o * (A * u)) <= Ray * (2 * (A0 * o)) + A * o
    <3>1. o * (2 * (A * u)) <= o * (2 * (A0 * Ray) + A)
      BY <1>1, ProductMonotone, SMT
    <3>2. /\ o * (2 * (A * u)) = 2 * (o * (A * u))
          /\ o * (2 * (A0 * Ray) + A) = Ray * (2 * (A0 * o)) + A * o
      BY <1>1, SMT
    <3> QED
      BY <3>1, <3>2
  <2>3. Ray * (2 * (A0 * o)) <= Ray * (2 * (A0 * b) + A0 + 2 * Wad)
    BY <1>1, ProductMonotone, SMT
  <2>4. Ray * (2 * (A0 * b) + A0 + 2 * Wad) + Ray * A
          = Ray * (2 * (A0 * b) + A0 + 2 * Wad + A)
    BY <1>1, SMT
  <2>5. /\ Ray * (A * z) \in Int /\ o * (A * u) \in Int /\ Ray * A \in Int
        /\ Ray * (2 * (A0 * o)) \in Int /\ A * o \in Int
        /\ Ray * (2 * (A0 * b) + A0 + 2 * Wad) \in Int
        /\ Ray * (2 * (A0 * b) + A0 + 2 * Wad + A) \in Int
    BY <1>1, SMT
  <2> QED
    BY <2>1, <2>2, <2>3, <2>4, <2>5, SMT
\* over the time dt, the overall rate is that of the borrow index
<1>3. dt * o <= Y * (Ray * v) + Y * dt + Ray * dt
  <2>1. dt * o <= dt * (b + Wad)
    BY <1>1, ProductMonotone, SMT
  <2>2. g <= Ray * v
    <3>1. Ray * v \in Int
      BY <1>1, SMT
    <3> QED
      BY <1>1, <3>1, SMT
  <2>3. Y * g <= Y * (Ray * v)
    BY <1>1, <2>2, ProductMonotone, SMT
  <2>4. dt * Wad <= dt * Ray
    BY <1>1, ProductMonotone, SMT
  <2>5. dt * (b + Wad) = b * dt + dt * Wad /\ dt * Ray = Ray * dt
    BY <1>1, SMT
  <2>6. /\ dt * o \in Int /\ b * dt \in Int /\ dt * Wad \in Int
        /\ Ray * dt \in Int /\ Y * g \in Int /\ Y * (Ray * v) \in Int
        /\ Y * dt \in Int
    BY <1>1, SMT
  <2> QED
    BY <2>1, <2>3, <2>4, <2>5, <2>6, SMT
<1>4. A * (dt * o) <= Ray * (Y * (A * v) + 2 * (Y * (A * dt)))
  <2>1. A * (dt * o) <= A * (Y * (Ray * v) + Y * dt + Ray * dt)
    BY <1>1, <1>3, ProductMonotone, SMT
  <2> DEFINE p == Y * (A * dt)
  <2>2. A * (Y * (Ray * v) + Y * dt + Ray * dt)
          = Ray * (Y * (A * v)) + p + Ray * (A * dt)
    BY <1>1, SMT
  <2>3. p \in Nat /\ A * dt \in Nat
    BY ProductType
  <2>4. A * dt <= p
    <3>1. (A * dt) * 1 <= (A * dt) * Y
      BY <2>3, ProductMonotone, SMT
    <3> QED
      BY <3>1, <2>3, SMT
  <2>5. p <= Ray * p
    <3>1. p * 1 <= p * Ray
      BY <1>1, <2>3, ProductMonotone, SMT
    <3> QED
      BY <3>1, <1>1, <2>3, SMT
  <2>6. Ray * (A * dt) <= Ray * p
    BY <1>1, <2>3, <2>4, ProductMonotone, SMT
  <2>7. Ray * (Y * (A * v) + 2 * p) = Ray * (Y * (A * v)) + 2 * (Ray * p)
    BY <1>1, <2>3, SMT
  <2>8. /\ A * (dt * o) \in Int /\ Ray * (Y * (A * v)) \in Int
        /\ Ray * p \in Int /\ Ray * (A * dt) \in Int
    BY <1>1, <2>3, SMT
  <2> HIDE DEF p
  <2>9. A * (dt * o) <= Ray * (Y * (A * v) + 2 * p)
    BY <2>1, <2>2, <2>3, <2>5, <2>6, <2>7, <2>8, SMT
  <2> QED
    BY <2>9 DEF p
<1>5. 2 * (dt * (A * z))
        <= dt * (2 * (A0 * b) + A0 + 2 * Wad + A)
             + Y * (A * v) + 2 * (Y * (A * dt))
  <2>1. dt * (2 * (Ray * (A * z)))
          <= dt * (Ray * (2 * (A0 * b) + A0 + 2 * Wad + A) + A * o)
    <3>1. /\ 2 * (Ray * (A * z)) \in Int
          /\ Ray * (2 * (A0 * b) + A0 + 2 * Wad + A) + A * o \in Int
      BY <1>1, SMT
    <3> QED
      BY <1>2, <3>1, ProductMonotone
  <2> DEFINE s == 2 * (A0 * b) + A0 + 2 * Wad + A
  <2>2. s \in Int
    BY <1>1, SMT
  <2>3. /\ dt * (2 * (Ray * (A * z))) = Ray * (2 * (dt * (A * z)))
        /\ dt * (Ray * s + A * o) = Ray * (dt * s) + A * (dt * o)
    <3> HIDE DEF s
    <3> QED
      BY <1>1, <2>2, SMT
  <2>4. /\ dt * s \in Int /\ Y * (A * v) + 2 * (Y * (A * dt)) \in Int
        /\ 2 * (dt * (A * z)) \in Int
    <3> HIDE DEF s
    <3> QED
      BY <1>1, <2>2, SMT
  <2>5. Ray * (2 * (dt * (A * z)))
          <= Ray * (dt * s + (Y * (A * v) + 2 * (Y * (A * dt))))
    <3>1. Ray * (dt * s + (Y * (A * v) + 2 * (Y * (A * dt))))
            = Ray * (dt * s) + Ray * (Y * (A * v) + 2 * (Y * (A * dt)))
      BY <1>1, <2>4, SMT
    <3>2. /\ Ray * (2 * (dt * (A * z))) \in Int /\ Ray * (dt * s) \in Int
          /\ Ray * (Y * (A * v) + 2 * (Y * (A * dt))) \in Int
          /\ A * (dt * o) \in Int
      BY <1>1, <2>4, SMT
    <3> HIDE DEF s
    <3> QED
      BY <2>1, <2>3, <1>4, <3>1, <3>2, SMT DEF s
  <2>6. 2 * (dt * (A * z)) <= dt * s + (Y * (A * v) + 2 * (Y * (A * dt)))
    <3>1. dt * s + (Y * (A * v) + 2 * (Y * (A * dt))) \in Int
      BY <2>4, SMT
    <3> HIDE DEF s
    <3> QED
      BY <1>1, <2>4, <2>5, <3>1, CancelFactor
  <2>7. Y * (A * v) \in Int /\ Y * (A * dt) \in Int
    BY SMT
  <2> QED
    BY <2>4, <2>6, <2>7, SMT
\* the borrowers are charged for it, the roundings aside
<1>6. dt * (2 * (A0 * b) + A0 + 2 * Wad + A)
        <= Y * (2 * (Ray * acc) + g + D + 4 * Ray + 2 * (Ray * e)
                 + 4 * (A * dt))
  <2> DEFINE p == A * dt
  <2>1. p \in Nat /\ A0 * dt \in Nat /\ Wad * dt \in Nat /\ Y * p \in Nat
    BY <1>1, ProductType
  <2>2. A0 * (b * dt) <= Y * (g * A0) + Y * (A0 * dt)
    <3>1. A0 * (b * dt) <= A0 * (Y * g + Y * dt)
      BY ProductMonotone, SMT
    <3>2. A0 * (Y * g + Y * dt) = Y * (g * A0) + Y * (A0 * dt)
      BY SMT
    <3> QED
      BY <3>1, <3>2
  <2>3. Y * (2 * (g * A0)) <= Y * (2 * (Ray * acc) + g + D + 2 * Ray)
    <3>1. 2 * (g * A0) \in Int /\ 2 * (Ray * acc) + g + D + 2 * Ray \in Int
      BY <1>1, SMT
    <3> QED
      BY <3>1, ProductMonotone
  <2>4. A0 * dt <= p
    <3>1. dt * A0 <= dt * A
      BY ProductMonotone, SMT
    <3> QED
      BY <3>1, SMT
  <2>5. Y * (A0 * dt) <= Y * p
    BY <2>1, <2>4, ProductMonotone, SMT
  <2>6. p <= Y * p
    <3>1. p * 1 <= p * Y
      BY <2>1, ProductMonotone, SMT
    <3> HIDE DEF p
    <3> QED
      BY <3>1, <2>1, SMT
  <2>7. Wad * dt <= Y * (Ray * e + Ray)
    <3>1. dt * Wad <= dt * Ray
      BY <1>1, ProductMonotone, SMT
    <3>2. Ray * dt <= Ray * (Y * e + Y)
      BY <1>1, ProductMonotone, SMT
    <3>3. /\ dt * Wad = Wad * dt /\ dt * Ray = Ray * dt
          /\ Ray * (Y * e + Y) = Y * (Ray * e + Ray)
          /\ Wad * dt \in Int /\ Ray * dt \in Int /\ Y * (Ray * e + Ray) \in Int
      BY <1>1, SMT
    <3> QED
      BY <3>1, <3>2, <3>3, SMT
  <2>8. dt * (2 * (A0 * b) + A0 + 2 * Wad + A)
          = 2 * (A0 * (b * dt)) + A0 * dt + 2 * (Wad * dt) + p
    BY <1>1, SMT
  <2>9. Y * (2 * (Ray * acc) + g + D + 4 * Ray + 2 * (Ray * e) + 4 * p)
          = Y * (2 * (Ray * acc) + g + D + 2 * Ray)
              + 2 * (Y * (Ray * e + Ray)) + 4 * (Y * p)
    <3> HIDE DEF p
    <3> QED
      BY <1>1, <2>1, SMT
  <2>10. Y * (2 * (g * A0)) = 2 * (Y * (g * A0))
    BY SMT
  <2>11. /\ A0 * (b * dt) \in Int /\ Y * (g * A0) \in Int
         /\ Y * (A0 * dt) \in Int /\ Y * (Ray * e + Ray) \in Int
         /\ Y * (2 * (Ray * acc) + g + D + 2 * Ray) \in Int
    BY <1>1, SMT
  <2> HIDE DEF p
  <2>12. dt * (2 * (A0 * b) + A0 + 2 * Wad + A)
          <= Y * (2 * (Ray * acc) + g + D + 4 * Ray + 2 * (Ray * e) + 4 * p)
    BY <2>1, <2>2, <2>3, <2>4, <2>5, <2>6, <2>7, <2>8, <2>9, <2>10, <2>11, SMT
  <2> QED
    BY <2>12 DEF p
<1> DEFINE K == RateRoundings(V1, D, A, dt, v, e)
           p == A * dt
           q == A * v
           r == Ray * e
           a == Ray * acc
<1>7. p \in Nat /\ q \in Nat /\ r \in Nat /\ a \in Nat
  BY <1>1, ProductType
<1>8. 2 * (dt * (A * z))
        <= Y * (2 * a + g + D + 4 * Ray + 2 * r + 4 * p) + Y * q + 2 * (Y * p)
  <2>1. /\ dt * (2 * (A0 * b) + A0 + 2 * Wad + A) \in Int
        /\ 2 * (dt * (A * z)) \in Int
        /\ Y * (2 * a + g + D + 4 * Ray + 2 * r + 4 * p) \in Int
        /\ Y * q \in Int /\ Y * p \in Int
    BY <1>1, <1>7, SMT
  <2> QED
    BY <1>5, <1>6, <2>1, SMT
<1>9. K = V1 + D + 3 * Ray + 2 * r + 6 * p + q
  BY DEF RateRoundings
<1> HIDE DEF K, p, q, r, a
<1>10. Y * (2 * a + g + D + 4 * Ray + 2 * r + 4 * p) + Y * q + 2 * (Y * p)
         = Y * (2 * a + g + D + 4 * Ray + 2 * r + 6 * p + q)
  BY <1>1, <1>7, SMT
<1>11. Y * (2 * a + g + D + 4 * Ray + 2 * r + 6 * p + q) <= Y * (2 * a + K)
  <2>1. /\ 2 * a + g + D + 4 * Ray + 2 * r + 6 * p + q \in Int
        /\ 2 * a + K \in Int
        /\ 2 * a + g + D + 4 * Ray + 2 * r + 6 * p + q <= 2 * a + K
    BY <1>1, <1>7, <1>9, SMT
  <2> QED
    BY <2>1, ProductMonotone
<1>12. 2 * (dt * (A * z)) <= Y * (2 * a + K)
  <2>1. K \in Int
    BY <1>1, <1>7, <1>9, SMT
  <2>2. /\ Y * (2 * a + g + D + 4 * Ray + 2 * r + 6 * p + q) \in Int
        /\ Y * (2 * a + K) \in Int /\ 2 * (dt * (A * z)) \in Int
    BY <1>1, <1>7, <2>1, SMT
  <2> QED
    BY <1>8, <1>10, <1>11, <2>2, SMT
<1> QED
  BY <1>12 DEF K, a

(***************************************************************************)
(* Depositors and treasury share what the borrowers are charged: the       *)
(* depositors get the share q of the rate z, the treasury the share f of   *)
(* the interest, and the two shares are at most the whole.                 *)
(***************************************************************************)
LEMMA InterestShared ==
  ASSUME NEW A \in Nat, NEW z \in Nat, NEW l \in Nat, NEW i \in Nat,
         NEW q \in Nat, NEW f \in Nat, q + f <= PercentFactor,
         NEW dt \in Nat, NEW Y \in Nat, Y > 0, NEW acc \in Nat, NEW K \in Nat,
         NEW T \in Nat,
         2 * (PercentFactor * l) <= 2 * (z * q) + PercentFactor,
         Y * i <= l * dt,
         2 * (dt * (A * z)) <= Y * (2 * (Ray * acc) + K),
         2 * (PercentFactor * T) <= 2 * (acc * f) + PercentFactor
  PROVE  2 * (i * A) + 2 * (Ray * T) <= 2 * (Ray * acc) + K + A * dt + Ray
<1> DEFINE P == PercentFactor
           a == Ray * acc
           p == A * dt
<1>1. Ray \in Nat /\ Ray > 0 /\ P \in Nat /\ P > 0
  BY RayAssumption, UnitAssumption
<1>2. a \in Nat /\ p \in Nat
  BY <1>1, ProductType
<1>3. 2 * (P * (l * p)) <= Y * (q * (2 * a + K)) + P * p
  <2>1. p * (2 * (P * l)) <= p * (2 * (z * q) + P)
    BY <1>1, <1>2, ProductMonotone, SMT
  <2>2. p * (2 * (P * l)) = 2 * (P * (l * p))
    BY <1>1, <1>2, SMT
  <2>3. p * (2 * (z * q) + P) = q * (2 * (dt * (A * z))) + P * p
    BY <1>1, SMT
  <2>4. q * (2 * (dt * (A * z))) <= q * (Y * (2 * a + K))
    BY <1>1, ProductMonotone, SMT
  <2>5. q * (Y * (2 * a + K)) = Y * (q * (2 * a + K))
    BY <1>2, SMT
  <2>6. /\ P * (l * p) \in Int /\ q * (2 * (dt * (A * z))) \in Int
        /\ P * p \in Int /\ Y * (q * (2 * a + K)) \in Int
    BY <1>1, <1>2, SMT
  <2> HIDE DEF P, a, p
  <2> QED
    BY <2>1, <2>2, <2>3, <2>4, <2>5, <2>6, SMT
<1>4. Y * (2 * (P * (i * A))) <= Y * (q * (2 * a + K) + P * p)
  <2>1. (P * A) * (Y * i) <= (P * A) * (l * dt)
    <3>1. P * A \in Nat /\ Y * i \in Int /\ l * dt \in Int
      BY <1>1, ProductType, SMT
    <3> QED
      BY <3>1, ProductMonotone
  <2>2. /\ (P * A) * (Y * i) = Y * (P * (i * A))
        /\ (P * A) * (l * dt) = P * (l * p)
    BY <1>1, SMT
  <2>3. P * p <= Y * (P * p)
    <3>1. P * p \in Nat
      BY <1>1, <1>2, ProductType
    <3>2. (P * p) * 1 <= (P * p) * Y
      BY <3>1, ProductMonotone, SMT
    <3> HIDE DEF P, p
    <3> QED
      BY <3>1, <3>2, SMT
  <2>4. /\ Y * (2 * (P * (i * A))) = 2 * (Y * (P * (i * A)))
        /\ Y * (q * (2 * a + K) + P * p) = Y * (q * (2 * a + K)) + Y * (P * p)
    BY <1>1, <1>2, SMT
  <2>5. /\ Y * (P * (i * A)) \in Int /\ P * (l * p) \in Int
        /\ Y * (q * (2 * a + K)) \in Int /\ Y * (P * p) \in Int
        /\ P * p \in Int
    BY <1>1, <1>2, SMT
  <2> HIDE DEF P, a, p
  <2> QED
    BY <1>3, <2>1, <2>2, <2>3, <2>4, <2>5, SMT
<1>5. 2 * (P * (i * A)) <= q * (2 * a + K) + P * p
  <2>1. 2 * (P * (i * A)) \in Int /\ q * (2 * a + K) + P * p \in Int
    BY <1>1, <1>2, SMT
  <2> QED
    BY <1>4, <2>1, CancelFactor
<1>6. 2 * (P * (Ray * T)) <= f * (2 * a) + P * Ray
  <2>1. Ray * (2 * (P * T)) <= Ray * (2 * (acc * f) + P)
    BY <1>1, ProductMonotone, SMT
  <2>2. /\ Ray * (2 * (P * T)) = 2 * (P * (Ray * T))
        /\ Ray * (2 * (acc * f) + P) = f * (2 * a) + P * Ray
    BY <1>1, SMT
  <2> QED
    BY <2>1, <2>2
<1>7. q * (2 * a + K) + f * (2 * a) <= P * (2 * a + K)
  <2>1. (2 * a) * (q + f) <= (2 * a) * P
    BY <1>1, <1>2, ProductMonotone, SMT
  <2>2. K * q <= K * P
    BY <1>1, ProductMonotone, SMT
  <2>3. /\ q * (2 * a + K) + f * (2 * a) = (2 * a) * (q + f) + K * q
        /\ P * (2 * a + K) = (2 * a) * P + K * P
    BY <1>1, <1>2, SMT
  <2>4. /\ (2 * a) * (q + f) \in Int /\ (2 * a) * P \in Int
        /\ K * q \in Int /\ K * P \in Int
    BY <1>1, <1>2, SMT
  <2> HIDE DEF P, a
  <2> QED
    BY <2>1, <2>2, <2>3, <2>4, SMT
<1>8. P * (2 * (i * A) + 2 * (Ray * T)) <= P * (2 * a + K + p + Ray)
  <2>1. /\ P * (2 * (i * A) + 2 * (Ray * T))
              = 2 * (P * (i * A)) + 2 * (P * (Ray * T))
        /\ P * (2 * a + K + p + Ray) = P * (2 * a + K) + P * p + P * Ray
    BY <1>1, <1>2, SMT
  <2>2. /\ P * (i * A) \in Int /\ P * (Ray * T) \in Int
        /\ q * (2 * a + K) \in Int /\ f * (2 * a) \in Int
        /\ P * (2 * a + K) \in Int /\ P * p \in Int /\ P * Ray \in Int
    BY <1>1, <1>2, SMT
  <2> HIDE DEF P, a, p
  <2> QED
    BY <1>5, <1>6, <1>7, <2>1, <2>2, SMT
<1>9. 2 * (i * A) + 2 * (Ray * T) <= 2 * a + K + p + Ray
  <2>1. 2 * (i * A) + 2 * (Ray * T) \in Int /\ 2 * a + K + p + Ray \in Int
    BY <1>1, <1>2, SMT
  <2> QED
    BY <1>1, <1>8, <2>1, CancelFactor
<1> QED
  BY <1>9

(***************************************************************************)
(* The liquidity rate is that of the assets and the debt between two       *)
(* transactions, with a reserve factor that may have been lowered since.   *)
(***************************************************************************)
RatesShared ==
  \/ currentLiquidityRate = 0
  \/ \E factor \in Nat :
       /\ reserveFactor <= factor /\ factor <= PercentFactor
       /\ currentLiquidityRate =
            LiquidityRateWith(factor, Debt, currentVariableBorrowRate,
                              UtilizationRate(cash, Debt))

(* A factor that is only lowered keeps the rate one that the shares allow. *)
LEMMA RatesSharedStay ==
  ASSUME TypeOK, RatesShared, [Next]_vars, reserveFactor' <= reserveFactor,
         TypeOK'
  PROVE  RatesShared'
<1>1. reserveFactor \in Nat /\ reserveFactor' \in Nat
  BY ReserveInputAssumption DEF TypeOK
<1>2. CASE RatesSet
  BY <1>1, <1>2 DEF RatesSet, RatesShared, LiquidityRateWith, LiquidityRate, Debt
<1>3. CASE UNCHANGED <<indexVars, rateVars, debtVars, cash>>
  <2>1. /\ UNCHANGED currentLiquidityRate
        /\ UNCHANGED LiquidityRateWith(0, Debt, currentVariableBorrowRate,
                                       UtilizationRate(cash, Debt))
        /\ UNCHANGED <<currentVariableBorrowRate, Debt, cash>>
    BY <1>3 DEF indexVars, rateVars, debtVars, Debt
  <2>2. CASE currentLiquidityRate = 0
    BY <2>1, <2>2 DEF RatesShared
  <2>3. CASE currentLiquidityRate # 0
    <3>1. PICK factor \in Nat :
            /\ reserveFactor <= factor /\ factor <= PercentFactor
            /\ currentLiquidityRate =
                 LiquidityRateWith(factor, Debt, currentVariableBorrowRate,
                                   UtilizationRate(cash, Debt))
      BY <2>3 DEF RatesShared
    <3>2. reserveFactor' <= factor
      BY <1>1, <3>1, SMT
    <3>3. currentLiquidityRate' =
            LiquidityRateWith(factor, Debt', currentVariableBorrowRate',
                              UtilizationRate(cash', Debt'))
      BY <2>1, <3>1
    <3> QED
      BY <3>1, <3>2, <3>3 DEF RatesShared, LiquidityRateWith, UtilizationRate,
         OverallBorrowRate
  <2> QED
    BY <2>2, <2>3
<1> QED
  BY <1>2, <1>3, PoolSetsRates, OtherSteps DEF Next

\* The quantities of one accrual
Elapsed == now - lastUpdateTimestamp
Charged == RayMul(debtSupply, AccruedBorrowIndex) - Debt
TreasuryAmount == PercentMul(Charged, reserveFactor)
Credited == LinearInterest(currentLiquidityRate) - Ray

\* What the roundings of the rates can add to the interest, see Roundings
InterestRoundings ==
  RateRoundings(AccruedBorrowIndex, debtSupply, Assets, Elapsed,
                AccruedBorrowIndex \div Ray, Elapsed \div SecondsPerYear)

(* They are natural numbers, and the interest credited is simple interest. *)
LEMMA AccrualTypes ==
  ASSUME TypeOK
  PROVE  /\ Elapsed \in Nat /\ Debt \in Nat /\ Charged \in Nat
         /\ Credited \in Nat
         /\ SecondsPerYear * Credited <= currentLiquidityRate * Elapsed
         /\ Assets \in Nat /\ Assets = cash + Debt /\ Debt <= Assets
         /\ InterestRoundings \in Nat
         /\ AccruedBorrowIndex \div Ray \in Nat
         /\ AccruedBorrowIndex <= Ray * (AccruedBorrowIndex \div Ray) + Ray
         /\ Elapsed \div SecondsPerYear \in Nat
         /\ Elapsed <= SecondsPerYear * (Elapsed \div SecondsPerYear)
                         + SecondsPerYear
<1>1. /\ debtSupply \in Nat /\ variableBorrowIndex \in Nat /\ cash \in Nat
      /\ currentLiquidityRate \in Nat
  BY DEF TypeOK
<1>2. Elapsed \in Nat
  BY SMT DEF TypeOK, Elapsed
<1>3. Debt \in Nat
  BY <1>1, RayMulType DEF Debt
<1>4. Assets \in Nat /\ Assets = cash + Debt /\ Debt <= Assets
  <2>1. Assets = cash + Debt
    BY DEF Assets, Debt
  <2> QED
    BY <1>1, <1>3, <2>1, SMT
<1>5. Charged \in Nat
  <2>1. /\ RayMul(debtSupply, AccruedBorrowIndex) \in Nat
        /\ Debt <= RayMul(debtSupply, AccruedBorrowIndex)
    BY <1>1, AccruedIndexes, RayMulMonotone, RayMulType DEF Debt
  <2> QED
    BY <1>3, <2>1, SMT DEF Charged
<1>6. Credited \in Nat /\ SecondsPerYear * Credited <= currentLiquidityRate * Elapsed
  <2> DEFINE a == currentLiquidityRate * Elapsed
             c == a \div SecondsPerYear
  <2>1. a \in Nat
    BY <1>1, <1>2, ProductType
  <2>2. LinearInterest(currentLiquidityRate) = c + Ray
    BY DEF LinearInterest, Elapsed
  <2> HIDE DEF a
  <2>3. c \in Nat /\ SecondsPerYear * c <= a
    BY <2>1, ReserveUnits, DivBounds
  <2> HIDE DEF c
  <2>4. Credited = c
    BY <2>2, <2>3, ReserveUnits, SMT DEF Credited
  <2> QED
    BY <2>3, <2>4 DEF a
<1>7. /\ AccruedBorrowIndex \in Nat
      /\ AccruedBorrowIndex \div Ray \in Nat
      /\ AccruedBorrowIndex < Ray * (AccruedBorrowIndex \div Ray) + Ray
      /\ Elapsed \div SecondsPerYear \in Nat
      /\ Elapsed < SecondsPerYear * (Elapsed \div SecondsPerYear)
                         + SecondsPerYear
  BY <1>2, AccruedIndexes, ReserveUnits, DivBounds
<1>8. /\ AccruedBorrowIndex <= Ray * (AccruedBorrowIndex \div Ray) + Ray
      /\ Elapsed <= SecondsPerYear * (Elapsed \div SecondsPerYear)
                         + SecondsPerYear
  BY <1>2, <1>7, ReserveUnits, SMT
<1>9. InterestRoundings \in Nat
  <2>1. /\ Ray * (Elapsed \div SecondsPerYear) \in Nat
        /\ Assets * Elapsed \in Nat
        /\ Assets * (AccruedBorrowIndex \div Ray) \in Nat
    BY <1>2, <1>4, <1>7, ReserveUnits, ProductType
  <2> QED
    BY <1>1, <1>7, <2>1, ReserveUnits, SMT DEF InterestRoundings, RateRoundings
<1> QED
  BY <1>2, <1>3, <1>4, <1>5, <1>6, <1>7, <1>8, <1>9

(* No interest, no share of it. *)
LEMMA NothingEarned ==
  ASSUME NEW q \in Nat
  PROVE  PercentMul(0, q) = 0
<1>1. /\ 0 * q = 0 /\ PercentFactor \in Nat /\ PercentFactor > 0
      /\ PercentFactor \div 2 \in Nat /\ PercentFactor \div 2 < PercentFactor
      /\ PercentFactor * 0 = 0
  BY UnitAssumption, SMT
<1>2. (PercentFactor \div 2) \div PercentFactor = 0
  BY <1>1, DivUnique, SMT
<1> QED
  BY <1>1, <1>2, SMT DEF PercentMul, RoundedDiv

\* With a rate, somebody owes something, and the borrow index has grown by at
\* least the simple interest.
LEMMA BorrowersCharged ==
  ASSUME TypeOK, RatesShared, currentLiquidityRate # 0
  PROVE  LET g == (currentVariableBorrowRate \div SecondsPerYear) * Elapsed
         IN  /\ Debt > 0 /\ debtSupply # 0
             /\ g \in Nat
             /\ Ray + g <= AccruedBorrowIndex
             /\ 2 * (g * Debt) <= 2 * (Ray * Charged) + g + debtSupply + 2 * Ray
<1> DEFINE b == currentVariableBorrowRate
           g == (b \div SecondsPerYear) * Elapsed
           c == CompoundedInterest(b)
           V == variableBorrowIndex
           V1 == AccruedBorrowIndex
           D == debtSupply
           A1 == RayMul(D, V1)
<1>1. /\ b \in Nat /\ V \in Nat /\ V >= Ray /\ D \in Nat /\ cash \in Nat
      /\ currentLiquidityRate \in Nat
  BY DEF TypeOK
<1>2. Debt \in Nat /\ Charged \in Nat /\ V1 \in Nat
  BY AccrualTypes, AccruedIndexes
<1>3. Debt # 0
  <2> SUFFICES ASSUME Debt = 0 PROVE FALSE
    OBVIOUS
  <2>1. PICK factor \in Nat :
          /\ factor <= PercentFactor
          /\ currentLiquidityRate =
               LiquidityRateWith(factor, Debt, b, UtilizationRate(cash, Debt))
    BY Zenon DEF RatesShared
  <2>2. OverallBorrowRate(Debt, b) = 0 /\ UtilizationRate(cash, Debt) = 0
    BY DEF OverallBorrowRate, UtilizationRate
  <2>3. RayMul(0, 0) = 0
    BY RayMulZero
  <2>4. PercentFactor - factor \in Nat
    BY <2>1, ReserveUnits, SMT
  <2>5. PercentMul(0, PercentFactor - factor) = 0
    BY <2>4, NothingEarned
  <2> QED
    BY <2>1, <2>2, <2>3, <2>5, Zenon DEF LiquidityRateWith
<1>4. D # 0
  BY <1>1, <1>3, RayMulZero DEF Debt
<1>5. c \in Nat /\ g \in Nat /\ Ray + g <= c
  BY <1>1, CompoundedInterestBound, ReserveUnits, SMT DEF Elapsed
<1>6. V1 = RayMul(c, V)
  BY <1>1, <1>4, SMT DEF AccruedBorrowIndex
<1> HIDE DEF b, g, c, V, V1, D
<1>7. Ray + g <= V1
  <2>1. RayMul(c, Ray) <= RayMul(c, V)
    BY <1>1, <1>5, RayMulMonotone, ReserveUnits
  <2>2. RayMul(Ray, c) = c /\ c * Ray = Ray * c
    BY <1>5, RayMulOne, ReserveUnits, SMT
  <2>3. RayMul(c, Ray) = c
    BY <2>2 DEF RayMul
  <2> QED
    BY <1>2, <1>5, <1>6, <2>1, <2>3, ReserveUnits, SMT
<1>8. /\ A1 \in Nat
      /\ 2 * (c * V) <= 2 * (Ray * V1) + Ray
      /\ 2 * (Ray * Debt) <= 2 * (D * V) + Ray
      /\ 2 * (D * V1) <= 2 * (Ray * A1) + Ray
  BY <1>1, <1>2, <1>5, <1>6, RayMulOf DEF Debt, D, V
<1>9. 2 * (g * Debt) + 2 * (Ray * Debt) <= 2 * (Ray * A1) + g + D + 2 * Ray
  <2>1. Debt > 0
    BY <1>2, <1>3, SMT
  <2> HIDE DEF A1
  <2> QED
    BY <1>1, <1>2, <1>5, <1>8, <2>1, InterestCharged
<1>10. 2 * (g * Debt) <= 2 * (Ray * Charged) + g + D + 2 * Ray
  <2>1. A1 = Debt + Charged
    BY <1>2, <1>8, SMT DEF Charged, D, V1
  <2> HIDE DEF A1
  <2>2. Ray * A1 = Ray * Debt + Ray * Charged
    BY <1>2, <2>1, ReserveUnits, SMT
  <2>3. Ray * Debt \in Int /\ Ray * Charged \in Int /\ g * Debt \in Int
    BY <1>2, <1>5, ReserveUnits, SMT
  <2> QED
    BY <1>1, <1>5, <1>9, <2>2, <2>3, ReserveUnits, SMT
<1>11. Debt > 0 /\ D # 0 /\ g \in Nat
  BY <1>2, <1>3, <1>4, <1>5, SMT
<1> QED
  BY <1>7, <1>10, <1>11 DEF g, b, V1, D

(***************************************************************************)
(* One accrual: what it credits to the depositors on the reserve's assets  *)
(* and to the treasury is what it charges the borrowers, roundings aside.  *)
(***************************************************************************)
LEMMA AccrualBacked ==
  ASSUME TypeOK, RatesShared, reserveFactor <= PercentFactor
  PROVE  2 * (Credited * Assets) + 2 * (Ray * TreasuryAmount)
           <= 2 * (Ray * Charged) + InterestRoundings + Assets * Elapsed + Ray
<1>1. /\ reserveFactor \in Nat /\ cash \in Nat /\ debtSupply \in Nat
      /\ currentLiquidityRate \in Nat /\ currentVariableBorrowRate \in Nat
  BY ReserveInputAssumption DEF TypeOK
<1>2. /\ Elapsed \in Nat /\ Debt \in Nat /\ Charged \in Nat
      /\ Credited \in Nat
      /\ SecondsPerYear * Credited <= currentLiquidityRate * Elapsed
      /\ Assets \in Nat /\ Debt <= Assets /\ Assets = cash + Debt
      /\ InterestRoundings \in Nat
  BY AccrualTypes
<1>3. /\ TreasuryAmount \in Nat
      /\ 2 * (PercentFactor * TreasuryAmount)
           <= 2 * (Charged * reserveFactor) + PercentFactor
  BY <1>1, <1>2, PercentMulOf DEF TreasuryAmount
<1>4. CASE currentLiquidityRate = 0
  <2>1. /\ 2 * (PercentFactor * 0) <= 2 * (0 * 0) + PercentFactor
        /\ SecondsPerYear * Credited <= 0 * Elapsed
        /\ 0 + reserveFactor <= PercentFactor
    BY <1>1, <1>2, <1>4, ReserveUnits, SMT
  <2>2. 2 * (Elapsed * (Assets * 0))
          <= SecondsPerYear * (2 * (Ray * Charged) + InterestRoundings)
    <3>1. Ray * Charged \in Nat
      BY <1>2, ReserveUnits, ProductType
    <3>2. 2 * (Ray * Charged) + InterestRoundings \in Nat
      BY <1>2, <3>1, SMT
    <3>3. SecondsPerYear * (2 * (Ray * Charged) + InterestRoundings) \in Nat
      BY <3>2, ReserveUnits, ProductType
    <3>4. 2 * (Elapsed * (Assets * 0)) = 0
      BY <1>2, SMT
    <3> QED
      BY <3>3, <3>4, SMT
  <2> QED
    BY <1>1, <1>2, <1>3, <2>1, <2>2, 0 \in Nat, ReserveUnits, InterestShared
<1>5. CASE currentLiquidityRate # 0
  <2> DEFINE b == currentVariableBorrowRate
             g == (b \div SecondsPerYear) * Elapsed
             k == Ray \div Wad
             x == RayMul(Debt * k, b)
             o == OverallBorrowRate(Debt, b)
             u == UtilizationRate(cash, Debt)
             z == RayMul(o, u)
             v == AccruedBorrowIndex \div Ray
             e == Elapsed \div SecondsPerYear
  <2>1. PICK factor \in Nat :
          /\ reserveFactor <= factor /\ factor <= PercentFactor
          /\ currentLiquidityRate = LiquidityRateWith(factor, Debt, b, u)
    BY <1>5, Zenon DEF RatesShared
  <2>2. /\ Debt > 0 /\ debtSupply # 0
        /\ g \in Nat
        /\ Ray + g <= AccruedBorrowIndex
        /\ 2 * (g * Debt) <= 2 * (Ray * Charged) + g + debtSupply + 2 * Ray
    BY <1>5, BorrowersCharged
  <2>3. /\ k \in Nat /\ k > 0 /\ Ray <= 2 * (Wad * k)
    <3>1. k \in Nat /\ Wad * k <= Ray /\ Ray < Wad * k + Wad
      BY ReserveUnits, DivBounds
    <3> HIDE DEF k
    <3>2. k # 0
      <4> SUFFICES ASSUME k = 0 PROVE FALSE
        OBVIOUS
      <4>1. Wad * k = 0
        BY ReserveUnits, SMT
      <4> QED
        BY <3>1, <4>1, ReserveUnits, SMT
    <3>3. Wad * 1 <= Wad * k
      BY <3>1, <3>2, ProductMonotone, ReserveUnits, SMT
    <3>4. Wad * k \in Nat
      BY <3>1, ReserveUnits, ProductType
    <3> QED
      BY <3>1, <3>2, <3>3, <3>4, ReserveUnits, SMT
  <2>4. /\ o \in Nat
        /\ 2 * (Debt * o) <= 2 * (Debt * b) + Debt + 2 * Wad
        /\ o <= b + Wad
    <3>1. Debt * k \in Nat
      BY <1>2, <2>3, ProductType
    <3>2. Debt * k > 0
      <4>1. k * 1 <= k * Debt
        BY <1>2, <2>2, <2>3, ProductMonotone, SMT
      <4>2. k * Debt = Debt * k
        BY <1>2, <2>3, SMT
      <4> HIDE DEF k
      <4> QED
        BY <2>3, <3>1, <4>1, <4>2, SMT
    <3>3. o = RayDiv(x, Debt * k)
      BY <2>2 DEF OverallBorrowRate, WadToRay
    <3>4. /\ x \in Nat
          /\ 2 * (Ray * x) <= 2 * ((Debt * k) * b) + Ray
      BY <1>1, <3>1, RayMulOf
    <3> HIDE DEF x
    <3>5. /\ o \in Nat
          /\ 2 * ((Debt * k) * o) <= 2 * (x * Ray) + Debt * k
      BY <3>1, <3>2, <3>3, <3>4, RayDivOf
    <3> HIDE DEF o, k, b
    <3> QED
      BY <1>1, <1>2, <2>2, <2>3, <3>4, <3>5, OverallRateBelow DEF b
  <2>5. /\ u \in Nat
        /\ 2 * (Assets * u) <= 2 * (Debt * Ray) + Assets
    <3>1. Assets > 0
      BY <1>1, <1>2, <2>2, SMT
    <3>2. u = RayDiv(Debt, Assets)
      BY <1>2, <2>2, SMT DEF UtilizationRate
    <3> QED
      BY <1>2, <3>1, <3>2, RayDivOf
  <2>6. /\ z \in Nat
        /\ 2 * (Ray * z) <= 2 * (o * u) + Ray
    BY <2>4, <2>5, RayMulOf
  <2>7. b * Elapsed <= SecondsPerYear * g + SecondsPerYear * Elapsed
    <3> DEFINE p == b \div SecondsPerYear
    <3>1. p \in Nat /\ b < SecondsPerYear * p + SecondsPerYear
      BY <1>1, ReserveUnits, DivBounds
    <3>2. g = p * Elapsed
      OBVIOUS
    <3> HIDE DEF p, g, b
    <3>3. Elapsed * b <= Elapsed * (SecondsPerYear * p + SecondsPerYear)
      BY <1>1, <1>2, <3>1, ProductMonotone, ReserveUnits, SMT DEF b
    <3>4. /\ Elapsed * b = b * Elapsed
          /\ Elapsed * (SecondsPerYear * p + SecondsPerYear)
               = SecondsPerYear * (p * Elapsed) + SecondsPerYear * Elapsed
      BY <1>1, <1>2, <3>1, ReserveUnits, SMT DEF b
    <3> QED
      BY <3>2, <3>3, <3>4
  <2>8. /\ AccruedBorrowIndex \in Nat /\ v \in Nat /\ e \in Nat
        /\ AccruedBorrowIndex <= Ray * v + Ray
        /\ Elapsed <= SecondsPerYear * e + SecondsPerYear
    BY AccrualTypes, AccruedIndexes
  <2>9. InterestRoundings =
          RateRoundings(AccruedBorrowIndex, debtSupply, Assets, Elapsed, v, e)
    BY DEF InterestRoundings
  <2>10. PercentFactor - factor \in Nat
         /\ (PercentFactor - factor) + reserveFactor <= PercentFactor
    BY <1>1, <2>1, ReserveUnits, SMT
  <2>11. 2 * (PercentFactor * currentLiquidityRate)
           <= 2 * (z * (PercentFactor - factor)) + PercentFactor
    BY <2>1, <2>6, <2>10, PercentMulOf DEF LiquidityRateWith
  <2> HIDE DEF b, g, k, x, o, u, z, v, e
  <2>12. 2 * (Elapsed * (Assets * z))
           <= SecondsPerYear * (2 * (Ray * Charged) + InterestRoundings)
    BY <1>1, <1>2, <2>2, <2>4, <2>5, <2>6, <2>7, <2>8, <2>9, ReserveUnits,
       InterestCredited DEF b
  <2> QED
    BY <1>1, <1>2, <1>3, <2>6, <2>10, <2>11, <2>12, ReserveUnits, InterestShared
<1> QED
  BY <1>4, <1>5

\* Whether anything is credited or not, the liquidity index is multiplied.
LEMMA IndexCredited ==
  ASSUME TypeOK
  PROVE  /\ AccruedLiquidityIndex \in Nat
         /\ 2 * (Ray * AccruedLiquidityIndex)
              <= 2 * ((Ray + Credited) * liquidityIndex) + Ray
         /\ Ray + Credited <= AccruedLiquidityIndex
<1> DEFINE h == Ray + Credited
<1>1. /\ liquidityIndex \in Nat /\ liquidityIndex >= Ray
      /\ currentLiquidityRate \in Nat
      /\ Credited \in Nat /\ h \in Nat
      /\ Elapsed \in Nat
      /\ SecondsPerYear * Credited <= currentLiquidityRate * Elapsed
  BY AccrualTypes, ReserveUnits, SMT DEF TypeOK
<1>2. AccruedLiquidityIndex = RayMul(h, liquidityIndex)
  <2>1. CASE currentLiquidityRate > 0
    <3>1. LinearInterest(currentLiquidityRate) = h
      <4>1. LinearInterest(currentLiquidityRate) \in Nat
        BY <1>1, LinearInterestBound
      <4> QED
        BY <4>1, ReserveUnits, SMT DEF Credited
    <3> QED
      BY <2>1, <3>1 DEF AccruedLiquidityIndex
  <2>2. CASE ~(currentLiquidityRate > 0)
    <3>1. currentLiquidityRate * Elapsed = 0
      <4>1. currentLiquidityRate = 0
        BY <1>1, <2>2, SMT
      <4> QED
        BY <1>1, <4>1, SMT
    <3>2. Credited = 0
      <4> SUFFICES ASSUME Credited > 0 PROVE FALSE
        BY <1>1, SMT
      <4>1. SecondsPerYear * 1 <= SecondsPerYear * Credited
        BY <1>1, ProductMonotone, ReserveUnits, SMT
      <4> QED
        BY <1>1, <3>1, <4>1, ReserveUnits, SMT
    <3>3. h = Ray
      BY <3>2, ReserveUnits, SMT
    <3> QED
      BY <1>1, <2>2, <3>3, RayMulOne DEF AccruedLiquidityIndex
  <2> QED
    BY <2>1, <2>2
<1> HIDE DEF h
<1>3. h <= AccruedLiquidityIndex
  <2>1. RayMul(h, Ray) <= RayMul(h, liquidityIndex)
    BY <1>1, RayMulMonotone, ReserveUnits
  <2>2. RayMul(Ray, h) = h /\ h * Ray = Ray * h
    BY <1>1, RayMulOne, ReserveUnits, SMT
  <2>3. RayMul(h, Ray) = h
    BY <2>2 DEF RayMul
  <2> QED
    BY <1>2, <2>1, <2>3
<1>4. /\ AccruedLiquidityIndex \in Nat
      /\ 2 * (Ray * AccruedLiquidityIndex) <= 2 * (h * liquidityIndex) + Ray
  BY <1>1, <1>2, RayMulOf
<1> QED
  BY <1>3, <1>4 DEF h

\* The statement of NoUnbackedClaims about one step
ClaimsBacked ==
  Ray * (Claims - Assets)' <= Ray * (Claims - Assets) + InterestOnUnbacked + Roundings

\* What is credited on all the claims, in terms of the assets
LEMMA CreditOnClaims ==
  ASSUME TypeOK
  PROVE  /\ Claims \in Nat /\ InterestOnUnbacked \in Nat
         /\ Credited * Claims <= Credited * Assets + InterestOnUnbacked
<1>1. Claims \in Nat /\ Assets \in Nat /\ Credited \in Nat
  BY AccrualTypes, RayMulType DEF TypeOK, Claims
<1>2. InterestOnUnbacked =
        (IF Claims > Assets THEN Claims - Assets ELSE 0) * Credited
  BY DEF InterestOnUnbacked, Credited
<1> HIDE DEF Claims, Assets, Credited, InterestOnUnbacked
<1>3. CASE Claims > Assets
  <2>1. Claims - Assets \in Nat /\ InterestOnUnbacked = (Claims - Assets) * Credited
    BY <1>1, <1>2, <1>3, SMT
  <2>2. InterestOnUnbacked \in Nat
    BY <1>1, <2>1, ProductType
  <2>3. Credited * Claims = Credited * Assets + (Claims - Assets) * Credited
    BY <1>1, SMT
  <2>4. Credited * Claims \in Nat
    BY <1>1, ProductType
  <2> QED
    BY <1>1, <2>1, <2>2, <2>3, <2>4, SMT
<1>4. CASE ~(Claims > Assets)
  <2>1. InterestOnUnbacked = 0
    <3>1. 0 * Credited = 0
      BY <1>1, SMT
    <3> QED
      BY <1>2, <1>4, <3>1
  <2>2. Credited * Claims <= Credited * Assets
    BY <1>1, <1>4, ProductMonotone, SMT
  <2>3. Credited * Claims \in Nat /\ Credited * Assets \in Nat
    BY <1>1, ProductType
  <2> QED
    BY <1>1, <2>1, <2>2, <2>3, SMT
<1> QED
  BY <1>3, <1>4

(***************************************************************************)
(* A transaction that accrues, mints d scaled bTokens for m (or burns), e  *)
(* scaled debt tokens for n, and moves m in and n out.                     *)
(***************************************************************************)
LEMMA TransactionBacked ==
  ASSUME TypeOK, TypeOK', RatesShared, reserveFactor <= PercentFactor,
         UpdateIndexes,
         NEW d \in Int, NEW e \in Int, NEW m \in Int, NEW n \in Int,
         bTokenSupply' = bTokenSupply + TreasuryShare + d,
         debtSupply' = debtSupply + e,
         cash' = cash + m - n,
         2 * (AccruedLiquidityIndex * d) <= 2 * (m * Ray) + AccruedLiquidityIndex,
         2 * (n * Ray) <= 2 * (AccruedBorrowIndex * e) + AccruedBorrowIndex
  PROVE  ClaimsBacked
<1> DEFINE i == Credited
           T == TreasuryAmount
           L1 == AccruedLiquidityIndex
           V1 == AccruedBorrowIndex
           A1 == RayMul(debtSupply, V1)
           C1 == RayMul(bTokenSupply', L1)
           B1 == RayMul(debtSupply', V1)
           dt == Elapsed
           v == V1 \div Ray
           y == dt \div SecondsPerYear
<1>1. /\ bTokenSupply \in Nat /\ liquidityIndex \in Nat
      /\ debtSupply \in Nat /\ variableBorrowIndex \in Nat /\ cash \in Nat
      /\ reserveFactor \in Nat
      /\ bTokenSupply' \in Nat /\ debtSupply' \in Nat /\ cash' \in Nat
  BY ReserveInputAssumption DEF TypeOK
<1>2. /\ liquidityIndex' = L1 /\ variableBorrowIndex' = V1
      /\ L1 \in Nat /\ V1 \in Nat /\ L1 > 0
  BY <1>1, AccruedIndexes, ReserveUnits, SMT DEF UpdateIndexes
<1>3. /\ dt \in Nat /\ Debt \in Nat /\ Charged \in Nat /\ i \in Nat
      /\ Assets \in Nat /\ Assets = cash + Debt
      /\ InterestRoundings \in Nat /\ v \in Nat /\ y \in Nat
      /\ Claims \in Nat /\ InterestOnUnbacked \in Nat
      /\ i * Claims <= i * Assets + InterestOnUnbacked
  BY AccrualTypes, CreditOnClaims
<1>4. Claims' = C1 /\ Assets' = cash + m - n + B1
  BY <1>2 DEF Claims, Assets
<1>5. T \in Nat
  BY <1>1, <1>3, PercentMulOf DEF TreasuryAmount
<1>6. 2 * (Ray * C1) <=
        2 * (Ray * Claims) + 2 * (i * Claims) + 2 * (Ray * T) + 2 * (Ray * m)
          + bTokenSupply + 3 * L1 + Ray
  <2>1. /\ TreasuryShare \in Nat
        /\ 2 * (L1 * TreasuryShare) <= 2 * (T * Ray) + L1
    <3>1. TreasuryShare = RayDiv(T, L1)
      BY DEF TreasuryShare, TreasuryAmount, Charged, Debt
    <3> QED
      BY <1>2, <1>5, <3>1, RayDivOf
  <2>2. /\ C1 \in Nat
        /\ 2 * (Ray * C1) <= 2 * ((bTokenSupply + TreasuryShare + d) * L1) + Ray
    BY <1>1, <1>2, RayMulOf
  <2>3. 2 * (bTokenSupply * liquidityIndex) <= 2 * (Ray * Claims) + Ray
    BY <1>1, RayMulOf DEF Claims
  <2>4. /\ 2 * (Ray * L1) <= 2 * ((Ray + i) * liquidityIndex) + Ray
        /\ Ray + i <= L1
    BY IndexCredited
  <2> HIDE DEF i, T, L1, C1
  <2> QED
    BY <1>1, <1>2, <1>3, <1>5, <2>1, <2>2, <2>3, <2>4, ClaimsAfter DEF L1
<1>7. A1 \in Nat /\ B1 \in Nat /\ C1 \in Nat /\ A1 = Debt + Charged
  <2>1. A1 \in Nat /\ B1 \in Nat /\ C1 \in Nat
    BY <1>1, <1>2, RayMulType
  <2>2. Charged = A1 - Debt
    BY DEF Charged
  <2> HIDE DEF A1, B1, C1
  <2> QED
    BY <1>3, <2>1, <2>2, SMT
<1>8. 2 * (Ray * A1) + 2 * (Ray * n) <= 2 * (Ray * B1) + V1 + 2 * Ray
  <2>1. /\ 2 * (Ray * A1) <= 2 * (debtSupply * V1) + Ray
        /\ 2 * ((debtSupply + e) * V1) <= 2 * (Ray * B1) + Ray
    BY <1>1, <1>2, RayMulOf
  <2> HIDE DEF V1, A1, B1
  <2> QED
    BY <1>1, <1>2, <1>7, <2>1, DebtAfter DEF V1
<1>9. 2 * (i * Assets) + 2 * (Ray * T)
        <= 2 * (Ray * Charged) + InterestRoundings + Assets * dt + Ray
  BY AccrualBacked
<1>10. /\ InterestRoundings = V1 + debtSupply + 3 * Ray + 2 * (Ray * y)
                                + 6 * (Assets * dt) + Assets * v
       /\ Roundings = Ray * (4 + y) + 2 * (L1 + V1) + bTokenSupply + debtSupply
                        + Assets * (4 * dt + v)
  BY <1>2 DEF InterestRoundings, RateRoundings, Roundings, Elapsed
<1> HIDE DEF i, T, L1, V1, A1, C1, B1, dt, v, y
<1>11. /\ Ray * (4 + y) = 4 * Ray + Ray * y
       /\ Assets * (4 * dt + v) = 4 * (Assets * dt) + Assets * v
       /\ Ray * A1 = Ray * Debt + Ray * Charged
  BY <1>3, <1>7, ReserveUnits, SMT
<1>12. /\ Ray * (Claims - Assets)'
            = Ray * C1 - Ray * cash - Ray * m + Ray * n - Ray * B1
       /\ Ray * (Claims - Assets) = Ray * Claims - Ray * cash - Ray * Debt
  BY <1>1, <1>3, <1>4, <1>7, ReserveUnits, SMT
<1>13. /\ Ray * C1 \in Nat /\ Ray * cash \in Nat /\ Ray * B1 \in Nat
       /\ Ray * Claims \in Nat /\ Ray * Debt \in Nat /\ Ray * Charged \in Nat
       /\ Ray * T \in Nat /\ i * Claims \in Nat /\ i * Assets \in Nat
       /\ Ray * y \in Nat /\ Assets * dt \in Nat /\ Assets * v \in Nat
  BY <1>1, <1>3, <1>5, <1>7, ReserveUnits, ProductType
<1>14. Ray * m \in Int /\ Ray * n \in Int
  BY ReserveUnits, SMT
<1>15. Ray * C1 - Ray * cash - Ray * m + Ray * n - Ray * B1
         <= Ray * Claims - Ray * cash - Ray * Debt + InterestOnUnbacked + Roundings
  BY <1>1, <1>2, <1>3, <1>6, <1>8, <1>9, <1>10, <1>11, <1>13, <1>14,
     ReserveUnits, SMTT(60)
<1> QED
  BY <1>12, <1>15 DEF ClaimsBacked

\* What the roundings of two amounts scaled by an index can be
LEMMA AmountScaled ==
  ASSUME TypeOK, NEW a \in Nat
  PROVE  LET d == RayDiv(a, AccruedLiquidityIndex)
             e == RayDiv(a, AccruedBorrowIndex)
         IN  /\ d \in Nat /\ e \in Nat
             /\ AccruedLiquidityIndex \in Nat /\ AccruedBorrowIndex \in Nat
             /\ 2 * (AccruedLiquidityIndex * d) <= 2 * (a * Ray) + AccruedLiquidityIndex
             /\ 2 * (AccruedLiquidityIndex * (-d))
                  <= 2 * ((-a) * Ray) + AccruedLiquidityIndex
             /\ 2 * (a * Ray) <= 2 * (AccruedBorrowIndex * e) + AccruedBorrowIndex
             /\ 2 * ((-a) * Ray)
                  <= 2 * (AccruedBorrowIndex * (-e)) + AccruedBorrowIndex
<1> DEFINE L1 == AccruedLiquidityIndex
           V1 == AccruedBorrowIndex
           d == RayDiv(a, L1)
           e == RayDiv(a, V1)
<1>1. L1 \in Nat /\ L1 > 0 /\ V1 \in Nat /\ V1 > 0
  <2>1. liquidityIndex \in Nat /\ variableBorrowIndex \in Nat
    BY DEF TypeOK
  <2> QED
    BY <2>1, AccruedIndexes, ReserveUnits, SMT
<1>2. /\ d \in Nat /\ e \in Nat
      /\ 2 * (L1 * d) <= 2 * (a * Ray) + L1
      /\ 2 * (a * Ray) <= 2 * (L1 * d) + L1
      /\ 2 * (V1 * e) <= 2 * (a * Ray) + V1
      /\ 2 * (a * Ray) <= 2 * (V1 * e) + V1
  BY <1>1, RayDivOf
<1> HIDE DEF L1, V1, d, e
<1>3. /\ L1 * (-d) = -(L1 * d) /\ V1 * (-e) = -(V1 * e)
      /\ (-a) * Ray = -(a * Ray)
      /\ L1 * d \in Nat /\ V1 * e \in Nat /\ a * Ray \in Nat
  BY <1>1, <1>2, ReserveUnits, ProductType, SMT
<1>4. /\ 2 * (L1 * (-d)) <= 2 * ((-a) * Ray) + L1
      /\ 2 * ((-a) * Ray) <= 2 * (V1 * (-e)) + V1
  BY <1>1, <1>2, <1>3, SMT
<1> QED
  BY <1>1, <1>2, <1>4 DEF d, e, L1, V1

\* No money, no tokens: zero satisfies both bounds.
LEMMA NothingScaled ==
  ASSUME TypeOK
  PROVE  /\ 2 * (AccruedLiquidityIndex * 0) <= 2 * (0 * Ray) + AccruedLiquidityIndex
         /\ 2 * (0 * Ray) <= 2 * (AccruedBorrowIndex * 0) + AccruedBorrowIndex
BY AccruedIndexes, ReserveUnits, SMT

(* The steps, one by one: what each of them mints, burns, takes and pays *)
LEMMA DepositBacked ==
  ASSUME TypeOK, TypeOK', RatesShared, NEW u, NEW a \in Nat, Deposit(u, a)
  PROVE  ClaimsBacked
<1> DEFINE d == RayDiv(a, AccruedLiquidityIndex)
<1>1. /\ reserveFactor <= PercentFactor /\ UpdateIndexes
      /\ bTokenSupply' = bTokenSupply + TreasuryShare + d
      /\ debtSupply' = debtSupply /\ cash' = cash + a
  BY DEF Deposit, TokensChange, UpdateInterestRates, debtVars
<1>2. /\ d \in Int
      /\ 2 * (AccruedLiquidityIndex * d) <= 2 * (a * Ray) + AccruedLiquidityIndex
  BY AmountScaled, SMT
<1> HIDE DEF d
<1>3. debtSupply' = debtSupply + 0 /\ cash' = cash + a - 0
  BY <1>1, SMT DEF TypeOK
<1> QED
  BY <1>1, <1>2, <1>3, NothingScaled, TransactionBacked, 0 \in Int, a \in Int

LEMMA WithdrawBacked ==
  ASSUME TypeOK, TypeOK', RatesShared, NEW x, NEW a \in Nat, Withdraw(x, a)
  PROVE  ClaimsBacked
<1> DEFINE d == RayDiv(a, AccruedLiquidityIndex)
<1>1. /\ reserveFactor <= PercentFactor /\ UpdateIndexes
      /\ bTokenSupply' = bTokenSupply + TreasuryShare + -d
      /\ debtSupply' = debtSupply /\ cash' = cash - a
  BY DEF Withdraw, TokensChange, UpdateInterestRates, debtVars
<1>2. /\ d \in Nat
      /\ 2 * (AccruedLiquidityIndex * (-d))
           <= 2 * ((-a) * Ray) + AccruedLiquidityIndex
  BY AmountScaled
<1> HIDE DEF d
<1>3. /\ debtSupply' = debtSupply + 0 /\ cash' = cash + (-a) - 0
      /\ -d \in Int /\ -a \in Int
  BY <1>1, <1>2, SMT DEF TypeOK
<1> QED
  BY <1>1, <1>2, <1>3, NothingScaled, TransactionBacked, 0 \in Int

LEMMA BorrowBacked ==
  ASSUME TypeOK, TypeOK', RatesShared, NEW u, NEW a \in Nat, Borrow(u, a)
  PROVE  ClaimsBacked
<1> DEFINE e == RayDiv(a, AccruedBorrowIndex)
<1>1. /\ reserveFactor <= PercentFactor /\ UpdateIndexes
      /\ bTokenSupply' = bTokenSupply + TreasuryShare + 0
      /\ debtSupply' = debtSupply + e /\ cash' = cash - a
  BY DEF Borrow, TokensChange, DebtChange, UpdateInterestRates
<1>2. /\ e \in Int
      /\ 2 * (a * Ray) <= 2 * (AccruedBorrowIndex * e) + AccruedBorrowIndex
  BY AmountScaled, SMT
<1> HIDE DEF e
<1>3. cash' = cash + 0 - a
  BY <1>1, SMT DEF TypeOK
<1> QED
  BY <1>1, <1>2, <1>3, NothingScaled, TransactionBacked, 0 \in Int, a \in Int

LEMMA RepayBacked ==
  ASSUME TypeOK, TypeOK', RatesShared, NEW u \in Users, NEW a \in Nat, Repay(u, a)
  PROVE  ClaimsBacked
<1> DEFINE debt == RayMul(debtBalance[u], AccruedBorrowIndex)
           paid == IF a < debt THEN a ELSE debt
           e == RayDiv(paid, AccruedBorrowIndex)
<1>1. /\ reserveFactor <= PercentFactor /\ UpdateIndexes
      /\ bTokenSupply' = bTokenSupply + TreasuryShare + 0
      /\ debtSupply' = debtSupply + -e /\ cash' = cash + paid
  BY DEF Repay, TokensChange, DebtChange, UpdateInterestRates
<1>2. paid \in Nat
  <2>1. debt \in Nat
    BY AccruedIndexes, RayMulType DEF TypeOK
  <2> QED
    BY <2>1
<1> HIDE DEF paid
<1>3. /\ e \in Nat
      /\ 2 * ((-paid) * Ray)
           <= 2 * (AccruedBorrowIndex * (-e)) + AccruedBorrowIndex
  BY <1>2, AmountScaled
<1> HIDE DEF e
<1>4. cash' = cash + 0 - (-paid) /\ -e \in Int /\ -paid \in Int
  BY <1>1, <1>2, <1>3, SMT DEF TypeOK
<1> QED
  BY <1>1, <1>3, <1>4, NothingScaled, TransactionBacked, 0 \in Int

LEMMA AuctionBacked ==
  ASSUME TypeOK, TypeOK', RatesShared, NEW u, Auction(u)
  PROVE  ClaimsBacked
<1>1. /\ reserveFactor <= PercentFactor /\ UpdateIndexes
      /\ bTokenSupply' = bTokenSupply + TreasuryShare + 0
      /\ debtSupply' = debtSupply /\ cash' = cash
  BY DEF Auction, TokensChange, UpdateInterestRates, debtVars
<1>2. debtSupply' = debtSupply + 0 /\ cash' = cash + 0 - 0
  BY <1>1, SMT DEF TypeOK
<1> QED
  BY <1>1, <1>2, NothingScaled, TransactionBacked, 0 \in Int

\* The other steps leave claims and assets as they are.
LEMMA UnmovedBacked ==
  ASSUME TypeOK, UNCHANGED <<indexVars, bTokenSupply, debtVars, cash>>
  PROVE  ClaimsBacked
<1> DEFINE v == variableBorrowIndex' \div Ray
           e == Elapsed \div SecondsPerYear
<1>1. /\ UNCHANGED <<bTokenSupply, liquidityIndex, variableBorrowIndex,
                     debtSupply, cash>>
      /\ liquidityIndex \in Nat /\ variableBorrowIndex \in Nat
      /\ bTokenSupply \in Nat /\ debtSupply \in Nat
  BY DEF indexVars, debtVars, TypeOK
<1>2. Claims' = Claims /\ Assets' = Assets
  BY <1>1 DEF Claims, Assets
<1>3. /\ Claims \in Nat /\ Assets \in Nat /\ InterestOnUnbacked \in Nat
      /\ Elapsed \in Nat
  BY CreditOnClaims, AccrualTypes
<1>4. v \in Nat /\ e \in Nat
  BY <1>1, <1>3, DivBounds, ReserveUnits
<1>5. Roundings = Ray * (4 + e) + 2 * (liquidityIndex + variableBorrowIndex)
                    + bTokenSupply + debtSupply + Assets * (4 * Elapsed + v)
  BY <1>1 DEF Roundings, Elapsed
<1> HIDE DEF v, e
<1>6. Ray * (4 + e) \in Nat /\ Assets * (4 * Elapsed + v) \in Nat
  BY <1>3, <1>4, ReserveUnits, ProductType, SMT
<1>7. Roundings \in Nat
  BY <1>1, <1>5, <1>6, SMT
<1>8. Ray * (Claims - Assets) \in Int /\ Ray * (Claims - Assets)' = Ray * (Claims - Assets)
  BY <1>2, <1>3, ReserveUnits, SMT
<1> QED
  BY <1>3, <1>7, <1>8, SMT DEF ClaimsBacked

LEMMA StepBacked ==
  ASSUME TypeOK, TypeOK', RatesShared, [Next]_vars
  PROVE  ClaimsBacked
<1>1. /\ \A a \in Amounts : a \in Nat
      /\ \A x \in Accounts : BalanceOf(x) \in Nat
  BY ReserveInputAssumption, BalanceType
<1>2. CASE PoolStep
  <2>1. ASSUME NEW x, NEW y, NEW a, Transfer(x, y, a)
        PROVE  ClaimsBacked
    BY <2>1, UnmovedBacked DEF Transfer
  <2> QED
    BY <1>1, <1>2, <2>1, DepositBacked, WithdrawBacked, BorrowBacked,
       RepayBacked, AuctionBacked DEF PoolStep, WithdrawAll
<1>3. CASE AdminStep \/ Tick \/ UNCHANGED vars
  BY <1>3, UnmovedBacked DEF AdminStep, SetReserveFactor, SetFlag, Tick, vars,
     bTokenVars
<1> QED
  BY <1>2, <1>3 DEF Next

(***************************************************************************)
(* The administrator may lower the reserve factor and not raise it.  The   *)
(* interest of the time before a change goes to the depositors at the old  *)
(* factor (it is in currentLiquidityRate) and to the treasury at the new   *)
(* one: raised, the two shares are more than the whole.                    *)
(***************************************************************************)
FactorNeverRaised == [][reserveFactor' <= reserveFactor]_vars

(***************************************************************************)
(* The interest that borrowers are charged pays for what depositors and    *)
(* treasury are credited, roundings aside: for every rate strategy, every  *)
(* unit, all amounts and any order of the transactions.  Depositors earn   *)
(* linearly and borrowers owe compounded, so no time between transactions  *)
(* is too long; that the rates are those of the state that the last        *)
(* transaction left is RatesShared, the invariant the proof rests on.      *)
(***************************************************************************)
THEOREM NoUnbackedClaimsCorrect == Spec /\ FactorNeverRaised => NoUnbackedClaims
<1>1. Init => RatesShared
  BY DEF Init, RatesShared
<1>2. TypeOK /\ TypeOK' /\ RatesShared /\ [Next]_vars
        /\ [reserveFactor' <= reserveFactor]_vars => RatesShared'
  <2> SUFFICES ASSUME TypeOK, TypeOK', RatesShared, [Next]_vars,
                      [reserveFactor' <= reserveFactor]_vars
               PROVE  RatesShared'
    OBVIOUS
  <2>1. reserveFactor' <= reserveFactor
    BY ReserveInputAssumption, SMT DEF TypeOK, vars
  <2> QED
    BY <2>1, RatesSharedStay
<1>3. TypeOK /\ TypeOK' /\ RatesShared /\ [Next]_vars => [ClaimsBacked]_vars
  BY StepBacked
<1>4. [ClaimsBacked]_vars
        => [Ray * (Claims - Assets)'
              <= Ray * (Claims - Assets) + InterestOnUnbacked + Roundings]_vars
  BY DEF ClaimsBacked
<1> QED
  BY <1>1, <1>2, <1>3, <1>4, ReserveTypeCorrect, PTL
     DEF Spec, FactorNeverRaised, NoUnbackedClaims
-----------------------------------------------------------------------------
LEMMA AccountsFinite ==
  /\ IsFiniteSet(Users) /\ IsFiniteSet(Accounts)
  /\ Users \subseteq Accounts /\ Treasury \in Accounts
BY AccountAssumption, FS_AddElement DEF Accounts

(* A mint for the treasury and a change of one account, in this order *)
LEMMA TokensSummed ==
  ASSUME TypeOK, SuppliesAreSums, NEW account \in Accounts, NEW delta \in Int,
         TokensChange(account, delta)
  PROVE  bTokenSupply' = SumFunctionOnSet(bTokenBalance', Accounts)
<1> DEFINE share == TreasuryShare
           minted == [bTokenBalance EXCEPT ![Treasury] = @ + share]
<1>1. /\ share \in Nat /\ Treasury \in Accounts
      /\ bTokenBalance \in [Accounts -> Nat] /\ bTokenSupply \in Nat
      /\ bTokenSupply = SumFunctionOnSet(bTokenBalance, Accounts)
  BY TreasuryShareType, AccountsFinite DEF TypeOK, SuppliesAreSums
<1>2. /\ bTokenBalance' = [minted EXCEPT ![account] = @ + delta]
      /\ bTokenBalance'[account] >= 0
      /\ bTokenSupply' = bTokenSupply + share + delta
  BY DEF TokensChange
<1> HIDE DEF share
<1>3. minted \in [Accounts -> Nat]
  BY <1>1, SMT
<1>4. SumFunctionOnSet(minted, Accounts)
        = SumFunctionOnSet(bTokenBalance, Accounts) + share
  <2>1. share \in Int /\ bTokenBalance[Treasury] + share \in Nat
    BY <1>1, SMT
  <2> QED
    BY <1>1, <2>1, AccountsFinite, SumChange
<1> HIDE DEF minted
<1>5. minted[account] + delta \in Nat
  BY <1>2, <1>3, SMT
<1>6. SumFunctionOnSet(bTokenBalance', Accounts)
        = SumFunctionOnSet(minted, Accounts) + delta
  BY <1>2, <1>3, <1>5, AccountsFinite, SumChange
<1> QED
  BY <1>1, <1>2, <1>4, <1>6

LEMMA DebtSummed ==
  ASSUME TypeOK, SuppliesAreSums, NEW user \in Users, NEW delta \in Int,
         DebtChange(user, delta)
  PROVE  debtSupply' = SumFunctionOnSet(debtBalance', Users)
<1>1. /\ debtBalance \in [Users -> Nat]
      /\ debtSupply = SumFunctionOnSet(debtBalance, Users)
      /\ debtBalance' = [debtBalance EXCEPT ![user] = @ + delta]
      /\ debtBalance'[user] >= 0
      /\ debtSupply' = debtSupply + delta
  BY DEF DebtChange, TypeOK, SuppliesAreSums
<1>2. debtBalance[user] + delta \in Nat
  BY <1>1, SMT
<1> QED
  BY <1>1, <1>2, AccountsFinite, SumChange

LEMMA TransferSummed ==
  ASSUME TypeOK, SuppliesAreSums, NEW x \in Accounts, NEW y \in Accounts,
         NEW a \in Nat, Transfer(x, y, a)
  PROVE  SuppliesAreSums'
<1> DEFINE moved == RayDiv(a, NormalizedIncome)
           paid == [bTokenBalance EXCEPT ![x] = @ - moved]
           less == [bTokenBalance EXCEPT ![x] = @ + -moved]
<1>1. moved \in Nat
  BY ViewIsAccrued, ScaledAmountType
<1>2. /\ moved <= bTokenBalance[x]
      /\ bTokenBalance' = [paid EXCEPT ![y] = @ + moved]
      /\ UNCHANGED <<bTokenSupply, debtBalance, debtSupply>>
      /\ bTokenBalance \in [Accounts -> Nat]
      /\ bTokenSupply = SumFunctionOnSet(bTokenBalance, Accounts)
      /\ debtSupply = SumFunctionOnSet(debtBalance, Users)
  BY DEF Transfer, TypeOK, SuppliesAreSums, debtVars
<1> HIDE DEF moved
<1>3. paid \in [Accounts -> Nat] /\ paid = less
  <2>1. /\ bTokenBalance[x] - moved = bTokenBalance[x] + -moved
        /\ bTokenBalance[x] - moved \in Nat
    BY <1>1, <1>2, SMT
  <2> QED
    BY <1>2, <2>1, Zenon
<1>4. SumFunctionOnSet(less, Accounts)
        = SumFunctionOnSet(bTokenBalance, Accounts) + -moved
  <2>1. -moved \in Int /\ bTokenBalance[x] + -moved \in Nat
    BY <1>1, <1>2, SMT
  <2> QED
    BY <1>2, <2>1, AccountsFinite, SumChange
<1> HIDE DEF paid, less
<1>5. moved \in Int /\ paid[y] + moved \in Nat
  BY <1>1, <1>3, SMT
<1>6. SumFunctionOnSet(bTokenBalance', Accounts)
        = SumFunctionOnSet(paid, Accounts) + moved
  BY <1>2, <1>3, <1>5, AccountsFinite, SumChange
<1>7. SumFunctionOnSet(bTokenBalance, Accounts) \in Nat
  BY <1>2, AccountsFinite, SumType
<1>8. SumFunctionOnSet(bTokenBalance', Accounts)
        = SumFunctionOnSet(bTokenBalance, Accounts)
  BY <1>1, <1>3, <1>4, <1>6, <1>7, SMT
<1> QED
  BY <1>2, <1>8 DEF SuppliesAreSums

LEMMA PoolSummed ==
  ASSUME TypeOK, SuppliesAreSums, PoolStep
  PROVE  SuppliesAreSums'
<1>1. /\ \A a \in Amounts : a \in Nat
      /\ \A a \in TransferAmounts : a \in Nat
      /\ \A a \in Nat : RayDiv(a, AccruedLiquidityIndex) \in Nat
                        /\ RayDiv(a, AccruedBorrowIndex) \in Nat
      /\ \A d \in Nat : d \in Int /\ -d \in Int
      /\ Treasury \in Accounts /\ 0 \in Int /\ \A u \in Users : u \in Accounts
  BY ReserveInputAssumption, ScaledAmountType, AccountsFinite, SMT
<1>2. /\ bTokenSupply = SumFunctionOnSet(bTokenBalance, Accounts)
      /\ debtSupply = SumFunctionOnSet(debtBalance, Users)
  BY DEF SuppliesAreSums
<1>3. ASSUME NEW account \in Accounts, NEW delta \in Int,
             TokensChange(account, delta), UNCHANGED debtVars
      PROVE  SuppliesAreSums'
  BY <1>2, <1>3, TokensSummed DEF debtVars, SuppliesAreSums
<1>4. ASSUME NEW user \in Users, NEW delta \in Int,
             TokensChange(Treasury, 0), DebtChange(user, delta)
      PROVE  SuppliesAreSums'
  BY <1>1, <1>4, TokensSummed, DebtSummed DEF SuppliesAreSums
<1>5. ASSUME NEW u \in Users, NEW a \in Amounts, Deposit(u, a)
      PROVE  SuppliesAreSums'
  BY <1>1, <1>3, <1>5 DEF Deposit
<1>6. ASSUME NEW x \in Accounts, NEW a \in Nat, Withdraw(x, a)
      PROVE  SuppliesAreSums'
  BY <1>1, <1>3, <1>6 DEF Withdraw
<1>7. ASSUME NEW u \in Users, NEW a \in Amounts, Borrow(u, a)
      PROVE  SuppliesAreSums'
  BY <1>1, <1>4, <1>7 DEF Borrow
<1>8. ASSUME NEW u \in Users, NEW a \in Amounts, Repay(u, a)
      PROVE  SuppliesAreSums'
  <2> DEFINE debt == RayMul(debtBalance[u], AccruedBorrowIndex)
             paid == IF a < debt THEN a ELSE debt
             burned == RayDiv(paid, AccruedBorrowIndex)
  <2>1. debt \in Nat
    BY AccruedIndexes, RayMulType DEF TypeOK
  <2>2. paid \in Nat
    BY <1>1, <2>1
  <2>3. TokensChange(Treasury, 0) /\ DebtChange(u, -burned)
    BY <1>8 DEF Repay
  <2> HIDE DEF paid
  <2>4. -burned \in Int
    BY <1>1, <2>2
  <2> QED
    BY <1>4, <2>3, <2>4
<1>9. ASSUME NEW u \in Users, Auction(u)
      PROVE  SuppliesAreSums'
  BY <1>1, <1>3, <1>9 DEF Auction
<1>10. ASSUME NEW x \in Accounts, NEW y \in Accounts, NEW a \in TransferAmounts,
              Transfer(x, y, a)
       PROVE  SuppliesAreSums'
  BY <1>1, <1>10, TransferSummed
<1>11. ASSUME NEW x \in Accounts, WithdrawAll(x)
       PROVE  SuppliesAreSums'
  BY <1>6, <1>11, BalanceType DEF WithdrawAll
<1> QED
  BY <1>1, <1>5, <1>6, <1>7, <1>8, <1>9, <1>10, <1>11 DEF PoolStep

(***************************************************************************)
(* The supplies that interest is computed from are the sums of what the    *)
(* accounts hold and the users owe, for any number of them and any order   *)
(* of the transactions, transfers and treasury mints included.             *)
(***************************************************************************)
THEOREM SuppliesCorrect == Spec => []SuppliesAreSums
<1>1. Init => SuppliesAreSums
  BY AccountsFinite, SumZero DEF Init, SuppliesAreSums
<1>2. TypeOK /\ SuppliesAreSums /\ [Next]_vars => SuppliesAreSums'
  <2> SUFFICES ASSUME TypeOK, SuppliesAreSums, [Next]_vars
               PROVE  SuppliesAreSums'
    OBVIOUS
  <2>1. CASE PoolStep
    BY <2>1, PoolSummed
  <2>2. CASE AdminStep \/ Tick \/ UNCHANGED vars
    <3>1. UNCHANGED <<bTokenBalance, bTokenSupply, debtBalance, debtSupply>>
      BY <2>2 DEF AdminStep, SetReserveFactor, SetFlag, Tick, vars, bTokenVars,
         debtVars
    <3> QED
      BY <3>1 DEF SuppliesAreSums
  <2> QED
    BY <2>1, <2>2 DEF Next
<1> QED
  BY <1>1, <1>2, ReserveTypeCorrect, PTL DEF Spec

-----------------------------------------------------------------------------
(* No account holds more than there is. *)
LEMMA BalanceWithinSupply ==
  ASSUME TypeOK, SuppliesAreSums, NEW x \in Accounts
  PROVE  bTokenBalance[x] <= bTokenSupply
<1>1. /\ \A y \in Accounts : bTokenBalance[y] \in Nat
      /\ \A y \in Accounts \ {x} : bTokenBalance[y] \in Nat
      /\ IsFiniteSet(Accounts \ {x})
      /\ bTokenSupply = SumFunctionOnSet(bTokenBalance, Accounts)
  BY AccountsFinite, FS_RemoveElement DEF TypeOK, SuppliesAreSums
<1>2. SumFunctionOnSet(bTokenBalance, Accounts)
        = bTokenBalance[x] + SumFunctionOnSet(bTokenBalance, Accounts \ {x})
  BY <1>1, AccountsFinite, SumRemove
<1>3. SumFunctionOnSet(bTokenBalance, Accounts \ {x}) \in Nat
  BY <1>1, SumType
<1> QED
  BY <1>1, <1>2, <1>3, SMT

(***************************************************************************)
(* What executeWithdraw does when none of its checks fails: its            *)
(* assignments, without the conditions.                                    *)
(***************************************************************************)
WithdrawEffect(account, amount) ==
  LET burned == RayDiv(amount, AccruedLiquidityIndex)
      shared == [bTokenBalance EXCEPT ![Treasury] = @ + TreasuryShare]
      debt == RayMul(debtSupply', variableBorrowIndex')
      utilization == UtilizationRate(cash - amount, debt)
      rate == VariableBorrowRate(utilization)
  IN
  /\ UpdateIndexes
  /\ bTokenBalance' = [shared EXCEPT ![account] = @ - burned]
  /\ bTokenSupply' = bTokenSupply + TreasuryShare - burned
  /\ currentVariableBorrowRate' = rate
  /\ currentLiquidityRate' = LiquidityRate(debt, rate, utilization)
  /\ cash' = cash - amount
  /\ UNCHANGED <<debtVars, reserveFactor, flags, now>>

(***************************************************************************)
(* The content of DepositorsCanLeave, for every reserve: when a depositor  *)
(* whose balance the cash covers withdraws all of it, every check of the   *)
(* withdrawal passes, those of the burn and of the rates included.  Only   *)
(* a reserve factor above 100% would stop it.                              *)
(***************************************************************************)
THEOREM NothingHindersLeaving ==
  ASSUME TypeOK, SuppliesAreSums, reserveFactor <= PercentFactor,
         NEW x \in Accounts, bTokenBalance[x] > 0, flags.active,
         cash >= BalanceOf(x), WithdrawEffect(x, BalanceOf(x))
  PROVE  WithdrawAll(x)
<1> DEFINE amount == BalanceOf(x)
           burned == RayDiv(amount, AccruedLiquidityIndex)
           share == TreasuryShare
           shared == [bTokenBalance EXCEPT ![Treasury] = @ + share]
<1>1. /\ bTokenBalance \in [Accounts -> Nat] /\ bTokenBalance[x] \in Nat
      /\ bTokenSupply \in Nat /\ cash \in Nat /\ amount \in Nat
      /\ share \in Nat /\ Treasury \in Accounts
  BY BalanceType, TreasuryShareType, AccountsFinite DEF TypeOK
<1>2. /\ AccruedLiquidityIndex \in Nat /\ AccruedLiquidityIndex >= Ray
      /\ NormalizedIncome = AccruedLiquidityIndex
  <2>1. liquidityIndex \in Nat
    BY DEF TypeOK
  <2> QED
    BY <2>1, AccruedIndexes, ReserveUnits, ViewIsAccrued, SMT
<1>3. burned = bTokenBalance[x]
  BY <1>1, <1>2, ScaledRoundTrip DEF BalanceOf
<1>4. amount # 0
  <2>1. amount >= bTokenBalance[x]
    <3>1. RayMul(bTokenBalance[x], Ray) = bTokenBalance[x]
      <4>1. bTokenBalance[x] * Ray = Ray * bTokenBalance[x]
        BY <1>1, ReserveUnits, SMT
      <4> QED
        BY <1>1, <4>1, RayMulOne DEF RayMul
    <3> QED
      BY <1>1, <1>2, <3>1, ReserveUnits, RayMulMonotone DEF BalanceOf
  <2> QED
    BY <1>1, <2>1, SMT
<1>5. /\ UpdateIndexes
      /\ bTokenBalance' = [shared EXCEPT ![x] = @ - burned]
      /\ bTokenSupply' = bTokenSupply + share - burned
      /\ cash' = cash - amount
      /\ UNCHANGED <<debtVars, reserveFactor, flags, now>>
  BY DEF WithdrawEffect
<1>6. UpdateInterestRates(0, amount)
  <2>1. cash + 0 - amount = cash - amount /\ cash + 0 >= amount
    BY <1>1, SMT
  <2> QED
    BY <2>1 DEF WithdrawEffect, UpdateInterestRates
<1>7. bTokenBalance[x] <= bTokenSupply
  BY BalanceWithinSupply
<1> HIDE DEF amount, share
<1>8. shared \in [Accounts -> Nat] /\ shared[x] >= bTokenBalance[x]
  BY <1>1, SMT
<1>9. /\ bTokenBalance' = [shared EXCEPT ![x] = @ + -burned]
      /\ bTokenBalance'[x] >= 0
      /\ bTokenSupply' = bTokenSupply + share + -burned
      /\ bTokenSupply' >= 0
  <2> HIDE DEF shared, burned
  <2>1. shared[x] \in Nat
    BY <1>8
  <2>2. [shared EXCEPT ![x] = @ - burned] = [shared EXCEPT ![x] = @ + -burned]
    <3>1. shared[x] - burned = shared[x] + -burned
      BY <1>1, <1>3, <2>1, SMT
    <3> QED
      BY <3>1, Zenon
  <2>3. bTokenBalance'[x] = shared[x] - burned
    BY <1>5, <1>8
  <2> QED
    BY <1>1, <1>3, <1>5, <1>7, <1>8, <2>1, <2>2, <2>3, SMT
<1>10. TokensChange(x, -burned)
  BY <1>9 DEF TokensChange, share
<1> QED
  BY <1>1, <1>3, <1>4, <1>5, <1>6, <1>10, SMT
     DEF WithdrawAll, Withdraw, amount
=============================================================================
