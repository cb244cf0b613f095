------------------------------ MODULE Reserve -------------------------------
(***************************************************************************)
(* One reserve of the pool: the money side that module LendPool leaves     *)
(* out.  contracts/libraries/logic/ReserveLogic.sol and SupplyLogic.sol,   *)
(* protocol/InterestRate.sol, BToken.sol and the supply of DebtToken.sol.  *)
(* Depositors hold bTokens, borrowers owe debt tokens; both are scaled by  *)
(* an index that grows with the interest.  A transaction first accrues     *)
(* (updateState), then moves money, and sets the rates for the time until  *)
(* the next one.                                                           *)
(*                                                                         *)
(* The conditions a loan puts on its operations (collateral, auctions,     *)
(* windows) are those of LendPool; here each borrower has one loan.  Who   *)
(* pays is left out, and so is the pool's pause, which stops everything.   *)
(***************************************************************************)
EXTENDS FixedPointMath, FiniteSets, Functions

CONSTANTS
  Users,            \* depositors and borrowers
  Treasury,         \* BToken._treasury, which earns the reserve's share
  SecondsPerYear,   \* SECONDS_PER_YEAR, in ticks of the clock
  OptimalUtilization, BaseRate, Slope1, Slope2,  \* the rate strategy, in ray
  MaxUtilizationRate,  \* ReserveData.maxUtilizationRate
  ReserveFactors,   \* what the administrator may set the reserve factor to
  AdminFlags,       \* which of the three flags the administrator switches
  Amounts,          \* bound: the amounts of the calls
  TransferAmounts,  \* bound: the amounts that depositors pay each other
  MaxTransactions,  \* bound: the number of transactions of a behaviour
  MaxTime           \* bound: the last timestamp

ASSUME AccountAssumption == IsFiniteSet(Users) /\ Treasury \notin Users

ASSUME RateAssumption ==
  /\ Wad <= Ray
  /\ SecondsPerYear \in Nat \ {0}
  /\ OptimalUtilization \in 1..(Ray - 1)
  /\ BaseRate \in Nat /\ Slope1 \in Nat /\ Slope2 \in Nat
  /\ MaxUtilizationRate \in Nat

ASSUME ReserveInputAssumption ==
  /\ ReserveFactors \subseteq Nat
  /\ Amounts \subseteq Nat /\ TransferAmounts \subseteq Nat
  /\ MaxTransactions \in Nat
  /\ MaxTime \in Nat

VARIABLES
  liquidityIndex,       \* ReserveData: the index of the bToken balances,
  variableBorrowIndex,  \*   the index of the debt token balances,
  currentLiquidityRate, currentVariableBorrowRate,
  lastUpdateTimestamp,
  reserveFactor,        \*   and of its configuration the reserve factor
  flags,                \*   and the flags
  bTokenBalance,        \* BToken: scaled balances
  bTokenSupply,         \* BToken: scaledTotalSupply
  debtBalance,          \* DebtToken: scaled balances
  debtSupply,           \* DebtToken: scaledTotalSupply
  cash,                 \* the underlying asset that the bToken contract holds
  now,                  \* block.timestamp
  transactions          \* for the bound only: how many there have been

indexVars == <<liquidityIndex, variableBorrowIndex, lastUpdateTimestamp>>
rateVars == <<currentLiquidityRate, currentVariableBorrowRate>>
bTokenVars == <<bTokenBalance, bTokenSupply>>
debtVars == <<debtBalance, debtSupply>>
vars == <<indexVars, rateVars, reserveFactor, flags, bTokenVars, debtVars,
          cash, now, transactions>>

Accounts == Users \cup {Treasury}

Flags == [active: BOOLEAN, frozen: BOOLEAN, borrowingEnabled: BOOLEAN]

Init ==
  /\ liquidityIndex = Ray
  /\ variableBorrowIndex = Ray
  /\ currentLiquidityRate = 0
  /\ currentVariableBorrowRate = 0
  /\ lastUpdateTimestamp = 0
  /\ reserveFactor \in ReserveFactors
  /\ flags = [active |-> TRUE, frozen |-> FALSE, borrowingEnabled |-> TRUE]
  /\ bTokenBalance = [a \in Accounts |-> 0]
  /\ bTokenSupply = 0
  /\ debtBalance = [u \in Users |-> 0]
  /\ debtSupply = 0
  /\ cash = 0
  /\ now = 1
  /\ transactions = 0

-----------------------------------------------------------------------------
(* MathUtils: the interest of the time since the last update, in ray *)
LinearInterest(rate) ==
  (rate * (now - lastUpdateTimestamp)) \div SecondsPerYear + Ray

(* The first terms of the binomial series of (1 + rate per second)^seconds *)
CompoundedInterest(rate) ==
  LET exp == now - lastUpdateTimestamp
      perSecond == rate \div SecondsPerYear
      powerTwo == RayMul(perSecond, perSecond)
      powerThree == RayMul(powerTwo, perSecond)
      minusTwo == IF exp > 2 THEN exp - 2 ELSE 0
  IN IF exp = 0 THEN Ray
     ELSE Ray + perSecond * exp
            + (exp * (exp - 1) * powerTwo) \div 2
            + (exp * (exp - 1) * minusTwo * powerThree) \div 6

NormalizedIncome_Stored == liquidityIndex  \* mutant: nothing accrues in views

(* What the views show between two transactions *)
NormalizedIncome ==
  IF lastUpdateTimestamp = now THEN liquidityIndex
  ELSE RayMul(LinearInterest(currentLiquidityRate), liquidityIndex)

NormalizedDebt ==
  IF lastUpdateTimestamp = now THEN variableBorrowIndex
  ELSE RayMul(CompoundedInterest(currentVariableBorrowRate), variableBorrowIndex)

BalanceOf(account) == RayMul(bTokenBalance[account], NormalizedIncome)

-----------------------------------------------------------------------------
(* ReserveLogic._updateIndexes: nothing accrues unless depositors earn. *)
AccruedLiquidityIndex ==
  IF currentLiquidityRate > 0
  THEN RayMul(LinearInterest(currentLiquidityRate), liquidityIndex)
  ELSE liquidityIndex

AccruedBorrowIndex_FromOne ==  \* mutant: compounds one ray, not the index
  IF currentLiquidityRate > 0 /\ debtSupply # 0
  THEN RayMul(CompoundedInterest(currentVariableBorrowRate), Ray)
  ELSE variableBorrowIndex

AccruedBorrowIndex ==
  IF currentLiquidityRate > 0 /\ debtSupply # 0
  THEN RayMul(CompoundedInterest(currentVariableBorrowRate), variableBorrowIndex)
  ELSE variableBorrowIndex

UpdateIndexes_Later ==  \* mutant: the indexes are dated after the block
  /\ liquidityIndex' = AccruedLiquidityIndex
  /\ variableBorrowIndex' = AccruedBorrowIndex
  /\ lastUpdateTimestamp' = now + 1

UpdateIndexes ==
  /\ liquidityIndex' = AccruedLiquidityIndex
  /\ variableBorrowIndex' = AccruedBorrowIndex
  /\ lastUpdateTimestamp' = now

(* ReserveLogic._mintToTreasury, in scaled bTokens *)
TreasuryShare ==
  LET accrued == RayMul(debtSupply, AccruedBorrowIndex)
                   - RayMul(debtSupply, variableBorrowIndex)
  IN RayDiv(PercentMul(accrued, reserveFactor), AccruedLiquidityIndex)

-----------------------------------------------------------------------------
(* InterestRate.calculateInterestRates *)
WadToRay(a) == a * (Ray \div Wad)

UtilizationRate(available, debt) ==
  IF debt = 0 THEN 0 ELSE RayDiv(debt, available + debt)

VariableBorrowRate(utilization) ==
  IF utilization > OptimalUtilization
  THEN BaseRate + Slope1
         + RayMul(Slope2, RayDiv(utilization - OptimalUtilization,
                                 Ray - OptimalUtilization))
  ELSE BaseRate + RayDiv(RayMul(utilization, Slope1), OptimalUtilization)

OverallBorrowRate(debt, rate) ==
  IF debt = 0 THEN 0 ELSE RayDiv(RayMul(WadToRay(debt), rate), WadToRay(debt))

LiquidityRate_Gross(debt, rate, utilization) ==  \* mutant: treasury paid twice
  RayMul(OverallBorrowRate(debt, rate), utilization)

LiquidityRate(debt, rate, utilization) ==
  PercentMul(RayMul(OverallBorrowRate(debt, rate), utilization),
             PercentFactor - reserveFactor)

UpdateInterestRates_Before(added, taken) ==  \* mutant: the debt of before
  LET available == cash + added - taken
      debt == RayMul(debtSupply, variableBorrowIndex')
      utilization == UtilizationRate(available, debt)
      rate == VariableBorrowRate(utilization)
  IN
  /\ cash + added >= taken
  /\ reserveFactor <= PercentFactor
  /\ currentVariableBorrowRate' = rate
  /\ currentLiquidityRate' = LiquidityRate(debt, rate, utilization)

(***************************************************************************)
(* ReserveLogic.updateInterestRates.  It runs after the debt tokens have   *)
(* been minted or burned and before the money moves, so it is told how     *)
(* much will be added or taken.  It fails if the reserve has not got what  *)
(* is to be taken, or if the reserve factor is above 100%.                 *)
(***************************************************************************)
UpdateInterestRates(added, taken) ==
  LET available == cash + added - taken
      debt == RayMul(debtSupply', variableBorrowIndex')
      utilization == UtilizationRate(available, debt)
      rate == VariableBorrowRate(utilization)
  IN
  /\ cash + added >= taken
  /\ reserveFactor <= PercentFactor
  /\ currentVariableBorrowRate' = rate
  /\ currentLiquidityRate' = LiquidityRate(debt, rate, utilization)

-----------------------------------------------------------------------------
(***************************************************************************)
(* The transactions.  Accrue is the updateState each of them begins with,  *)
(* TokensChange the ERC20 mints and burns of one, the treasury's included. *)
(***************************************************************************)
TokensChange(account, delta) ==
  LET shared == [bTokenBalance EXCEPT ![Treasury] = @ + TreasuryShare] IN
  /\ bTokenBalance' = [shared EXCEPT ![account] = @ + delta]
  /\ bTokenBalance'[account] >= 0
  /\ bTokenSupply' = bTokenSupply + TreasuryShare + delta
  /\ bTokenSupply' >= 0

DebtChange(user, delta) ==
  /\ debtBalance' = [debtBalance EXCEPT ![user] = @ + delta]
  /\ debtBalance'[user] >= 0
  /\ debtSupply' = debtSupply + delta
  /\ debtSupply' >= 0

(* SupplyLogic.executeDeposit, BToken.mint *)
Deposit(onBehalfOf, amount) ==
  LET minted == RayDiv(amount, AccruedLiquidityIndex) IN
  /\ amount # 0
  /\ flags.active /\ ~flags.frozen
  /\ UpdateIndexes
  /\ minted # 0
  /\ TokensChange(onBehalfOf, minted)
  /\ UNCHANGED debtVars
  /\ UpdateInterestRates(amount, 0)
  /\ cash' = cash + amount
  /\ UNCHANGED <<reserveFactor, flags, now>>

Withdraw_NotFrozen(account, amount) ==  \* mutant: a freeze stops withdrawals
  LET burned == RayDiv(amount, AccruedLiquidityIndex) IN
  /\ amount # 0
  /\ amount <= BalanceOf(account)
  /\ flags.active /\ ~flags.frozen
  /\ UpdateIndexes
  /\ burned # 0
  /\ TokensChange(account, -burned)
  /\ UNCHANGED debtVars
  /\ UpdateInterestRates(0, amount)
  /\ cash' = cash - amount
  /\ UNCHANGED <<reserveFactor, flags, now>>

(***************************************************************************)
(* SupplyLogic.executeWithdraw, BToken.burn.  The balance is checked with  *)
(* the view before the indexes are updated, the burn uses them after.      *)
(***************************************************************************)
Withdraw(account, amount) ==
  LET burned == RayDiv(amount, AccruedLiquidityIndex) IN
  /\ amount # 0
  /\ amount <= BalanceOf(account)
  /\ flags.active
  /\ UpdateIndexes
  /\ burned # 0
  /\ TokensChange(account, -burned)
  /\ UNCHANGED debtVars
  /\ UpdateInterestRates(0, amount)
  /\ cash' = cash - amount
  /\ UNCHANGED <<reserveFactor, flags, now>>

(* type(uint256).max as the amount: the whole balance *)
WithdrawAll(account) == Withdraw(account, BalanceOf(account))

UtilizationAllowed(amount) ==
  LET debt == RayMul(debtSupply, AccruedBorrowIndex) + amount
  IN RayDiv(debt, cash + debt) <= MaxUtilizationRate

(* BorrowLogic._borrow and the reserve's part of validateBorrow *)
Borrow(user, amount) ==
  LET minted == RayDiv(amount, AccruedBorrowIndex) IN
  /\ amount > 0
  /\ flags.active /\ ~flags.frozen /\ flags.borrowingEnabled
  /\ UtilizationAllowed(amount)
  /\ UpdateIndexes
  /\ TokensChange(Treasury, 0)
  /\ minted # 0
  /\ DebtChange(user, minted)
  /\ UpdateInterestRates(0, amount)
  /\ cash' = cash - amount
  /\ UNCHANGED <<reserveFactor, flags, now>>

(***************************************************************************)
(* BorrowLogic._repay; with less than the debt also executeRedeem, with    *)
(* all of it executeLiquidate: a payment comes in and burns debt.          *)
(***************************************************************************)
Repay(user, amount) ==
  LET debt == RayMul(debtBalance[user], AccruedBorrowIndex)
      paid == IF amount < debt THEN amount ELSE debt
      burned == RayDiv(paid, AccruedBorrowIndex)
  IN
  /\ flags.active
  /\ amount > 0 /\ debt > 0
  /\ UpdateIndexes
  /\ TokensChange(Treasury, 0)
  /\ burned # 0
  /\ DebtChange(user, -burned)
  /\ UpdateInterestRates(paid, 0)
  /\ cash' = cash + paid
  /\ UNCHANGED <<reserveFactor, flags, now>>

(* LiquidateLogic.executeAuction: the bid stays in the pool. *)
Auction(user) ==
  /\ flags.active
  /\ debtBalance[user] > 0
  /\ UpdateIndexes
  /\ TokensChange(Treasury, 0)
  /\ UNCHANGED debtVars
  /\ UpdateInterestRates(0, 0)
  /\ UNCHANGED <<cash, reserveFactor, flags, now>>

(* BToken._transfer: a payment among depositors accrues nothing. *)
Transfer(from, to, amount) ==
  LET moved == RayDiv(amount, NormalizedIncome)
      paid == [bTokenBalance EXCEPT ![from] = @ - moved]
  IN
  /\ moved <= bTokenBalance[from]
  /\ bTokenBalance' = [paid EXCEPT ![to] = @ + moved]
  /\ UNCHANGED <<indexVars, rateVars, bTokenSupply, debtVars, cash,
                 reserveFactor, flags, now>>

-----------------------------------------------------------------------------
(* LendPoolConfigurator.setReserveFactor *)
SetReserveFactor(factor) ==
  /\ reserveFactor' = factor
  /\ UNCHANGED <<indexVars, rateVars, bTokenVars, debtVars, cash, flags, now>>

NoLiquidity_CashOnly == cash = 0  \* mutant: the rate is not looked at

(* LendPoolConfigurator._checkReserveNoLiquidity *)
NoLiquidity == cash = 0 /\ currentLiquidityRate = 0

(* setActiveFlagOnReserve, setFreezeFlagOnReserve, setBorrowingFlagOnReserve *)
SetFlag(field, flag) ==
  /\ field = "active" /\ ~flag => NoLiquidity
  /\ flags' = [flags EXCEPT ![field] = flag]
  /\ UNCHANGED <<indexVars, rateVars, bTokenVars, debtVars, cash,
                 reserveFactor, now>>

Tick ==
  /\ now < MaxTime
  /\ now' = now + 1
  /\ UNCHANGED <<indexVars, rateVars, bTokenVars, debtVars, cash,
                 reserveFactor, flags>>

PoolStep ==
  \/ \E u \in Users, a \in Amounts : Deposit(u, a)
  \/ \E x \in Accounts, a \in Amounts : Withdraw(x, a)
  \/ \E x \in Accounts : WithdrawAll(x)
  \/ \E u \in Users, a \in Amounts : Borrow(u, a)
  \/ \E u \in Users, a \in Amounts : Repay(u, a)
  \/ \E u \in Users : Auction(u)
  \/ \E x, y \in Accounts, a \in TransferAmounts : Transfer(x, y, a)

AdminStep ==
  \/ \E f \in ReserveFactors : SetReserveFactor(f)
  \/ \E field \in AdminFlags, flag \in BOOLEAN : SetFlag(field, flag)

Next ==
  \/ /\ PoolStep
     /\ transactions < MaxTransactions
     /\ transactions' = transactions + 1
  \/ /\ AdminStep \/ Tick
     /\ UNCHANGED transactions

Spec == Init /\ [][Next]_vars

-----------------------------------------------------------------------------
TypeOK ==
  /\ liquidityIndex \in Nat /\ liquidityIndex >= Ray
  /\ variableBorrowIndex \in Nat /\ variableBorrowIndex >= Ray
  /\ currentLiquidityRate \in Nat
  /\ currentVariableBorrowRate \in Nat
  /\ lastUpdateTimestamp \in Nat /\ lastUpdateTimestamp <= now
  /\ reserveFactor \in ReserveFactors
  /\ flags \in Flags
  /\ bTokenBalance \in [Accounts -> Nat]
  /\ bTokenSupply \in Nat
  /\ debtBalance \in [Users -> Nat]
  /\ debtSupply \in Nat
  /\ cash \in Nat
  /\ now \in Nat
  /\ transactions \in Nat

(***************************************************************************)
(* The supplies, from which interest, rates and the treasury's share are   *)
(* computed, are the sums of the balances, from which the users are paid   *)
(* and charged: what is minted for the treasury in the middle of a         *)
(* transaction neither gets lost nor counts twice, also when the treasury  *)
(* itself deposits, withdraws or is paid.                                  *)
(***************************************************************************)
SuppliesAreSums ==
  /\ bTokenSupply = SumFunctionOnSet(bTokenBalance, Accounts)
  /\ debtSupply = SumFunctionOnSet(debtBalance, Users)

(* What depositors and treasury can claim, what the reserve has or is owed *)
Claims == RayMul(bTokenSupply, liquidityIndex)
Assets == cash + RayMul(debtSupply, variableBorrowIndex)

(* What depositors are credited and nobody owes earns interest as well. *)
InterestOnUnbacked ==
  (IF Claims > Assets THEN Claims - Assets ELSE 0)
    * (LinearInterest(currentLiquidityRate) - Ray)

(***************************************************************************)
(* What the roundings of one transaction can add to the claims, in rays: a *)
(* few units of the asset and, once a year, one more for the rate over all *)
(* borrowers; two units of each index for the amounts scaled by it; one    *)
(* unit of each index per scaled token, for the roundings of the indexes;  *)
(* and the roundings of the rates, of which the one per second is cut off  *)
(* after the last digit: four digits a second on all the assets.           *)
(***************************************************************************)
Roundings ==
  LET elapsed == now - lastUpdateTimestamp IN
  Ray * (4 + elapsed \div SecondsPerYear)
    + 2 * (liquidityIndex' + variableBorrowIndex')
    + bTokenSupply + debtSupply
    + Assets * (4 * elapsed + variableBorrowIndex' \div Ray)

(***************************************************************************)
(* The interest that borrowers are charged pays for the interest that      *)
(* depositors and treasury are credited: no transaction makes claims grow  *)
(* over assets by more than its roundings.  (Depositors earn linearly at   *)
(* one rate, borrowers owe compounded at another, the treasury takes a     *)
(* share of the difference, and the rates are those of the last            *)
(* transaction.)                                                           *)
(***************************************************************************)
NoUnbackedClaims ==
  [][Ray * (Claims - Assets)'
       <= Ray * (Claims - Assets) + InterestOnUnbacked + Roundings]_vars

(***************************************************************************)
(* Between transactions the borrow rate is that of the actual utilization: *)
(* updateInterestRates runs before the money has moved and in most         *)
(* transactions before or after the tokens have been minted, and still     *)
(* charges for the state that the transaction leaves.                      *)
(***************************************************************************)
RatesCurrent ==
  lastUpdateTimestamp > 0 =>
    currentVariableBorrowRate =
      VariableBorrowRate(
        UtilizationRate(cash, RayMul(debtSupply, variableBorrowIndex)))

(***************************************************************************)
(* Neither index ever falls.  It is what LendPool's UpdateState assumes of *)
(* the borrow index, and what keeps every scaled balance worth its price.  *)
(***************************************************************************)
IndexesGrow ==
  [][/\ liquidityIndex' >= liquidityIndex
     /\ variableBorrowIndex' >= variableBorrowIndex]_vars

(***************************************************************************)
(* Withdrawing the whole balance leaves no bTokens behind, although the    *)
(* amount comes from a view that is read before the indexes are updated.   *)
(***************************************************************************)
WithdrawAllEmpties ==
  [][\A u \in Users : WithdrawAll(u) => bTokenBalance'[u] = 0]_vars

(***************************************************************************)
(* A depositor whose balance the reserve's cash covers can withdraw it at  *)
(* once, whatever was lent, repaid, transferred or configured before.      *)
(***************************************************************************)
DepositorsCanLeave ==
  \A x \in Accounts :
    (bTokenBalance[x] > 0 /\ flags.active /\ cash >= BalanceOf(x))
      => ENABLED WithdrawAll(x)

(***************************************************************************)
(* A reserve that has been deactivated is owed nothing: repay, redeem and  *)
(* liquidate would be closed to the borrowers ("The liquidity of the       *)
(* reserve needs to be 0", LPC_RESERVE_LIQUIDITY_NOT_0).                   *)
(***************************************************************************)
InactiveReserveOwedNothing == ~flags.active => debtSupply = 0

(***************************************************************************)
(* The cap on the utilization rate (validateBorrow, "check utilization     *)
(* rate"): after a borrowing the utilization is not above it.              *)
(***************************************************************************)
UtilizationCapped ==
  [][debtSupply' > debtSupply =>
       UtilizationRate(cash', RayMul(debtSupply', variableBorrowIndex'))
         <= MaxUtilizationRate]_vars

(***************************************************************************)
(* The debt that the views show ("the ongoing normalized variable debt",   *)
(* getNormalizedDebt) is the debt that a transaction would find.           *)
(***************************************************************************)
DebtViewHonest == debtSupply > 0 => NormalizedDebt = AccruedBorrowIndex
=============================================================================
