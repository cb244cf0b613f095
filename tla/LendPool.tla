------------------------------ MODULE LendPool ------------------------------
(***************************************************************************)
(* The lending pool: contracts/protocol/LendPool.sol with the libraries    *)
(* it delegates to (BorrowLogic, LiquidateLogic, ValidationLogic,          *)
(* GenericLogic), the debt token, and the administrator's calls that       *)
(* reach it through LendPoolConfigurator.  Borrowers pledge an NFT for a   *)
(* loan, anyone repays, under-collateralized loans are auctioned, redeemed *)
(* or liquidated.                                                          *)
(*                                                                         *)
(* An action is one transaction: the pool is nonReentrant and a failed     *)
(* require reverts everything, so a transaction happens as a whole or not  *)
(* at all.  Interest is abstracted to a borrow index that any transaction  *)
(* may find higher than the last one left it (UpdateState).  The reserve's *)
(* liquidity is not modelled here: the checks that only it decides (enough *)
(* cash, maximal utilization) can make a transaction of this module revert *)
(* but change none of the state below.  So are the payers' own balances.   *)
(***************************************************************************)
EXTENDS LendPoolLoan

CONSTANTS
  Amounts,          \* bound: the amounts borrowed, repaid, redeemed, added
  Delegations,      \* bound: the allowances given to other borrowers
  BidPrices,        \* bound: the bids
  NftPrices,        \* bound: the oracle's prices
  CollateralConfigs,\* the administrator's inputs to configureNftAsCollateral,
  AuctionConfigs,   \*   to configureNftAsAuction,
  BatchConfigs,     \*   to batchConfigNft,
  PausedTimes,      \*   and to setPoolPausedTime, as <<start, duration>>
  AdminSwitches,    \* which of the flags of SwitchFlag the administrators use
  InitialConfig,    \* the parameters the collection is listed with
  MaxIndex,         \* bound: the highest borrow index
  MaxTime           \* bound: the last timestamp, in hours

VARIABLES
  borrowIndex,       \* ReserveData.variableBorrowIndex
  debtBalance,       \* DebtToken: scaled balances, per reserve and user
  borrowAllowance,   \* DebtToken._borrowAllowances[delegator][delegatee]
  poolBalance,       \* what the pool itself holds of each reserve asset: bids
  nftPrice,          \* the collection's price in units of each reserve asset
  isPriceStale,      \* NFTOracle.isPriceStale
  nftConfig,         \* NftData.configuration with its limits
  reserveConfig,     \* ReserveData.configuration: the three flags
  paused,            \* LendPoolStorage._paused
  pauseStartTime,    \* LendPoolStorageExt._pauseStartTime
  pauseDurationTime, \* LendPoolStorageExt._pauseDurationTime
  now                \* block.timestamp

debtVars == <<borrowIndex, debtBalance, borrowAllowance, poolBalance>>
oracleVars == <<nftPrice, isPriceStale>>
configVars == <<nftConfig, reserveConfig>>
pauseVars == <<paused, pauseStartTime, pauseDurationTime>>
vars == <<loanVars, debtVars, oracleVars, configVars, pauseVars, now>>

CollateralParams ==
  [ltv: Nat, liquidationThreshold: Nat, liquidationBonus: Nat]
AuctionParams == [redeemDuration: Nat, auctionDuration: Nat]
NftParams ==
  [ltv: Nat, liquidationThreshold: Nat, liquidationBonus: Nat,
   redeemDuration: Nat, auctionDuration: Nat, redeemThreshold: Nat,
   maxCollateralCap: Nat,
   eligible: SUBSET Nfts]  \* tokens within maxTokenId, supply within maxSupply
NftConfig ==
  [active: BOOLEAN, frozen: BOOLEAN,
   ltv: Nat, liquidationThreshold: Nat, liquidationBonus: Nat,
   redeemDuration: Nat, auctionDuration: Nat, redeemThreshold: Nat,
   maxCollateralCap: Nat, eligible: SUBSET Nfts]
ReserveConfig == [active: BOOLEAN, frozen: BOOLEAN, borrowingEnabled: BOOLEAN]

(* The configurator's validation of its parameters *)
ValidCollateralParams(c) ==
  /\ c.ltv <= c.liquidationThreshold
  /\ IF c.liquidationThreshold # 0 THEN c.liquidationBonus <= PercentFactor
                                   ELSE c.liquidationBonus = 0
ValidAuctionParams_Any(c) == TRUE  \* mutant: no validation

ValidAuctionParams(c) == c.redeemDuration <= c.auctionDuration

ASSUME InputAssumption ==
  /\ Amounts \subseteq Nat
  /\ Delegations \subseteq Nat
  /\ BidPrices \subseteq Nat
  /\ NftPrices \subseteq Nat
  /\ CollateralConfigs \subseteq CollateralParams
  /\ AuctionConfigs \subseteq AuctionParams
  /\ BatchConfigs \subseteq NftParams
  /\ PausedTimes \subseteq Nat \X Nat
  /\ MaxIndex \in Nat /\ MaxIndex >= Ray
  /\ MaxTime \in Nat

ASSUME ListingAssumption ==
  /\ InitialConfig \in NftParams
  /\ ValidCollateralParams(InitialConfig)
  /\ ValidAuctionParams(InitialConfig)

Listed(params, active, frozen) ==
  [active |-> active, frozen |-> frozen, ltv |-> params.ltv,
   liquidationThreshold |-> params.liquidationThreshold,
   liquidationBonus |-> params.liquidationBonus,
   redeemDuration |-> params.redeemDuration,
   auctionDuration |-> params.auctionDuration,
   redeemThreshold |-> params.redeemThreshold,
   maxCollateralCap |-> params.maxCollateralCap,
   eligible |-> params.eligible]

Init ==
  /\ LoanInit
  /\ borrowIndex = [r \in Reserves |-> Ray]
  /\ debtBalance = [r \in Reserves |-> [u \in Users |-> 0]]
  /\ borrowAllowance =
       [r \in Reserves |-> [u \in Users |-> [v \in Users |-> 0]]]
  /\ poolBalance = [r \in Reserves |-> 0]
  /\ nftPrice \in [Reserves -> NftPrices]
  /\ isPriceStale = FALSE
  /\ nftConfig = Listed(InitialConfig, TRUE, FALSE)
  /\ reserveConfig = [r \in Reserves |->
       [active |-> TRUE, frozen |-> FALSE, borrowingEnabled |-> TRUE]]
  /\ paused = FALSE
  /\ pauseStartTime = 0
  /\ pauseDurationTime = 0
  /\ now = 1

-----------------------------------------------------------------------------
(***************************************************************************)
(* GenericLogic: what a loan owes and what its NFT is worth, in units of   *)
(* the loan's reserve asset.                                               *)
(***************************************************************************)
ThresholdPrice(reserve) ==
  PercentMul(nftPrice[reserve], nftConfig.liquidationThreshold)

(* The lowest acceptable first bid: the discounted price, or the debt. *)
LiquidatePrice(reserve, debt) ==
  LET discounted ==
        IF nftConfig.liquidationBonus < PercentFactor
        THEN PercentMul(nftPrice[reserve],
                        PercentFactor - nftConfig.liquidationBonus)
        ELSE 0
  IN IF discounted < debt THEN debt ELSE discounted

HealthFactorAboveOne(reserve, debt) ==
  debt > 0 => WadDiv(ThresholdPrice(reserve), debt) > Wad

ExtraDuration_Strict(loan) ==  \* mutant: < for <=
  IF pauseDurationTime > 0 /\ loan.bidStartTimestamp < pauseStartTime
  THEN pauseDurationTime ELSE 0

(* A pause prolongs the auctions that had started when it began. *)
ExtraDuration(loan) ==
  IF pauseDurationTime > 0 /\ loan.bidStartTimestamp <= pauseStartTime
  THEN pauseDurationTime ELSE 0

AuctionEndTimestamp(loan) ==
  loan.bidStartTimestamp + ExtraDuration(loan) + nftConfig.auctionDuration

RedeemEndTimestamp(loan) ==
  loan.bidStartTimestamp + ExtraDuration(loan) + nftConfig.redeemDuration

-----------------------------------------------------------------------------
(* ReserveLogic.updateState: the index after the interest due so far *)
UpdateState(reserve, index) ==
  /\ index \in borrowIndex[reserve]..MaxIndex
  /\ borrowIndex' = [borrowIndex EXCEPT ![reserve] = index]

(* DebtToken.mint: who is not the debtor himself spends his allowance. *)
MintDebt(reserve, initiator, onBehalfOf, amount, index) ==
  LET scaled == RayDiv(amount, index) IN
  /\ IF initiator = onBehalfOf
     THEN UNCHANGED borrowAllowance
     ELSE /\ borrowAllowance[reserve][onBehalfOf][initiator] >= amount
          /\ borrowAllowance' = [borrowAllowance EXCEPT
               ![reserve][onBehalfOf][initiator] = @ - amount]
  /\ scaled # 0
  /\ debtBalance' = [debtBalance EXCEPT ![reserve][onBehalfOf] = @ + scaled]

BurnDebt_RoundedDown(reserve, user, amount, index) ==  \* mutant: truncates
  LET scaled == (amount * Ray) \div index IN
  /\ scaled # 0
  /\ debtBalance[reserve][user] >= scaled
  /\ debtBalance' = [debtBalance EXCEPT ![reserve][user] = @ - scaled]
  /\ UNCHANGED borrowAllowance

(* DebtToken.burn *)
BurnDebt(reserve, user, amount, index) ==
  LET scaled == RayDiv(amount, index) IN
  /\ scaled # 0
  /\ debtBalance[reserve][user] >= scaled
  /\ debtBalance' = [debtBalance EXCEPT ![reserve][user] = @ - scaled]
  /\ UNCHANGED borrowAllowance

(* The part of every validate function that concerns the flags *)
ReserveAndNftActive(reserve) == reserveConfig[reserve].active /\ nftConfig.active

AmountOfCollateralNeeded_NewOnly(debt, amount) ==  \* mutant: old debt ignored
  PercentDiv(amount, nftConfig.ltv)

AmountOfCollateralNeeded(debt, amount) == PercentDiv(debt + amount, nftConfig.ltv)

(* ValidationLogic.validateBorrow, its utilization check excepted *)
ValidateBorrow(user, reserve, n, amount, index) ==
  LET id == nftToLoanIds[n]
      collateral == nftPrice[reserve]
      debt == IF id = 0 THEN 0 ELSE BorrowAmount(loans[id], index)
  IN
  /\ amount > 0
  /\ id # 0 => /\ loans[id].state = "Active"
               /\ loans[id].reserveAsset = reserve
               /\ loans[id].borrower = user
  /\ ReserveAndNftActive(reserve)
  /\ ~reserveConfig[reserve].frozen
  /\ reserveConfig[reserve].borrowingEnabled
  /\ ~nftConfig.frozen
  /\ ~isPriceStale
  /\ collateral > 0
  /\ HealthFactorAboveOne(reserve, debt)
  /\ nftConfig.ltv # 0
  /\ AmountOfCollateralNeeded(debt, amount) <= collateral

(* LendPool.borrow / BorrowLogic._borrow *)
Borrow(initiator, onBehalfOf, reserve, n, amount) ==
  \E index \in Ray..MaxIndex :
    /\ ~paused
    /\ UpdateState(reserve, index)
    /\ n \in nftConfig.eligible
    /\ ValidateBorrow(onBehalfOf, reserve, n, amount, index)
    /\ \/ /\ nftToLoanIds[n] = 0
          /\ bnftTotalSupply < nftConfig.maxCollateralCap
          /\ nftOwner[n] = initiator
          /\ CreateLoan(onBehalfOf, n, reserve, amount, index)
       \/ /\ nftToLoanIds[n] # 0
          /\ AddToLoan(nftToLoanIds[n], amount, index)
    /\ MintDebt(reserve, initiator, onBehalfOf, amount, index)
    /\ UNCHANGED <<poolBalance, oracleVars, configVars, pauseVars, now>>

(***************************************************************************)
(* LendPool.repay / BorrowLogic._repay.  Anybody may repay.  Less than the *)
(* debt is taken from the loan; the whole debt or more closes it and the   *)
(* NFT goes to the borrower.                                               *)
(***************************************************************************)
Repay(n, amount) ==
  LET id == nftToLoanIds[n]
      loan == loans[id]
      reserve == loan.reserveAsset
  IN
  /\ ~paused
  /\ id # 0
  /\ \E index \in Ray..MaxIndex :
       LET debt == BorrowAmount(loan, index) IN
       /\ UpdateState(reserve, index)
       /\ ReserveAndNftActive(reserve)
       /\ amount > 0
       /\ debt > 0
       /\ loan.state = "Active"
       /\ \/ /\ amount < debt
             /\ TakeFromLoan(id, amount, index)
             /\ BurnDebt(reserve, loan.borrower, amount, index)
          \/ /\ amount >= debt
             /\ RepayLoan(id, loan.borrower)
             /\ BurnDebt(reserve, loan.borrower, debt, index)
  /\ UNCHANGED <<poolBalance, oracleVars, configVars, pauseVars, now>>

Refund_Never(loan) == 0  \* mutant: the beaten bid stays in the pool

(* What the bidder who is beaten gets back *)
Refund(loan) == IF loan.bidderAddress # ZeroAddress THEN loan.bidPrice ELSE 0

(***************************************************************************)
(* LendPool.auction / LiquidateLogic.executeAuction.  The bid moves into   *)
(* the pool and the bid it beats goes back to its bidder.                  *)
(***************************************************************************)
Auction(n, onBehalfOf, bidPrice) ==
  LET id == nftToLoanIds[n]
      loan == loans[id]
      reserve == loan.reserveAsset
  IN
  /\ ~paused
  /\ id # 0
  /\ ReserveAndNftActive(reserve)
  /\ IsOpen(loan)
  /\ bidPrice > 0
  /\ \E index \in Ray..MaxIndex :
       LET debt == BorrowAmount(loan, index) IN
       /\ UpdateState(reserve, index)
       /\ bidPrice >= debt
       /\ IF loan.state = "Active"
          THEN /\ debt > ThresholdPrice(reserve)
               /\ bidPrice >= LiquidatePrice(reserve, debt)
          ELSE /\ now <= AuctionEndTimestamp(loan)
               /\ bidPrice >= loan.bidPrice + PercentMul(debt, OnePercent)
  /\ AuctionLoan(id, onBehalfOf, bidPrice, now)
  /\ poolBalance[reserve] + bidPrice >= Refund(loan)
  /\ poolBalance' = [poolBalance EXCEPT ![reserve] = @ + bidPrice - Refund(loan)]
  /\ UNCHANGED <<debtBalance, borrowAllowance, oracleVars, configVars,
                 pauseVars, now>>

(***************************************************************************)
(* LendPool.redeem / LiquidateLogic.executeRedeem.  Part of the debt is    *)
(* repaid, the auction ends and the bidder gets his bid back.  The bid     *)
(* fine goes straight from the payer to the first bidder, so neither it    *)
(* nor the payer's own limit on it appears here.                           *)
(***************************************************************************)
Redeem(n, amount) ==
  LET id == nftToLoanIds[n]
      loan == loans[id]
      reserve == loan.reserveAsset
  IN
  /\ ~paused
  /\ id # 0
  /\ ReserveAndNftActive(reserve)
  /\ loan.state = "Auction"
  /\ loan.bidderAddress # ZeroAddress
  /\ amount > 0
  /\ now <= RedeemEndTimestamp(loan)
  /\ \E index \in Ray..MaxIndex :
       LET debt == BorrowAmount(loan, index) IN
       /\ UpdateState(reserve, index)
       /\ amount >= PercentMul(debt, nftConfig.redeemThreshold)
       /\ amount <= PercentMul(debt, PercentFactor - TenPercent)
       /\ RedeemLoan(id, amount, index)
       /\ BurnDebt(reserve, loan.borrower, amount, index)
  /\ poolBalance[reserve] >= loan.bidPrice
  /\ poolBalance' = [poolBalance EXCEPT ![reserve] = @ - loan.bidPrice]
  /\ UNCHANGED <<oracleVars, configVars, pauseVars, now>>

(***************************************************************************)
(* LendPool.liquidate / LiquidateLogic.executeLiquidate.  The bid pays the *)
(* debt; the caller adds what is missing (at most "amount"), the borrower  *)
(* gets what is left, the bidder gets the NFT.                             *)
(***************************************************************************)
Liquidate(n, amount) ==
  LET id == nftToLoanIds[n]
      loan == loans[id]
      reserve == loan.reserveAsset
  IN
  /\ ~paused
  /\ id # 0
  /\ ReserveAndNftActive(reserve)
  /\ loan.state = "Auction"
  /\ loan.bidderAddress # ZeroAddress
  /\ now > AuctionEndTimestamp(loan)
  /\ \E index \in Ray..MaxIndex :
       LET debt == BorrowAmount(loan, index)
           extraDebt == IF loan.bidPrice < debt THEN debt - loan.bidPrice ELSE 0
           remain == IF loan.bidPrice > debt THEN loan.bidPrice - debt ELSE 0
       IN
       /\ UpdateState(reserve, index)
       /\ amount >= extraDebt
       /\ LiquidateLoan(id, loan.bidderAddress)
       /\ BurnDebt(reserve, loan.borrower, debt, index)
       /\ poolBalance[reserve] + extraDebt >= debt + remain
       /\ poolBalance' = [poolBalance EXCEPT
            ![reserve] = @ + extraDebt - debt - remain]
  /\ UNCHANGED <<oracleVars, configVars, pauseVars, now>>

(* DebtToken.approveDelegation *)
ApproveDelegation(reserve, delegator, delegatee, amount) ==
  /\ borrowAllowance' = [borrowAllowance EXCEPT
       ![reserve][delegator][delegatee] = amount]
  /\ UNCHANGED <<loanVars, borrowIndex, debtBalance, poolBalance, oracleVars,
                 configVars, pauseVars, now>>

-----------------------------------------------------------------------------
(* LendPool.setPause, from the configurator's setPoolPause *)
SetPause(val) ==
  /\ paused # val
  /\ paused' = val
  /\ IF val
     THEN pauseStartTime' = now /\ UNCHANGED pauseDurationTime
     ELSE /\ pauseDurationTime' = now - pauseStartTime
          /\ pauseStartTime <= now
          /\ UNCHANGED pauseStartTime
  /\ UNCHANGED <<loanVars, debtVars, oracleVars, configVars, now>>

(* LendPool.setPausedTime: the emergency administrator sets both directly. *)
SetPausedTime(startTime, durationTime) ==
  /\ pauseStartTime' = startTime
  /\ pauseDurationTime' = durationTime
  /\ UNCHANGED <<loanVars, debtVars, oracleVars, configVars, paused, now>>

ConfigureNftAsCollateral(c) ==
  /\ ValidCollateralParams(c)
  /\ nftConfig' = [nftConfig EXCEPT
       !.ltv = c.ltv, !.liquidationThreshold = c.liquidationThreshold,
       !.liquidationBonus = c.liquidationBonus]
  /\ UNCHANGED <<loanVars, debtVars, oracleVars, reserveConfig, pauseVars, now>>

ConfigureNftAsAuction(c) ==
  /\ ValidAuctionParams(c)
  /\ nftConfig' = [nftConfig EXCEPT
       !.redeemDuration = c.redeemDuration, !.auctionDuration = c.auctionDuration]
  /\ UNCHANGED <<loanVars, debtVars, oracleVars, reserveConfig, pauseVars, now>>

(***************************************************************************)
(* ConfiguratorLogic.executeBatchConfigNft sets every parameter at once.   *)
(* It validates the collateral parameters but not the auction durations.   *)
(* With an input that changes one field it also stands for                 *)
(* setNftRedeemThreshold, setNftMaxSupplyAndTokenId and                    *)
(* setNftMaxCollateralCap.                                                 *)
(***************************************************************************)
BatchConfigNft(params) ==
  /\ ValidCollateralParams(params)
  /\ nftConfig' = Listed(params, nftConfig.active, nftConfig.frozen)
  /\ UNCHANGED <<loanVars, debtVars, oracleVars, reserveConfig, pauseVars, now>>

SetActiveFlagOnNft_Unchecked(flag) ==  \* mutant: no _checkNftNoLiquidity
  /\ nftConfig' = [nftConfig EXCEPT !.active = flag]
  /\ UNCHANGED <<loanVars, debtVars, oracleVars, reserveConfig, pauseVars, now>>

(* setActiveFlagOnNft: a collection with open loans cannot be deactivated. *)
SetActiveFlagOnNft(flag) ==
  /\ ~flag => nftTotalCollateral = 0
  /\ nftConfig' = [nftConfig EXCEPT !.active = flag]
  /\ UNCHANGED <<loanVars, debtVars, oracleVars, reserveConfig, pauseVars, now>>

SetFreezeFlagOnNft(flag) ==
  /\ nftConfig' = [nftConfig EXCEPT !.frozen = flag]
  /\ UNCHANGED <<loanVars, debtVars, oracleVars, reserveConfig, pauseVars, now>>

(***************************************************************************)
(* setActiveFlagOnReserve, setFreezeFlagOnReserve and                      *)
(* setBorrowingFlagOnReserve.  A reserve can only be deactivated when it   *)
(* has no liquidity, which this module leaves open.                        *)
(***************************************************************************)
SetReserveFlag(reserve, field, flag) ==
  /\ reserveConfig' = [reserveConfig EXCEPT ![reserve][field] = flag]
  /\ UNCHANGED <<loanVars, debtVars, oracleVars, nftConfig, pauseVars, now>>

(* The oracle's owner or administrator reports a price or marks it stale. *)
SetNftPrice(reserve, price) ==
  /\ nftPrice' = [nftPrice EXCEPT ![reserve] = price]
  /\ UNCHANGED <<loanVars, debtVars, isPriceStale, configVars, pauseVars, now>>

SetPriceStale(stale) ==
  /\ isPriceStale' = stale
  /\ UNCHANGED <<loanVars, debtVars, nftPrice, configVars, pauseVars, now>>

Tick ==
  /\ now < MaxTime
  /\ now' = now + 1
  /\ UNCHANGED <<loanVars, debtVars, oracleVars, configVars, pauseVars>>

-----------------------------------------------------------------------------
PoolStep ==
  \/ \E u, ob \in Users, r \in Reserves, n \in Nfts, a \in Amounts :
       Borrow(u, ob, r, n, a)
  \/ \E n \in Nfts, a \in Amounts : Repay(n, a)
  \/ \E n \in Nfts, ob \in Users, b \in BidPrices : Auction(n, ob, b)
  \/ \E n \in Nfts, a \in Amounts : Redeem(n, a)
  \/ \E n \in Nfts, a \in Amounts \cup {0} : Liquidate(n, a)

TokenStep ==
  \/ /\ \/ \E n \in Nfts, u, v \in Users : NftTransfer(n, u, v)
        \/ \E n \in Nfts, u \in Users : UserMintsBnft(u, n)
        \/ \E n \in Nfts, u \in Users : UserBurnsBnft(u, n)
     /\ UNCHANGED <<debtVars, oracleVars, configVars, pauseVars, now>>
  \/ \E r \in Reserves, u, v \in Users, a \in Delegations :
       ApproveDelegation(r, u, v, a)

AdminStep ==
  \/ \E val \in BOOLEAN : "pause" \in AdminSwitches /\ SetPause(val)
  \/ \E t \in PausedTimes : SetPausedTime(t[1], t[2])
  \/ \E c \in CollateralConfigs : ConfigureNftAsCollateral(c)
  \/ \E c \in AuctionConfigs : ConfigureNftAsAuction(c)
  \/ \E c \in BatchConfigs : BatchConfigNft(c)
  \/ \E flag \in BOOLEAN : "nft" \in AdminSwitches /\ SetActiveFlagOnNft(flag)
  \/ \E flag \in BOOLEAN : "nft" \in AdminSwitches /\ SetFreezeFlagOnNft(flag)
  \/ \E r \in Reserves, flag \in BOOLEAN,
        field \in {"active", "frozen", "borrowingEnabled"} :
       "reserve" \in AdminSwitches /\ SetReserveFlag(r, field, flag)

OracleStep ==
  \/ \E r \in Reserves, p \in NftPrices : SetNftPrice(r, p)
  \/ \E stale \in BOOLEAN : "oracle" \in AdminSwitches /\ SetPriceStale(stale)

Next == PoolStep \/ TokenStep \/ AdminStep \/ OracleStep \/ Tick

Spec == Init /\ [][Next]_vars

-----------------------------------------------------------------------------
TypeOK ==
  /\ LoanTypeOK
  /\ borrowIndex \in [Reserves -> Ray..MaxIndex]
  /\ debtBalance \in [Reserves -> [Users -> Nat]]
  /\ borrowAllowance \in [Reserves -> [Users -> [Users -> Nat]]]
  /\ poolBalance \in [Reserves -> Nat]
  /\ nftPrice \in [Reserves -> NftPrices]
  /\ isPriceStale \in BOOLEAN
  /\ nftConfig \in NftConfig
  /\ reserveConfig \in [Reserves -> ReserveConfig]
  /\ paused \in BOOLEAN
  /\ pauseStartTime \in Nat
  /\ pauseDurationTime \in Nat
  /\ now \in Nat \ {0}

(***************************************************************************)
(* The ledger's two indexes agree: a token's open loan is found under the  *)
(* token, is about that token, and no other loan of the token is open.     *)
(* (LendPoolLoan keeps _loans and _nftToLoanIds apart and five handlers     *)
(* update one or both.)                                                    *)
(***************************************************************************)
LoanBook ==
  /\ \A n \in Nfts : nftToLoanIds[n] # 0 =>
       LET loan == loans[nftToLoanIds[n]] IN IsOpen(loan) /\ loan.nft = n
  /\ \A id \in LoanIds : IsOpen(loans[id]) => nftToLoanIds[loans[id].nft] = id

(***************************************************************************)
(* Custody: the ledger is the minter of a bNFT exactly while the token     *)
(* backs an open loan; then the NFT is in the vault and the loan's         *)
(* borrower holds the bNFT.  Without a loan the NFT is with a user, or in  *)
(* the vault for the user who minted the bNFT himself: none is stranded.   *)
(***************************************************************************)
Custody ==
  \A n \in Nfts :
    /\ nftToLoanIds[n] # 0 =>
         /\ bnftMinter[n] = LoanAddress
         /\ bnftOwner[n] = loans[nftToLoanIds[n]].borrower
    /\ nftToLoanIds[n] = 0 => bnftMinter[n] # LoanAddress
    /\ nftOwner[n] = BnftAddress <=> bnftOwner[n] # ZeroAddress
    /\ bnftOwner[n] = ZeroAddress <=> bnftMinter[n] = ZeroAddress

(***************************************************************************)
(* Auction bookkeeping of an open loan: state, first-bid time, bidder,     *)
(* first bidder, bid and flash-loan lock say the same thing, although      *)
(* auctionLoan decides on the time, executeAuction on the state, the       *)
(* refund on the bidder; and a token without a loan is never left locked.  *)
(***************************************************************************)
AuctionBooks ==
  /\ \A id \in LoanIds : IsOpen(loans[id]) =>
       LET loan == loans[id]
           inAuction == loan.state = "Auction"
       IN
       /\ loan.bidStartTimestamp # 0 <=> inAuction
       /\ loan.bidderAddress # ZeroAddress <=> inAuction
       /\ loan.firstBidderAddress # ZeroAddress <=> inAuction
       /\ loan.bidPrice > 0 <=> inAuction
       /\ flashLoanLocking[loan.nft] <=> inAuction
       /\ loan.bidStartTimestamp <= now
  /\ \A n \in Nfts : flashLoanLocking[n] => nftToLoanIds[n] # 0

(***************************************************************************)
(* What the invariants above rest on.  Loans are created in the order of   *)
(* their ids, so the slots from the tracker on are untouched; and an open  *)
(* loan names a user, a token and a reserve, none of them address(0).      *)
(***************************************************************************)
FreshIds == \A id \in LoanIds : id >= loanIdTracker => loans[id] = EmptyLoan

OpenLoansNamed ==
  \A id \in LoanIds : IsOpen(loans[id]) =>
    /\ loans[id].borrower \in Users
    /\ loans[id].nft \in Nfts
    /\ loans[id].reserveAsset \in Reserves

(* The inductive invariant of the ledger *)
LedgerInv ==
  LoanTypeOK /\ FreshIds /\ OpenLoansNamed /\ LoanBook /\ Custody /\ AuctionBooks

(***************************************************************************)
(* The collateral counters count: _nftTotalCollateral, which guards the    *)
(* deactivation of the collection, and _userNftCollateral.                 *)
(***************************************************************************)
CollateralCounters ==
  /\ nftTotalCollateral = Cardinality({n \in Nfts : nftToLoanIds[n] # 0})
  /\ \A u \in Users : userNftCollateral[u] =
       Cardinality({n \in Nfts : nftToLoanIds[n] # 0 /\ bnftOwner[n] = u})

(***************************************************************************)
(* An auction's redeem window is over before its NFT can be liquidated:    *)
(* the validation in configureNftAsAuction says redeemDuration <=          *)
(* auctionDuration for that reason.                                        *)
(***************************************************************************)
WindowsDisjoint ==
  \A id \in LoanIds : loans[id].state = "Auction" =>
    (now <= RedeemEndTimestamp(loans[id]) => now <= AuctionEndTimestamp(loans[id]))

(***************************************************************************)
(* No collateral gets stuck: while the pool runs and the reserve is        *)
(* active, an Active loan with a debt can be repaid in full, and a loan    *)
(* whose auction is over can be liquidated, whatever happened before (the  *)
(* counters, the escrow, the debt balances and the minter check of the     *)
(* bNFT could each block it, and so could the collection's active flag).   *)
(***************************************************************************)
NoCollateralStuck ==
  \A n \in Nfts :
    LET loan == loans[nftToLoanIds[n]]
        most == BorrowAmount(loan, MaxIndex)
    IN (nftToLoanIds[n] # 0 /\ ~paused /\ reserveConfig[loan.reserveAsset].active) =>
         /\ (loan.state = "Active" /\ loan.scaledAmount > 0) => ENABLED Repay(n, most)
         /\ (loan.state = "Auction" /\ now > AuctionEndTimestamp(loan)) =>
              ENABLED Liquidate(n, most)

(***************************************************************************)
(* The life of a loan: an id is used once, a Repaid or Defaulted loan      *)
(* never changes again, only an auction ends in default and only an        *)
(* Active loan is repaid in full, and whose loan it is never changes.      *)
(***************************************************************************)
LifeStep(old, new) ==
  /\ old.state \in {"Repaid", "Defaulted"} => new = old
  /\ old.state = "None" => new.state \in {"None", "Active"}
  /\ old.state = "Active" => new.state \in {"Active", "Auction", "Repaid"}
  /\ old.state = "Auction" => new.state \in {"Auction", "Active", "Defaulted"}
  /\ old.state # "None" => /\ new.borrower = old.borrower
                           /\ new.nft = old.nft
                           /\ new.reserveAsset = old.reserveAsset

LoanLife == [][\A id \in LoanIds : LifeStep(loans[id], loans'[id])]_vars

(***************************************************************************)
(* While an auction runs its start and first bidder stay, bids only rise,  *)
(* and what the loan owes is not touched until it is redeemed or           *)
(* liquidated; none of the borrowing operations reaches into an auction.   *)
(***************************************************************************)
BidStep(old, new) ==
  (old.state = "Auction" /\ new.state = "Auction") =>
    /\ new.bidStartTimestamp = old.bidStartTimestamp
    /\ new.firstBidderAddress = old.firstBidderAddress
    /\ new.scaledAmount = old.scaledAmount
    /\ new # old => new.bidPrice > old.bidPrice

AuctionProgress == [][\A id \in LoanIds : BidStep(loans[id], loans'[id])]_vars

(***************************************************************************)
(* Pauses and auctions: when the pool is unpaused, every running auction   *)
(* is prolonged by exactly the length of that pause, and a new auction is  *)
(* never prolonged by a pause that was over when it began.  It needs that  *)
(* no auction starts during a pause.                                       *)
(***************************************************************************)
PauseProlongsAuctions ==
  [][\A id \in LoanIds : loans'[id].state = "Auction" =>
       /\ (paused /\ ~paused') => ExtraDuration(loans[id])' = now - pauseStartTime
       /\ loans[id].state # "Auction" => ExtraDuration(loans[id])' = 0]_vars

(***************************************************************************)
(* An open loan owes something: a repayment that takes all that is owed    *)
(* also closes the loan.  ("Repays a borrowed `amount` on a specific       *)
(* reserve, burning the equivalent loan owned", LendPool.repay.)           *)
(***************************************************************************)
OpenLoanOwes == \A id \in LoanIds : IsOpen(loans[id]) => loans[id].scaledAmount > 0

(***************************************************************************)
(* Borrowing never makes a loan that can be auctioned at once, at the      *)
(* prices and the index of the borrowing transaction: the configurator     *)
(* keeps ltv <= liquidationThreshold for that reason.  IndexUnit is what   *)
(* rounding the new scaled amount to a whole number can add to the debt.   *)
(***************************************************************************)
IndexUnit(index) == 1 + (index \div (2 * Ray))

NoInstantLiquidation ==
  [][\A id \in LoanIds :
       LET old == loans[id]
           new == loans'[id]
           reserve == new.reserveAsset
       IN new.scaledAmount > old.scaledAmount =>
            BorrowAmount(new, borrowIndex'[reserve])
              <= ThresholdPrice(reserve) + IndexUnit(borrowIndex'[reserve])]_vars
=============================================================================
