--------------------------- MODULE LendPoolProofs ---------------------------
(***************************************************************************)
(* The pool's invariants, for every set of users, tokens and reserves and  *)
(* every value of the parameters.  The inductive invariant is the type     *)
(* invariant with the ledger's LedgerInv; each transaction preserves the   *)
(* ledger's part by the lemma about the ledger operation it makes, and the *)
(* types of the pool's own variables by its guards: every subtraction is   *)
(* protected by a require.                                                 *)
(***************************************************************************)
EXTENDS LendPoolLoanProofs, LendPoolAccounting

Inv == TypeOK /\ LedgerInv

(* What the type invariant says of the pool's own variables *)
PoolTypeOK ==
  /\ borrowIndex \in [Reserves -> Ray..MaxIndex]
  /\ debtBalance \in [Reserves -> [Users -> Nat]]
  /\ borrowAllowance \in [Reserves -> [Users -> [Users -> Nat]]]
  /\ poolBalance \in [Reserves -> Nat]
  /\ nftPrice \in [Reserves -> NftPrices]
  /\ isPriceStale \in BOOLEAN
  /\ nftConfig \in NftConfig
  /\ reserveConfig \in [Reserves -> ReserveConfig]
  /\ paused \in BOOLEAN
  /\ pauseStartTime \in Nat
  /\ pauseDurationTime \in Nat
  /\ now \in Nat \ {0}

LEMMA InvParts == Inv <=> LedgerInv /\ PoolTypeOK
BY DEF Inv, TypeOK, LedgerInv, PoolTypeOK

LEMMA InvPartsPrime == Inv' <=> LedgerInv' /\ PoolTypeOK'
BY DEF Inv, TypeOK, LedgerInv, PoolTypeOK

LEMMA IndexType ==
  ASSUME NEW index \in Ray..MaxIndex
  PROVE  index \in Nat /\ index >= Ray /\ index > 0
BY RayAssumption, InputAssumption, SMT

-----------------------------------------------------------------------------
LEMMA ListedType ==
  ASSUME NEW params \in NftParams, NEW active \in BOOLEAN, NEW frozen \in BOOLEAN
  PROVE  Listed(params, active, frozen) \in NftConfig
BY DEF Listed, NftParams, NftConfig

LEMMA InitInv == Init => Inv
<1> SUFFICES ASSUME Init PROVE LedgerInv /\ PoolTypeOK
  BY InvParts
<1>1. LoanTypeOK
  <2>1. EmptyLoan \in LoanData
    BY DEF EmptyLoan, LoanData, LoanStates
  <2>2. 1 \in 1..(MaxLoans + 1) /\ 0 \in 0..MaxLoans
    BY MaxLoansAssumption, SMT
  <2> QED
    BY <2>1, <2>2 DEF Init, LoanInit, LoanTypeOK
<1>2. \A id \in LoanIds : ~IsOpen(loans[id])
  BY DEF Init, LoanInit, EmptyLoan, IsOpen
<1>3. FreshIds
  BY DEF Init, LoanInit, FreshIds
<1>4. OpenLoansNamed /\ LoanBook
  BY <1>2 DEF Init, LoanInit, OpenLoansNamed, LoanBook
<1>5. Custody
  BY AddressAssumption DEF Init, LoanInit, Custody
<1>6. AuctionBooks
  BY <1>2 DEF Init, LoanInit, AuctionBooks
<1>7. nftConfig \in NftConfig
  BY ListedType, ListingAssumption DEF Init
<1>8. borrowIndex \in [Reserves -> Ray..MaxIndex]
  BY RayAssumption, InputAssumption, SMT DEF Init
<1>9. reserveConfig \in [Reserves -> ReserveConfig]
  BY DEF Init, ReserveConfig
<1>10. /\ debtBalance \in [Reserves -> [Users -> Nat]]
       /\ borrowAllowance \in [Reserves -> [Users -> [Users -> Nat]]]
       /\ poolBalance \in [Reserves -> Nat]
  BY DEF Init
<1>11. /\ nftPrice \in [Reserves -> NftPrices]
       /\ isPriceStale \in BOOLEAN /\ paused \in BOOLEAN
       /\ pauseStartTime \in Nat /\ pauseDurationTime \in Nat
       /\ now \in Nat \ {0}
  <2>1. nftPrice \in [Reserves -> NftPrices]
    BY DEF Init
  <2>2. isPriceStale \in BOOLEAN /\ paused \in BOOLEAN
    BY Zenon DEF Init
  <2>3. pauseStartTime = 0 /\ pauseDurationTime = 0 /\ now = 1
    BY DEF Init
  <2> QED
    BY <2>1, <2>2, <2>3
<1>12. PoolTypeOK
  BY <1>7, <1>8, <1>9, <1>10, <1>11 DEF PoolTypeOK
<1> QED
  BY <1>1, <1>3, <1>4, <1>5, <1>6, <1>12 DEF LedgerInv

-----------------------------------------------------------------------------
(* The pool's own variables in the steps the transactions are made of *)
LEMMA UpdateStateType ==
  ASSUME PoolTypeOK, NEW reserve \in Reserves, NEW index \in Ray..MaxIndex,
         UpdateState(reserve, index)
  PROVE  borrowIndex' \in [Reserves -> Ray..MaxIndex]
BY DEF PoolTypeOK, UpdateState

LEMMA AllowanceType ==
  ASSUME PoolTypeOK, NEW r \in Reserves, NEW u \in Users, NEW v \in Users,
         NEW amount \in Nat
  PROVE  [borrowAllowance EXCEPT ![r][u][v] = amount]
           \in [Reserves -> [Users -> [Users -> Nat]]]
<1> DEFINE ofUser == [borrowAllowance[r][u] EXCEPT ![v] = amount]
           ofReserve == [borrowAllowance[r] EXCEPT ![u] = ofUser]
<1>1. ofUser \in [Users -> Nat]
  BY DEF PoolTypeOK
<1>2. ofReserve \in [Users -> [Users -> Nat]]
  BY <1>1 DEF PoolTypeOK
<1>3. [borrowAllowance EXCEPT ![r] = ofReserve]
        \in [Reserves -> [Users -> [Users -> Nat]]]
  BY <1>2 DEF PoolTypeOK
<1> QED
  BY <1>3

LEMMA MintDebtType ==
  ASSUME PoolTypeOK, NEW reserve \in Reserves, NEW initiator \in Users,
         NEW user \in Users, NEW amount \in Nat, NEW index \in Ray..MaxIndex,
         MintDebt(reserve, initiator, user, amount, index)
  PROVE  /\ debtBalance' \in [Reserves -> [Users -> Nat]]
         /\ borrowAllowance' \in [Reserves -> [Users -> [Users -> Nat]]]
<1>1. RayDiv(amount, index) \in Nat
  BY IndexType, RayDivType
<1>2. debtBalance' \in [Reserves -> [Users -> Nat]]
  BY <1>1, SMT DEF PoolTypeOK, MintDebt
<1>3. borrowAllowance' \in [Reserves -> [Users -> [Users -> Nat]]]
  <2>1. CASE initiator = user
    BY <2>1 DEF PoolTypeOK, MintDebt
  <2>2. CASE initiator # user
    <3>1. borrowAllowance[reserve][user][initiator] - amount \in Nat
      BY <2>2, SMT DEF PoolTypeOK, MintDebt
    <3> QED
      <4>1. borrowAllowance' =
              [borrowAllowance EXCEPT ![reserve][user][initiator] =
                 borrowAllowance[reserve][user][initiator] - amount]
        BY <2>2, Zenon DEF MintDebt
      <4> QED
        BY <3>1, <4>1, AllowanceType, Zenon
  <2> QED
    BY <2>1, <2>2
<1> QED
  BY <1>2, <1>3

LEMMA BurnDebtType ==
  ASSUME PoolTypeOK, NEW reserve \in Reserves, NEW user \in Users,
         NEW amount \in Nat, NEW index \in Ray..MaxIndex,
         BurnDebt(reserve, user, amount, index)
  PROVE  /\ debtBalance' \in [Reserves -> [Users -> Nat]]
         /\ borrowAllowance' \in [Reserves -> [Users -> [Users -> Nat]]]
<1>1. RayDiv(amount, index) \in Nat
  BY IndexType, RayDivType
<1>2. debtBalance[reserve][user] - RayDiv(amount, index) \in Nat
  BY <1>1, SMT DEF PoolTypeOK, BurnDebt
<1> QED
  BY <1>2 DEF PoolTypeOK, BurnDebt

LEMMA BorrowInv ==
  ASSUME Inv, NEW u \in Users, NEW ob \in Users, NEW r \in Reserves,
         NEW n \in Nfts, NEW a \in Amounts, Borrow(u, ob, r, n, a)
  PROVE  Inv'
<1>1. a \in Nat
  BY InputAssumption
<1>2. LedgerInv /\ PoolTypeOK /\ now \in Nat \ {0} /\ now' = now
  BY InvParts DEF PoolTypeOK, Borrow
<1>3. PICK index \in Ray..MaxIndex :
        /\ UpdateState(r, index)
        /\ \/ CreateLoan(ob, n, r, a, index)
           \/ nftToLoanIds[n] # 0 /\ AddToLoan(nftToLoanIds[n], a, index)
        /\ MintDebt(r, u, ob, a, index)
  BY DEF Borrow
<1>4. index \in Nat /\ index >= Ray
  BY IndexType
<1>5. LedgerInv'
  <2>1. CASE CreateLoan(ob, n, r, a, index)
    BY <2>1, <1>1, <1>2, <1>4, CreateLoanInv
  <2>2. CASE nftToLoanIds[n] # 0 /\ AddToLoan(nftToLoanIds[n], a, index)
    BY <2>2, <1>1, <1>2, <1>4, LoanOfToken, AddToLoanInv
  <2> QED
    BY <2>1, <2>2, <1>3
<1>6. PoolTypeOK'
  <2>1. /\ borrowIndex' \in [Reserves -> Ray..MaxIndex]
        /\ debtBalance' \in [Reserves -> [Users -> Nat]]
        /\ borrowAllowance' \in [Reserves -> [Users -> [Users -> Nat]]]
    BY <1>1, <1>2, <1>3, UpdateStateType, MintDebtType
  <2> QED
    BY <2>1, <1>2 DEF PoolTypeOK, Borrow, oracleVars, configVars, pauseVars
<1> QED
  BY <1>5, <1>6, InvPartsPrime

(* What the borrower owes is a natural number, whatever the index. *)
LEMMA DebtType ==
  ASSUME LedgerInv, NEW n \in Nfts, nftToLoanIds[n] # 0,
         NEW index \in Ray..MaxIndex
  PROVE  BorrowAmount(loans[nftToLoanIds[n]], index) \in Nat
<1>1. loans[nftToLoanIds[n]].scaledAmount \in Nat
  BY LoanOfToken DEF LoanData
<1> QED
  BY <1>1, IndexType, RayMulType DEF BorrowAmount

LEMMA RepayInv ==
  ASSUME Inv, NEW n \in Nfts, NEW a \in Amounts, Repay(n, a)
  PROVE  Inv'
<1> DEFINE id == nftToLoanIds[n]
           loan == loans[id]
           r == loan.reserveAsset
<1>1. a \in Nat /\ id # 0
  BY InputAssumption DEF Repay
<1>2. LedgerInv /\ PoolTypeOK /\ now \in Nat \ {0} /\ now' = now
  BY InvParts DEF PoolTypeOK, Repay
<1>3. id \in LoanIds /\ loan.borrower \in Users /\ r \in Reserves
  BY <1>1, <1>2, LoanOfToken
<1>4. PICK index \in Ray..MaxIndex :
        /\ UpdateState(r, index)
        /\ \/ /\ TakeFromLoan(id, a, index)
              /\ BurnDebt(r, loan.borrower, a, index)
           \/ /\ RepayLoan(id, loan.borrower)
              /\ BurnDebt(r, loan.borrower, BorrowAmount(loan, index), index)
  BY DEF Repay
<1>5. index \in Nat /\ index >= Ray /\ BorrowAmount(loan, index) \in Nat
  BY <1>1, <1>2, IndexType, DebtType
<1>6. LedgerInv'
  BY <1>1, <1>2, <1>3, <1>4, <1>5, TakeFromLoanInv, RepayLoanInv
<1>7. PoolTypeOK'
  <2>1. /\ borrowIndex' \in [Reserves -> Ray..MaxIndex]
        /\ debtBalance' \in [Reserves -> [Users -> Nat]]
        /\ borrowAllowance' \in [Reserves -> [Users -> [Users -> Nat]]]
    BY <1>1, <1>2, <1>3, <1>4, <1>5, UpdateStateType, BurnDebtType
  <2> QED
    BY <2>1, <1>2 DEF PoolTypeOK, Repay, oracleVars, configVars, pauseVars
<1> QED
  BY <1>6, <1>7, InvPartsPrime

LEMMA AuctionInv ==
  ASSUME Inv, NEW n \in Nfts, NEW ob \in Users, NEW b \in BidPrices,
         Auction(n, ob, b)
  PROVE  Inv'
<1> DEFINE id == nftToLoanIds[n]
           loan == loans[id]
           r == loan.reserveAsset
<1>1. b \in Nat /\ b > 0 /\ id # 0
  BY InputAssumption DEF Auction
<1>2. LedgerInv /\ PoolTypeOK /\ now \in Nat \ {0} /\ now' = now
  BY InvParts DEF PoolTypeOK, Auction
<1>3. id \in LoanIds /\ loan \in LoanData /\ r \in Reserves
  BY <1>1, <1>2, LoanOfToken
<1>4. PICK index \in Ray..MaxIndex : UpdateState(r, index)
  BY DEF Auction
<1>5. LedgerInv'
  BY <1>1, <1>2, <1>3, AuctionLoanInv DEF Auction
<1>6. poolBalance' \in [Reserves -> Nat]
  <2>1. Refund(loan) \in Nat
    BY <1>3 DEF Refund, LoanData
  <2>2. poolBalance[r] + b - Refund(loan) \in Nat
    BY <1>1, <1>2, <1>3, <2>1, SMT DEF PoolTypeOK, Auction
  <2> QED
    BY <2>2, <1>2, <1>3 DEF PoolTypeOK, Auction
<1>7. borrowIndex' \in [Reserves -> Ray..MaxIndex]
  BY <1>2, <1>3, <1>4, UpdateStateType
<1>8. PoolTypeOK'
  BY <1>2, <1>6, <1>7 DEF PoolTypeOK, Auction, oracleVars, configVars, pauseVars
<1> QED
  BY <1>5, <1>8, InvPartsPrime

LEMMA RedeemInv ==
  ASSUME Inv, NEW n \in Nfts, NEW a \in Amounts, Redeem(n, a)
  PROVE  Inv'
<1> DEFINE id == nftToLoanIds[n]
           loan == loans[id]
           r == loan.reserveAsset
<1>1. a \in Nat /\ id # 0
  BY InputAssumption DEF Redeem
<1>2. LedgerInv /\ PoolTypeOK /\ now \in Nat \ {0} /\ now' = now
  BY InvParts DEF PoolTypeOK, Redeem
<1>3. /\ id \in LoanIds /\ loan \in LoanData
      /\ loan.borrower \in Users /\ r \in Reserves
  BY <1>1, <1>2, LoanOfToken
<1>4. PICK index \in Ray..MaxIndex :
        /\ UpdateState(r, index)
        /\ RedeemLoan(id, a, index)
        /\ BurnDebt(r, loan.borrower, a, index)
  BY DEF Redeem
<1>5. LedgerInv'
  BY <1>1, <1>2, <1>3, <1>4, IndexType, RedeemLoanInv
<1>6. poolBalance' \in [Reserves -> Nat]
  <2>1. poolBalance[r] - loan.bidPrice \in Nat
    BY <1>2, <1>3, SMT DEF PoolTypeOK, Redeem, LoanData
  <2> QED
    BY <2>1, <1>2, <1>3 DEF PoolTypeOK, Redeem
<1>7. /\ borrowIndex' \in [Reserves -> Ray..MaxIndex]
      /\ debtBalance' \in [Reserves -> [Users -> Nat]]
      /\ borrowAllowance' \in [Reserves -> [Users -> [Users -> Nat]]]
  BY <1>1, <1>2, <1>3, <1>4, UpdateStateType, BurnDebtType
<1>8. PoolTypeOK'
  BY <1>2, <1>6, <1>7 DEF PoolTypeOK, Redeem, oracleVars, configVars, pauseVars
<1> QED
  BY <1>5, <1>8, InvPartsPrime

LEMMA LiquidateInv ==
  ASSUME Inv, NEW n \in Nfts, NEW a \in Amounts \cup {0}, Liquidate(n, a)
  PROVE  Inv'
<1> DEFINE id == nftToLoanIds[n]
           loan == loans[id]
           r == loan.reserveAsset
           debt(i) == BorrowAmount(loan, i)
           extra(i) == IF loan.bidPrice < debt(i) THEN debt(i) - loan.bidPrice ELSE 0
           remain(i) == IF loan.bidPrice > debt(i) THEN loan.bidPrice - debt(i) ELSE 0
<1>1. id # 0 /\ loan.bidderAddress # ZeroAddress
  BY DEF Liquidate
<1>2. LedgerInv /\ PoolTypeOK /\ now \in Nat \ {0} /\ now' = now
  BY InvParts DEF PoolTypeOK, Liquidate
<1>3. /\ id \in LoanIds /\ loan \in LoanData
      /\ loan.borrower \in Users /\ r \in Reserves
      /\ loan.bidderAddress \in Users
  BY <1>1, <1>2, LoanOfToken DEF LoanData
<1>4. PICK index \in Ray..MaxIndex :
        /\ UpdateState(r, index)
        /\ LiquidateLoan(id, loan.bidderAddress)
        /\ BurnDebt(r, loan.borrower, debt(index), index)
        /\ poolBalance[r] + extra(index) >= debt(index) + remain(index)
        /\ poolBalance' = [poolBalance EXCEPT
             ![r] = poolBalance[r] + extra(index) - debt(index) - remain(index)]
  BY Zenon DEF Liquidate
<1>5. debt(index) \in Nat
  BY <1>1, <1>2, DebtType
<1>6. LedgerInv'
  BY <1>2, <1>3, <1>4, LiquidateLoanInv
<1>7. poolBalance' \in [Reserves -> Nat]
  <2>1. loan.bidPrice \in Nat /\ poolBalance[r] \in Nat
    BY <1>2, <1>3 DEF PoolTypeOK, LoanData
  <2>2. extra(index) \in Nat /\ remain(index) \in Nat
    BY <2>1, <1>5, SMT
  <2> HIDE DEF extra, remain, debt
  <2>3. poolBalance[r] + extra(index) - debt(index) - remain(index) \in Nat
    BY <2>1, <2>2, <1>4, <1>5, SMT
  <2> QED
    BY <2>3, <1>2, <1>3, <1>4 DEF PoolTypeOK
<1>8. /\ borrowIndex' \in [Reserves -> Ray..MaxIndex]
      /\ debtBalance' \in [Reserves -> [Users -> Nat]]
      /\ borrowAllowance' \in [Reserves -> [Users -> [Users -> Nat]]]
  BY <1>2, <1>3, <1>4, <1>5, UpdateStateType, BurnDebtType
<1>9. PoolTypeOK'
  BY <1>2, <1>7, <1>8 DEF PoolTypeOK, Liquidate, oracleVars, configVars, pauseVars
<1> QED
  BY <1>6, <1>9, InvPartsPrime

-----------------------------------------------------------------------------
LEMMA TokenStepInv ==
  ASSUME Inv, TokenStep
  PROVE  Inv'
<1>1. LedgerInv /\ PoolTypeOK /\ now \in Nat
  BY InvParts DEF PoolTypeOK
<1>2. CASE /\ \/ \E n \in Nfts, u, v \in Users : NftTransfer(n, u, v)
              \/ \E n \in Nfts, u \in Users : UserMintsBnft(u, n)
              \/ \E n \in Nfts, u \in Users : UserBurnsBnft(u, n)
           /\ UNCHANGED <<debtVars, oracleVars, configVars, pauseVars, now>>
  <2>1. LedgerInv'
    BY <1>1, <1>2, NftTransferInv, UserMintsBnftInv, UserBurnsBnftInv
  <2>2. PoolTypeOK'
    BY <1>1, <1>2 DEF PoolTypeOK, debtVars, oracleVars, configVars, pauseVars
  <2> QED
    BY <2>1, <2>2, InvPartsPrime
<1>3. ASSUME NEW r \in Reserves, NEW u \in Users, NEW v \in Users,
             NEW a \in Delegations, ApproveDelegation(r, u, v, a)
      PROVE  Inv'
  <2>1. LedgerInv'
    BY <1>1, <1>3, LedgerUnchanged DEF ApproveDelegation
  <2>2. borrowAllowance' \in [Reserves -> [Users -> [Users -> Nat]]]
    BY <1>1, <1>3, AllowanceType, InputAssumption DEF ApproveDelegation
  <2>3. PoolTypeOK'
    BY <1>1, <1>3, <2>2
       DEF PoolTypeOK, ApproveDelegation, oracleVars, configVars, pauseVars
  <2> QED
    BY <2>1, <2>3, InvPartsPrime
<1> QED
  BY <1>2, <1>3 DEF TokenStep

(* The administrators and the oracle touch no loan, only parameters. *)
LEMMA SwitchInv ==
  ASSUME Inv, AdminStep \/ OracleStep
  PROVE  Inv'
<1>1. /\ LedgerInv /\ PoolTypeOK /\ now \in Nat
      /\ nftConfig \in NftConfig
      /\ reserveConfig \in [Reserves -> ReserveConfig]
  BY InvParts DEF PoolTypeOK
<1>2. UNCHANGED loanVars /\ UNCHANGED debtVars /\ now' = now
  <2>1. CASE AdminStep
    BY <2>1 DEF AdminStep, SetPause, SetPausedTime, ConfigureNftAsCollateral,
       ConfigureNftAsAuction, BatchConfigNft, SetActiveFlagOnNft,
       SetFreezeFlagOnNft, SetReserveFlag
  <2>2. CASE OracleStep
    BY <2>2 DEF OracleStep, SetNftPrice, SetPriceStale
  <2> QED
    BY <2>1, <2>2
<1>3. LedgerInv'
  BY <1>1, <1>2, LedgerUnchanged
<1>4. ASSUME NEW val \in BOOLEAN, SetPause(val)
      PROVE  PoolTypeOK'
  <2>1. pauseStartTime' \in Nat /\ pauseDurationTime' \in Nat
    BY <1>1, <1>4, SMT DEF PoolTypeOK, SetPause
  <2>2. paused' \in BOOLEAN
    BY <1>4, Zenon DEF SetPause
  <2> QED
    BY <1>1, <1>2, <1>4, <2>1, <2>2
       DEF PoolTypeOK, SetPause, debtVars, oracleVars, configVars
<1>5. ASSUME NEW t \in PausedTimes, SetPausedTime(t[1], t[2])
      PROVE  PoolTypeOK'
  <2>1. t[1] \in Nat /\ t[2] \in Nat
    BY InputAssumption
  <2> QED
    BY <1>1, <1>2, <1>5, <2>1
       DEF PoolTypeOK, SetPausedTime, debtVars, oracleVars, configVars
<1>6. ASSUME nftConfig' \in NftConfig,
             UNCHANGED <<oracleVars, reserveConfig, pauseVars>>
      PROVE  PoolTypeOK'
  BY <1>1, <1>2, <1>6 DEF PoolTypeOK, debtVars, oracleVars, pauseVars
<1>7. ASSUME NEW c \in CollateralConfigs, ConfigureNftAsCollateral(c)
      PROVE  PoolTypeOK'
  <2>1. c \in CollateralParams
    BY InputAssumption
  <2>2. nftConfig' \in NftConfig
    BY <1>1, <1>7, <2>1
       DEF ConfigureNftAsCollateral, CollateralParams, NftConfig
  <2> QED
    BY <1>6, <1>7, <2>2 DEF ConfigureNftAsCollateral
<1>8. ASSUME NEW c \in AuctionConfigs, ConfigureNftAsAuction(c)
      PROVE  PoolTypeOK'
  <2>1. c \in AuctionParams
    BY InputAssumption
  <2>2. nftConfig' \in NftConfig
    BY <1>1, <1>8, <2>1 DEF ConfigureNftAsAuction, AuctionParams, NftConfig
  <2> QED
    BY <1>6, <1>8, <2>2 DEF ConfigureNftAsAuction
<1>9. ASSUME NEW c \in BatchConfigs, BatchConfigNft(c)
      PROVE  PoolTypeOK'
  <2>1. nftConfig.active \in BOOLEAN /\ nftConfig.frozen \in BOOLEAN
    BY <1>1 DEF NftConfig
  <2>2. nftConfig' \in NftConfig
    BY <1>9, <2>1, ListedType, InputAssumption DEF BatchConfigNft
  <2> QED
    BY <1>6, <1>9, <2>2 DEF BatchConfigNft
<1>10. ASSUME NEW flag \in BOOLEAN,
              SetActiveFlagOnNft(flag) \/ SetFreezeFlagOnNft(flag)
       PROVE  PoolTypeOK'
  <2>1. nftConfig' \in NftConfig
    BY <1>1, <1>10 DEF SetActiveFlagOnNft, SetFreezeFlagOnNft, NftConfig
  <2> QED
    BY <1>6, <1>10, <2>1 DEF SetActiveFlagOnNft, SetFreezeFlagOnNft
<1>11. ASSUME NEW r \in Reserves, NEW flag \in BOOLEAN,
              NEW field \in {"active", "frozen", "borrowingEnabled"},
              SetReserveFlag(r, field, flag)
       PROVE  PoolTypeOK'
  <2>1. [reserveConfig[r] EXCEPT ![field] = flag] \in ReserveConfig
    BY <1>1 DEF ReserveConfig
  <2>2. reserveConfig' \in [Reserves -> ReserveConfig]
    BY <1>1, <1>11, <2>1 DEF SetReserveFlag
  <2> QED
    BY <1>1, <1>2, <1>11, <2>2
       DEF PoolTypeOK, SetReserveFlag, debtVars, oracleVars, pauseVars
<1>12. ASSUME OracleStep
       PROVE  PoolTypeOK'
  <2>1. ASSUME NEW r \in Reserves, NEW price \in NftPrices, SetNftPrice(r, price)
        PROVE  PoolTypeOK'
    BY <1>1, <1>2, <2>1
       DEF PoolTypeOK, SetNftPrice, debtVars, configVars, pauseVars
  <2>2. ASSUME NEW stale \in BOOLEAN, SetPriceStale(stale)
        PROVE  PoolTypeOK'
    BY <1>1, <1>2, <2>2
       DEF PoolTypeOK, SetPriceStale, debtVars, configVars, pauseVars
  <2> QED
    BY <1>12, <2>1, <2>2 DEF OracleStep
<1>13. PoolTypeOK'
  BY <1>4, <1>5, <1>7, <1>8, <1>9, <1>10, <1>11, <1>12, Zenon DEF AdminStep
<1> QED
  BY <1>3, <1>13, InvPartsPrime

LEMMA TickInv ==
  ASSUME Inv, Tick
  PROVE  Inv'
<1>1. LedgerInv /\ PoolTypeOK
  BY InvParts
<1>2. now \in Nat /\ now' \in Nat \ {0} /\ now' >= now
  BY <1>1, SMT DEF PoolTypeOK, Tick
<1>3. LedgerInv'
  BY <1>1, <1>2, LedgerUnchanged DEF Tick
<1>4. PoolTypeOK'
  BY <1>1, <1>2 DEF PoolTypeOK, Tick, debtVars, oracleVars, configVars, pauseVars
<1> QED
  BY <1>3, <1>4, InvPartsPrime

LEMMA StutterInv ==
  ASSUME Inv, UNCHANGED vars
  PROVE  Inv'
<1>1. LedgerInv /\ PoolTypeOK /\ now \in Nat /\ now' = now /\ UNCHANGED loanVars
  BY InvParts DEF PoolTypeOK, vars
<1>2. LedgerInv'
  BY <1>1, LedgerUnchanged
<1>3. PoolTypeOK'
  BY <1>1 DEF PoolTypeOK, vars, debtVars, oracleVars, configVars, pauseVars
<1> QED
  BY <1>2, <1>3, InvPartsPrime

LEMMA NextInv == Inv /\ [Next]_vars => Inv'
<1> SUFFICES ASSUME Inv, [Next]_vars PROVE Inv'
  OBVIOUS
<1>1. CASE PoolStep
  BY <1>1, BorrowInv, RepayInv, AuctionInv, RedeemInv, LiquidateInv DEF PoolStep
<1>2. CASE TokenStep
  BY <1>2, TokenStepInv
<1>3. CASE AdminStep \/ OracleStep
  BY <1>3, SwitchInv
<1>4. CASE Tick
  BY <1>4, TickInv
<1>5. CASE UNCHANGED vars
  BY <1>5, StutterInv
<1> QED
  BY <1>1, <1>2, <1>3, <1>4, <1>5 DEF Next

(* The inductive invariant holds in every state of every behaviour. *)
THEOREM InvCorrect == Spec => []Inv
BY InitInv, NextInv, PTL DEF Spec

(***************************************************************************)
(* Types: no counter, balance, allowance, bid or amount ever goes below    *)
(* zero, in whatever order the transactions come, and NFTs, bNFTs and      *)
(* loans only ever name accounts that can own them.                        *)
(***************************************************************************)
THEOREM TypeCorrect == Spec => []TypeOK
<1>1. Inv => TypeOK
  BY DEF Inv
<1> QED
  BY <1>1, InvCorrect, PTL

(***************************************************************************)
(* The ledger's two indexes, _loans and _nftToLoanIds, always agree.       *)
(***************************************************************************)
THEOREM LoanBookCorrect == Spec => []LoanBook
<1>1. Inv => LoanBook
  BY DEF Inv, LedgerInv
<1> QED
  BY <1>1, InvCorrect, PTL

(***************************************************************************)
(* While a loan is open its NFT is in the vault, minted by the ledger, and *)
(* its borrower holds the bNFT; no NFT is ever stranded in the vault.      *)
(***************************************************************************)
THEOREM CustodyCorrect == Spec => []Custody
<1>1. Inv => Custody
  BY DEF Inv, LedgerInv
<1> QED
  BY <1>1, InvCorrect, PTL

(***************************************************************************)
(* The five places that say whether an auction runs always say the same.   *)
(***************************************************************************)
THEOREM AuctionBooksCorrect == Spec => []AuctionBooks
<1>1. Inv => AuctionBooks
  BY DEF Inv, LedgerInv
<1> QED
  BY <1>1, InvCorrect, PTL

-----------------------------------------------------------------------------
(***************************************************************************)
(* What one step does to one loan, read off the ledger's operations: the   *)
(* summary the action properties are proved from.                          *)
(***************************************************************************)
SameLoan(old, new) ==
  /\ new.borrower = old.borrower
  /\ new.nft = old.nft
  /\ new.reserveAsset = old.reserveAsset

BidOnTop(old, new) ==
  /\ new.bidStartTimestamp = old.bidStartTimestamp
  /\ new.firstBidderAddress = old.firstBidderAddress
  /\ new.bidPrice > old.bidPrice

LoanMove(old, new) ==
  \/ old.state = "None" /\ new.state = "Active"
  \/ /\ SameLoan(old, new)
     /\ \/ old.state = "Active" /\ new.state \in {"Active", "Repaid"}
        \/ old.state = "Auction" /\ new.state \in {"Active", "Defaulted"}
        \/ /\ new.state = "Auction"
           /\ new.scaledAmount = old.scaledAmount
           /\ \/ old.state = "Active" /\ new.bidStartTimestamp = now
              \/ old.state = "Auction" /\ BidOnTop(old, new)

OneLoanMoves(id) ==
  /\ \A i \in LoanIds \ {id} : loans'[i] = loans[i]
  /\ LoanMove(loans[id], loans'[id])

LEMMA CreateMoves ==
  ASSUME LedgerInv, NEW user, NEW n, NEW r, NEW a, NEW index,
         CreateLoan(user, n, r, a, index)
  PROVE  loanIdTracker \in LoanIds /\ OneLoanMoves(loanIdTracker)
<1>1. loanIdTracker \in LoanIds
  BY MaxLoansAssumption, SMT DEF LedgerInv, LoanTypeOK, CreateLoan, LoanIds
<1>2. loans[loanIdTracker] = EmptyLoan
  BY <1>1, SMT DEF LedgerInv, LoanTypeOK, FreshIds, LoanIds
<1>3. /\ loans'[loanIdTracker].state = "Active"
      /\ \A i \in LoanIds \ {loanIdTracker} : loans'[i] = loans[i]
  BY <1>1, <1>2, LoanFields DEF CreateLoan, EmptyLoan
<1> QED
  BY <1>1, <1>2, <1>3 DEF OneLoanMoves, LoanMove, EmptyLoan

LEMMA AddMoves ==
  ASSUME LedgerInv, NEW id \in LoanIds, NEW a, NEW index,
         AddToLoan(id, a, index)
  PROVE  OneLoanMoves(id)
BY LoanFields DEF AddToLoan, OneLoanMoves, LoanMove, SameLoan, LoanData

LEMMA TakeMoves ==
  ASSUME LedgerInv, NEW id \in LoanIds, NEW a, NEW index,
         TakeFromLoan(id, a, index)
  PROVE  OneLoanMoves(id)
BY LoanFields DEF TakeFromLoan, OneLoanMoves, LoanMove, SameLoan, LoanData

LEMMA RepayMoves ==
  ASSUME LedgerInv, NEW id \in LoanIds, NEW receiver, RepayLoan(id, receiver)
  PROVE  OneLoanMoves(id)
BY LoanFields DEF RepayLoan, CloseLoan, OneLoanMoves, LoanMove, SameLoan, LoanData

LEMMA LiquidateMoves ==
  ASSUME LedgerInv, NEW id \in LoanIds, NEW receiver, LiquidateLoan(id, receiver)
  PROVE  OneLoanMoves(id)
BY LoanFields
   DEF LiquidateLoan, CloseLoan, OneLoanMoves, LoanMove, SameLoan, LoanData

LEMMA RedeemMoves ==
  ASSUME LedgerInv, NEW id \in LoanIds, NEW a, NEW index,
         RedeemLoan(id, a, index)
  PROVE  OneLoanMoves(id)
BY LoanFields
   DEF RedeemLoan, BidCleared, OneLoanMoves, LoanMove, SameLoan, LoanData

LEMMA AuctionMoves ==
  ASSUME LedgerInv, NEW id \in LoanIds, NEW ob, NEW b, AuctionLoan(id, ob, b, now)
  PROVE  OneLoanMoves(id)
<1> DEFINE old == loans[id]
<1>1. old \in LoanData /\ old.state \in {"Active", "Auction"}
  BY LoanFields DEF AuctionLoan
<1>2. old.state = "Auction" <=> old.bidStartTimestamp # 0
  BY <1>1 DEF LedgerInv, AuctionBooks, IsOpen
<1>3. CASE old.state = "Active"
  BY <1>2, <1>3, LoanFields DEF AuctionLoan, OneLoanMoves, LoanMove, SameLoan, LoanData
<1>4. CASE old.state = "Auction"
  BY <1>2, <1>4, LoanFields DEF AuctionLoan, HigherBid, OneLoanMoves, LoanMove,
     SameLoan, BidOnTop, LoanData
<1> QED
  BY <1>1, <1>3, <1>4

LEMMA LoanMoves ==
  ASSUME Inv, [Next]_vars
  PROVE  loans' = loans \/ \E id \in LoanIds : OneLoanMoves(id)
<1>1. LedgerInv
  BY DEF Inv
<1>2. CASE PoolStep
  <2>1. ASSUME NEW u \in Users, NEW ob \in Users, NEW r \in Reserves,
               NEW n \in Nfts, NEW a \in Amounts, Borrow(u, ob, r, n, a)
        PROVE  \E id \in LoanIds : OneLoanMoves(id)
    <3>1. PICK index \in Ray..MaxIndex :
            \/ CreateLoan(ob, n, r, a, index)
            \/ nftToLoanIds[n] # 0 /\ AddToLoan(nftToLoanIds[n], a, index)
      BY <2>1 DEF Borrow
    <3> QED
      BY <1>1, <3>1, CreateMoves, AddMoves, LoanOfToken
  <2>2. ASSUME NEW n \in Nfts, NEW a \in Amounts, Repay(n, a)
        PROVE  \E id \in LoanIds : OneLoanMoves(id)
    <3>1. PICK index \in Ray..MaxIndex :
            \/ TakeFromLoan(nftToLoanIds[n], a, index)
            \/ RepayLoan(nftToLoanIds[n], loans[nftToLoanIds[n]].borrower)
      BY <2>2 DEF Repay
    <3>2. nftToLoanIds[n] \in LoanIds
      BY <1>1, <2>2, LoanOfToken DEF Repay
    <3> QED
      BY <1>1, <3>1, <3>2, TakeMoves, RepayMoves
  <2>3. ASSUME NEW n \in Nfts, NEW ob \in Users, NEW b \in BidPrices,
               Auction(n, ob, b)
        PROVE  \E id \in LoanIds : OneLoanMoves(id)
    BY <1>1, <2>3, AuctionMoves, LoanOfToken DEF Auction
  <2>4. ASSUME NEW n \in Nfts, NEW a \in Amounts, Redeem(n, a)
        PROVE  \E id \in LoanIds : OneLoanMoves(id)
    BY <1>1, <2>4, RedeemMoves, LoanOfToken DEF Redeem
  <2>5. ASSUME NEW n \in Nfts, NEW a \in Amounts \cup {0}, Liquidate(n, a)
        PROVE  \E id \in LoanIds : OneLoanMoves(id)
    BY <1>1, <2>5, LiquidateMoves, LoanOfToken DEF Liquidate
  <2> QED
    BY <1>2, <2>1, <2>2, <2>3, <2>4, <2>5 DEF PoolStep
<1>3. CASE TokenStep
  BY <1>3 DEF TokenStep, NftTransfer, UserMintsBnft, UserBurnsBnft,
     ApproveDelegation, loanVars
<1>4. CASE AdminStep
  BY <1>4 DEF AdminStep, SetPause, SetPausedTime, ConfigureNftAsCollateral,
     ConfigureNftAsAuction, BatchConfigNft, SetActiveFlagOnNft,
     SetFreezeFlagOnNft, SetReserveFlag, loanVars
<1>5. CASE OracleStep \/ Tick \/ UNCHANGED vars
  BY <1>5 DEF OracleStep, SetNftPrice, SetPriceStale, Tick, vars, loanVars
<1> QED
  BY <1>2, <1>3, <1>4, <1>5 DEF Next

(***************************************************************************)
(* A loan lives once: a closed loan never changes, only an auction ends in *)
(* default, and the borrower, token and reserve of a loan are fixed.       *)
(***************************************************************************)
THEOREM LoanLifeCorrect == Spec => LoanLife
<1>1. ASSUME Inv, [Next]_vars, NEW id \in LoanIds
      PROVE  LifeStep(loans[id], loans'[id])
  BY <1>1, LoanMoves DEF OneLoanMoves, LoanMove, SameLoan, LifeStep
<1>2. Inv /\ [Next]_vars => [\A id \in LoanIds : LifeStep(loans[id], loans'[id])]_vars
  BY <1>1
<1> QED
  BY <1>2, InvCorrect, PTL DEF Spec, LoanLife

(***************************************************************************)
(* While an auction runs nothing but a higher bid changes its loan.        *)
(***************************************************************************)
THEOREM AuctionProgressCorrect == Spec => AuctionProgress
<1>1. ASSUME Inv, [Next]_vars, NEW id \in LoanIds
      PROVE  BidStep(loans[id], loans'[id])
  BY <1>1, LoanMoves DEF OneLoanMoves, LoanMove, SameLoan, BidOnTop, BidStep
<1>2. Inv /\ [Next]_vars => [\A id \in LoanIds : BidStep(loans[id], loans'[id])]_vars
  BY <1>1
<1> QED
  BY <1>2, InvCorrect, PTL DEF Spec, AuctionProgress

-----------------------------------------------------------------------------
(* A transaction needs a pool that is not paused, and changes neither the  *)
(* configuration nor the pause nor the time.                               *)
LEMMA PoolLeaves ==
  ASSUME PoolStep
  PROVE  ~paused /\ UNCHANGED <<configVars, pauseVars, now>>
<1>1. ASSUME NEW u \in Users, NEW ob \in Users, NEW r \in Reserves,
             NEW n \in Nfts, NEW a \in Amounts, Borrow(u, ob, r, n, a)
      PROVE  ~paused /\ UNCHANGED <<configVars, pauseVars, now>>
  BY <1>1 DEF Borrow
<1>2. ASSUME NEW n \in Nfts, NEW a \in Amounts, Repay(n, a)
      PROVE  ~paused /\ UNCHANGED <<configVars, pauseVars, now>>
  BY <1>2 DEF Repay
<1>3. ASSUME NEW n \in Nfts, NEW ob \in Users, NEW b \in BidPrices,
             Auction(n, ob, b)
      PROVE  ~paused /\ UNCHANGED <<configVars, pauseVars, now>>
  BY <1>3 DEF Auction
<1>4. ASSUME NEW n \in Nfts, NEW a \in Amounts, Redeem(n, a)
      PROVE  ~paused /\ UNCHANGED <<configVars, pauseVars, now>>
  BY <1>4 DEF Redeem
<1>5. ASSUME NEW n \in Nfts, NEW a \in Amounts \cup {0}, Liquidate(n, a)
      PROVE  ~paused /\ UNCHANGED <<configVars, pauseVars, now>>
  BY <1>5 DEF Liquidate
<1> QED
  BY <1>1, <1>2, <1>3, <1>4, <1>5 DEF PoolStep

(* Only the configurator's five calls change the configuration. *)
LEMMA ConfigMoves ==
  ASSUME [Next]_vars
  PROVE  \/ nftConfig' = nftConfig
         \/ \E c \in CollateralConfigs : ConfigureNftAsCollateral(c)
         \/ \E c \in AuctionConfigs : ConfigureNftAsAuction(c)
         \/ \E c \in BatchConfigs : BatchConfigNft(c)
         \/ \E flag \in BOOLEAN :
              SetActiveFlagOnNft(flag) \/ SetFreezeFlagOnNft(flag)
<1>1. CASE PoolStep
  BY <1>1, PoolLeaves DEF configVars
<1>2. CASE TokenStep
  BY <1>2 DEF TokenStep, ApproveDelegation, configVars
<1>3. CASE AdminStep
  BY <1>3 DEF AdminStep, SetPause, SetPausedTime, SetReserveFlag, configVars
<1>4. CASE OracleStep \/ Tick \/ UNCHANGED vars
  BY <1>4 DEF OracleStep, SetNftPrice, SetPriceStale, Tick, vars, configVars
<1> QED
  BY <1>1, <1>2, <1>3, <1>4 DEF Next

(***************************************************************************)
(* The windows of an auction are ordered if every configuration is.  The   *)
(* hypothesis is what the configurator checks in configureNftAsAuction and *)
(* does not check in batchConfigNft.                                       *)
(***************************************************************************)
WindowsInv == nftConfig.redeemDuration <= nftConfig.auctionDuration

THEOREM WindowsCorrect ==
  ASSUME \A c \in BatchConfigs : ValidAuctionParams(c)
  PROVE  Spec => []WindowsDisjoint
<1>1. Init => WindowsInv
  BY ListingAssumption DEF Init, Listed, ValidAuctionParams, WindowsInv
<1>2. ASSUME Inv, WindowsInv, [Next]_vars
      PROVE  WindowsInv'
  <2>1. nftConfig \in NftConfig
    BY <1>2 DEF Inv, TypeOK
  <2>2. CASE nftConfig' = nftConfig
    BY <1>2, <2>2 DEF WindowsInv
  <2>3. ASSUME NEW c \in CollateralConfigs, ConfigureNftAsCollateral(c)
        PROVE  WindowsInv'
    BY <1>2, <2>1, <2>3 DEF ConfigureNftAsCollateral, WindowsInv, NftConfig
  <2>4. ASSUME NEW c \in AuctionConfigs, ConfigureNftAsAuction(c)
        PROVE  WindowsInv'
    BY <2>1, <2>4
       DEF ConfigureNftAsAuction, ValidAuctionParams, WindowsInv, NftConfig
  <2>5. ASSUME NEW c \in BatchConfigs, BatchConfigNft(c)
        PROVE  WindowsInv'
    BY <2>5 DEF BatchConfigNft, Listed, ValidAuctionParams, WindowsInv
  <2>6. ASSUME NEW flag, SetActiveFlagOnNft(flag) \/ SetFreezeFlagOnNft(flag)
        PROVE  WindowsInv'
    BY <1>2, <2>1, <2>6
       DEF SetActiveFlagOnNft, SetFreezeFlagOnNft, WindowsInv, NftConfig
  <2> QED
    BY <1>2, <2>2, <2>3, <2>4, <2>5, <2>6, ConfigMoves
<1>3. ASSUME Inv, WindowsInv
      PROVE  WindowsDisjoint
  <2>1. ASSUME NEW id \in LoanIds, now <= RedeemEndTimestamp(loans[id])
        PROVE  now <= AuctionEndTimestamp(loans[id])
    <3> DEFINE loan == loans[id]
               extra == ExtraDuration(loan)
    <3>1. /\ now \in Nat /\ loan.bidStartTimestamp \in Nat
          /\ extra \in Nat
          /\ nftConfig.redeemDuration \in Nat /\ nftConfig.auctionDuration \in Nat
      BY <1>3 DEF Inv, TypeOK, LoanTypeOK, LoanData, ExtraDuration, NftConfig
    <3> HIDE DEF extra
    <3> QED
      BY <2>1, <3>1, <1>3, SMT
         DEF WindowsInv, RedeemEndTimestamp, AuctionEndTimestamp, extra
  <2> QED
    BY <2>1 DEF WindowsDisjoint
<1> QED
  BY <1>1, <1>2, <1>3, InvCorrect, PTL DEF Spec

-----------------------------------------------------------------------------

(***************************************************************************)
(* The two ledgers that are sums over the loans.  A transaction moves one  *)
(* loan; what the loan owed and what was bid on it move the debt balance   *)
(* of its borrower and the pool's escrow in its reserve by the same        *)
(* amounts, so both sums still match.                                      *)
(***************************************************************************)
(* What a loan adds to a user's debt in a reserve *)
Owed(loan, reserve, user) ==
  IF IsOpen(loan) /\ loan.reserveAsset = reserve /\ loan.borrower = user
  THEN loan.scaledAmount ELSE 0

(* and to the pool's escrow in a reserve *)
Staked(loan, reserve) ==
  IF loan.state = "Auction" /\ loan.reserveAsset = reserve
  THEN loan.bidPrice ELSE 0

(* The balances follow the one loan that moved. *)
BooksFollow(id) ==
  /\ \A i \in LoanIds \ {id} : loans'[i] = loans[i]
  /\ \A r \in Reserves, u \in Users :
       debtBalance'[r][u] + Owed(loans[id], r, u) =
         debtBalance[r][u] + Owed(loans'[id], r, u)
  /\ \A r \in Reserves :
       poolBalance'[r] + Staked(loans[id], r) =
         poolBalance[r] + Staked(loans'[id], r)

Books == DebtMatchesLoans /\ EscrowMatchesBids

(* The summands are numbers, before and after a step. *)
LEMMA AmountsTyped ==
  ASSUME Inv
  PROVE  \A id \in LoanIds : /\ loans[id].scaledAmount \in Nat
                             /\ loans[id].bidPrice \in Nat
                             /\ ScaledAmounts[id] = loans[id].scaledAmount
                             /\ StandingBids[id] = loans[id].bidPrice
BY DEF Inv, TypeOK, LoanTypeOK, LoanData, ScaledAmounts, StandingBids

LEMMA AmountsTypedPrime ==
  ASSUME Inv'
  PROVE  \A id \in LoanIds : /\ loans'[id].scaledAmount \in Nat
                             /\ loans'[id].bidPrice \in Nat
                             /\ ScaledAmounts'[id] = loans'[id].scaledAmount
                             /\ StandingBids'[id] = loans'[id].bidPrice
BY DEF Inv, TypeOK, LoanTypeOK, LoanData, ScaledAmounts, StandingBids

LEMMA LoanIdsFinite == \A S \in SUBSET LoanIds : IsFiniteSet(S)
<1>1. IsFiniteSet(LoanIds)
  BY FS_Interval, MaxLoansAssumption, SMT DEF LoanIds
<1> QED
  BY <1>1, FS_Subset

(* Sums that gain, lose or change one summand stay what the balances are. *)
LEMMA BooksKept ==
  ASSUME Inv, Inv', Books, NEW id \in LoanIds, BooksFollow(id)
  PROVE  Books'
<1>1. \A i \in LoanIds \ {id} : loans'[i] = loans[i]
  BY DEF BooksFollow
<1>2. ASSUME NEW r \in Reserves, NEW u \in Users
      PROVE  debtBalance'[r][u]
               = SumFunctionOnSet(ScaledAmounts', OpenLoansOf(r, u)')
  <2> DEFINE S == OpenLoansOf(r, u)
             T == OpenLoansOf(r, u)'
             old == SumFunctionOnSet(ScaledAmounts, S)
             new == SumFunctionOnSet(ScaledAmounts', T)
  <2>1. IsFiniteSet(S) /\ IsFiniteSet(T)
    BY LoanIdsFinite DEF OpenLoansOf
  <2>2. S \ {id} = T \ {id}
    BY <1>1 DEF OpenLoansOf, IsOpen
  <2>3. /\ \A i \in S : ScaledAmounts[i] \in Nat
        /\ \A i \in T : ScaledAmounts'[i] \in Nat
        /\ \A i \in S \ {id} : ScaledAmounts[i] = ScaledAmounts'[i]
    BY <1>1, AmountsTyped, AmountsTypedPrime DEF OpenLoansOf
  <2>4. old + (IF id \in T THEN ScaledAmounts'[id] ELSE 0)
          = new + (IF id \in S THEN ScaledAmounts[id] ELSE 0)
    BY <2>1, <2>2, <2>3, SumUpdate
  <2>5. old \in Nat /\ new \in Nat
    BY <2>1, <2>3, SumType
  <2>6. /\ Owed(loans[id], r, u) = (IF id \in S THEN ScaledAmounts[id] ELSE 0)
        /\ Owed(loans'[id], r, u)
             = (IF id \in T THEN ScaledAmounts'[id] ELSE 0)
    BY AmountsTyped, AmountsTypedPrime DEF Owed, OpenLoansOf, IsOpen
  <2>7. /\ Owed(loans[id], r, u) \in Nat /\ Owed(loans'[id], r, u) \in Nat
        /\ debtBalance[r][u] \in Nat /\ debtBalance'[r][u] \in Nat
    BY AmountsTyped, AmountsTypedPrime DEF Owed, Inv, TypeOK
  <2>8. debtBalance'[r][u] + Owed(loans[id], r, u)
          = old + Owed(loans'[id], r, u)
    BY DEF BooksFollow, Books, DebtMatchesLoans
  <2> HIDE DEF old, new, S, T
  <2> QED
    BY <2>4, <2>5, <2>6, <2>7, <2>8 DEF new, T
<1>3. ASSUME NEW r \in Reserves
      PROVE  poolBalance'[r] = SumFunctionOnSet(StandingBids', AuctionsIn(r)')
  <2> DEFINE S == AuctionsIn(r)
             T == AuctionsIn(r)'
             old == SumFunctionOnSet(StandingBids, S)
             new == SumFunctionOnSet(StandingBids', T)
  <2>1. IsFiniteSet(S) /\ IsFiniteSet(T)
    BY LoanIdsFinite DEF AuctionsIn
  <2>2. S \ {id} = T \ {id}
    BY <1>1 DEF AuctionsIn
  <2>3. /\ \A i \in S : StandingBids[i] \in Nat
        /\ \A i \in T : StandingBids'[i] \in Nat
        /\ \A i \in S \ {id} : StandingBids[i] = StandingBids'[i]
    BY <1>1, AmountsTyped, AmountsTypedPrime DEF AuctionsIn
  <2>4. old + (IF id \in T THEN StandingBids'[id] ELSE 0)
          = new + (IF id \in S THEN StandingBids[id] ELSE 0)
    BY <2>1, <2>2, <2>3, SumUpdate
  <2>5. old \in Nat /\ new \in Nat
    BY <2>1, <2>3, SumType
  <2>6. /\ Staked(loans[id], r) = (IF id \in S THEN StandingBids[id] ELSE 0)
        /\ Staked(loans'[id], r) = (IF id \in T THEN StandingBids'[id] ELSE 0)
    BY AmountsTyped, AmountsTypedPrime DEF Staked, AuctionsIn
  <2>7. /\ Staked(loans[id], r) \in Nat /\ Staked(loans'[id], r) \in Nat
        /\ poolBalance[r] \in Nat /\ poolBalance'[r] \in Nat
    BY AmountsTyped, AmountsTypedPrime DEF Staked, Inv, TypeOK
  <2>8. poolBalance'[r] + Staked(loans[id], r) = old + Staked(loans'[id], r)
    BY DEF BooksFollow, Books, EscrowMatchesBids
  <2> HIDE DEF old, new, S, T
  <2> QED
    BY <2>4, <2>5, <2>6, <2>7, <2>8 DEF new, T
<1> QED
  BY <1>2, <1>3 DEF Books, DebtMatchesLoans, EscrowMatchesBids

(* The borrower's debt in the loan's reserve moves by what the loan does. *)
DebtMoves(id, reserve, user, delta) ==
  /\ debtBalance' = [debtBalance EXCEPT ![reserve][user] = @ + delta]
  /\ Owed(loans[id], reserve, user) \in Nat
  /\ Owed(loans'[id], reserve, user) = Owed(loans[id], reserve, user) + delta
  /\ \A r \in Reserves, u \in Users : r # reserve \/ u # user =>
       Owed(loans[id], r, u) = 0 /\ Owed(loans'[id], r, u) = 0

LEMMA DebtFollows ==
  ASSUME PoolTypeOK
  PROVE  \A id \in LoanIds, r0 \in Reserves, u0 \in Users, delta \in Int :
           DebtMoves(id, r0, u0, delta) =>
             \A r \in Reserves, u \in Users :
               debtBalance'[r][u] + Owed(loans[id], r, u) =
                 debtBalance[r][u] + Owed(loans'[id], r, u)
<1> SUFFICES ASSUME NEW id \in LoanIds, NEW r0 \in Reserves, NEW u0 \in Users,
                    NEW delta \in Int, DebtMoves(id, r0, u0, delta),
                    NEW r \in Reserves, NEW u \in Users
             PROVE  debtBalance'[r][u] + Owed(loans[id], r, u) =
                      debtBalance[r][u] + Owed(loans'[id], r, u)
  OBVIOUS
<1>1. CASE r # r0 \/ u # u0
  BY <1>1 DEF PoolTypeOK, DebtMoves
<1>2. CASE r = r0 /\ u = u0
  BY <1>2 DEF PoolTypeOK, DebtMoves
<1> QED
  BY <1>1, <1>2

(* Neither balance moves and neither does what the loan stands for. *)
LEMMA NothingOwedChanges ==
  ASSUME PoolTypeOK, NEW id \in LoanIds,
         IsOpen(loans[id]) <=> IsOpen(loans'[id]),
         loans'[id].reserveAsset = loans[id].reserveAsset,
         loans'[id].borrower = loans[id].borrower,
         loans'[id].scaledAmount = loans[id].scaledAmount,
         debtBalance' = debtBalance
  PROVE  \A r \in Reserves, u \in Users :
           debtBalance'[r][u] + Owed(loans[id], r, u) =
             debtBalance[r][u] + Owed(loans'[id], r, u)
BY DEF Owed

(* Each transaction of the pool, in turn *)
LEMMA BorrowBooks ==
  ASSUME Inv, NEW u \in Users, NEW ob \in Users, NEW r \in Reserves,
         NEW n \in Nfts, NEW a \in Amounts, Borrow(u, ob, r, n, a)
  PROVE  \E id \in LoanIds : BooksFollow(id)
<1>1. LedgerInv /\ PoolTypeOK /\ a \in Nat /\ poolBalance' = poolBalance
  BY InvParts, InputAssumption DEF Borrow
<1>2. PICK index \in Ray..MaxIndex :
        /\ ValidateBorrow(ob, r, n, a, index)
        /\ \/ nftToLoanIds[n] = 0 /\ CreateLoan(ob, n, r, a, index)
           \/ nftToLoanIds[n] # 0 /\ AddToLoan(nftToLoanIds[n], a, index)
        /\ MintDebt(r, u, ob, a, index)
  BY DEF Borrow
<1> DEFINE scaled == RayDiv(a, index)
<1>3. scaled \in Nat
  BY <1>1, IndexType, RayDivType
<1>4. debtBalance' = [debtBalance EXCEPT ![r][ob] = @ + scaled]
  BY <1>2 DEF MintDebt
<1>5. CASE CreateLoan(ob, n, r, a, index)
  <2> DEFINE id == loanIdTracker
  <2>1. id \in LoanIds /\ OneLoanMoves(id) /\ loans[id] = EmptyLoan
    BY <1>1, <1>5, CreateMoves DEF LedgerInv, LoanTypeOK, FreshIds, LoanIds
  <2>2. /\ loans'[id].state = "Active" /\ loans'[id].reserveAsset = r
        /\ loans'[id].borrower = ob /\ loans'[id].scaledAmount = scaled
    BY <1>1, <1>5, <2>1, LoanFields DEF CreateLoan, EmptyLoan
  <2> HIDE DEF id, scaled
  <2>3. /\ Owed(loans[id], r, ob) = 0 /\ Owed(loans'[id], r, ob) = scaled
        /\ \A rr \in Reserves, uu \in Users : rr # r \/ uu # ob =>
             Owed(loans[id], rr, uu) = 0 /\ Owed(loans'[id], rr, uu) = 0
        /\ \A rr \in Reserves : /\ Staked(loans[id], rr) = 0
                                /\ Staked(loans'[id], rr) = 0
    BY <2>1, <2>2 DEF EmptyLoan, Owed, Staked, IsOpen
  <2>4. \A rr \in Reserves, uu \in Users :
          debtBalance'[rr][uu] + Owed(loans[id], rr, uu) =
            debtBalance[rr][uu] + Owed(loans'[id], rr, uu)
    <3>1. scaled \in Int /\ DebtMoves(id, r, ob, scaled)
      BY <1>3, <1>4, <2>3 DEF DebtMoves
    <3> QED
      BY <1>1, <2>1, <3>1, DebtFollows
  <2> QED
    BY <1>1, <2>1, <2>3, <2>4 DEF BooksFollow, OneLoanMoves
<1>6. CASE nftToLoanIds[n] # 0 /\ AddToLoan(nftToLoanIds[n], a, index)
  <2> DEFINE id == nftToLoanIds[n]
  <2>1. id \in LoanIds /\ OneLoanMoves(id) /\ loans[id] \in LoanData
    BY <1>1, <1>6, LoanOfToken, AddMoves
  <2>2. /\ loans[id].state = "Active" /\ loans[id].reserveAsset = r
        /\ loans[id].borrower = ob
    BY <1>2, <1>6 DEF ValidateBorrow
  <2>3. loans'[id] = [loans[id] EXCEPT !.scaledAmount = @ + scaled]
    BY <1>1, <1>6, <2>1, LoanFields DEF AddToLoan
  <2> HIDE DEF id, scaled
  <2>4. /\ Owed(loans[id], r, ob) \in Nat
        /\ Owed(loans'[id], r, ob) = Owed(loans[id], r, ob) + scaled
        /\ \A rr \in Reserves, uu \in Users : rr # r \/ uu # ob =>
             Owed(loans[id], rr, uu) = 0 /\ Owed(loans'[id], rr, uu) = 0
        /\ \A rr \in Reserves : /\ Staked(loans[id], rr) = 0
                                /\ Staked(loans'[id], rr) = 0
    BY <1>3, <2>1, <2>2, <2>3 DEF LoanData, Owed, Staked, IsOpen
  <2>5. \A rr \in Reserves, uu \in Users :
          debtBalance'[rr][uu] + Owed(loans[id], rr, uu) =
            debtBalance[rr][uu] + Owed(loans'[id], rr, uu)
    <3>1. scaled \in Int /\ DebtMoves(id, r, ob, scaled)
      BY <1>3, <1>4, <2>4 DEF DebtMoves
    <3> QED
      BY <1>1, <2>1, <3>1, DebtFollows
  <2> QED
    BY <1>1, <2>1, <2>4, <2>5 DEF BooksFollow, OneLoanMoves
<1> QED
  BY <1>2, <1>5, <1>6

LEMMA RepayBooks ==
  ASSUME Inv, NEW n \in Nfts, NEW a \in Amounts, Repay(n, a)
  PROVE  \E id \in LoanIds : BooksFollow(id)
<1> DEFINE id == nftToLoanIds[n]
           loan == loans[id]
           r == loan.reserveAsset
           u == loan.borrower
<1>1. LedgerInv /\ PoolTypeOK /\ a \in Nat /\ poolBalance' = poolBalance
  BY InvParts, InputAssumption DEF Repay
<1>2. PICK index \in Ray..MaxIndex :
        \/ TakeFromLoan(id, a, index) /\ BurnDebt(r, u, a, index)
        \/ /\ RepayLoan(id, u)
           /\ BurnDebt(r, u, BorrowAmount(loan, index), index)
  BY DEF Repay
<1>3. /\ id \in LoanIds /\ loan \in LoanData
      /\ loan.state = "Active" /\ r \in Reserves /\ u \in Users
  BY <1>1, LoanOfToken DEF Repay
<1>4. index \in Nat /\ index >= Ray /\ index > 0
  BY IndexType
<1>5. OneLoanMoves(id)
  BY <1>1, <1>2, <1>3, TakeMoves, RepayMoves
<1>6. \E scaled \in Nat :
        /\ debtBalance' = [debtBalance EXCEPT ![r][u] = @ - scaled]
        /\ \/ /\ loan.scaledAmount >= scaled
              /\ loans'[id] = [loan EXCEPT !.scaledAmount = @ - scaled]
           \/ /\ loan.scaledAmount = scaled
              /\ loans'[id] = [loan EXCEPT !.state = "Repaid"]
  <2>1. CASE TakeFromLoan(id, a, index) /\ BurnDebt(r, u, a, index)
    <3>1. RayDiv(a, index) \in Nat
      BY <1>1, <1>4, RayDivType
    <3> QED
      BY <1>1, <1>3, <2>1, <3>1, LoanFields DEF TakeFromLoan, BurnDebt
  <2>2. CASE /\ RepayLoan(id, u)
             /\ BurnDebt(r, u, BorrowAmount(loan, index), index)
    <3>1. loan.scaledAmount \in Nat
      BY <1>3 DEF LoanData
    <3>2. RayDiv(BorrowAmount(loan, index), index) = loan.scaledAmount
      BY <1>4, <3>1, ScaledRoundTrip DEF BorrowAmount
    <3>3. loans'[id] = [loan EXCEPT !.state = "Repaid"]
      BY <1>1, <1>3, <2>2, LoanFields DEF RepayLoan, CloseLoan
    <3> QED
      BY <2>2, <3>1, <3>2, <3>3 DEF BurnDebt
  <2> QED
    BY <1>2, <2>1, <2>2
<1>7. PICK scaled \in Nat :
        /\ debtBalance' = [debtBalance EXCEPT ![r][u] = @ - scaled]
        /\ \/ /\ loan.scaledAmount >= scaled
              /\ loans'[id] = [loan EXCEPT !.scaledAmount = @ - scaled]
           \/ /\ loan.scaledAmount = scaled
              /\ loans'[id] = [loan EXCEPT !.state = "Repaid"]
  BY <1>6
<1> HIDE DEF id
<1>8. /\ Owed(loans[id], r, u) \in Nat
      /\ Owed(loans'[id], r, u) = Owed(loans[id], r, u) + (-scaled)
      /\ \A rr \in Reserves, uu \in Users : rr # r \/ uu # u =>
           Owed(loans[id], rr, uu) = 0 /\ Owed(loans'[id], rr, uu) = 0
      /\ \A rr \in Reserves : /\ Staked(loans[id], rr) = 0
                              /\ Staked(loans'[id], rr) = 0
  BY <1>3, <1>7 DEF LoanData, Owed, Staked, IsOpen
<1>9. debtBalance' = [debtBalance EXCEPT ![r][u] = @ + (-scaled)]
  BY <1>1, <1>3, <1>7 DEF PoolTypeOK
<1>10. \A rr \in Reserves, uu \in Users :
         debtBalance'[rr][uu] + Owed(loans[id], rr, uu) =
           debtBalance[rr][uu] + Owed(loans'[id], rr, uu)
  <2>1. -scaled \in Int
    OBVIOUS
  <2>2. DebtMoves(id, r, u, -scaled)
    BY <1>8, <1>9, Zenon DEF DebtMoves
  <2> QED
    BY <1>1, <1>3, <2>1, <2>2, DebtFollows, Zenon
<1> QED
  BY <1>1, <1>3, <1>5, <1>8, <1>10 DEF BooksFollow, OneLoanMoves

LEMMA AuctionBooksKept ==
  ASSUME Inv, NEW n \in Nfts, NEW ob \in Users, NEW b \in BidPrices,
         Auction(n, ob, b)
  PROVE  \E id \in LoanIds : BooksFollow(id)
<1> DEFINE id == nftToLoanIds[n]
           loan == loans[id]
           r == loan.reserveAsset
<1>1. LedgerInv /\ PoolTypeOK /\ b \in Nat /\ b > 0 /\ id # 0
  BY InvParts, InputAssumption DEF Auction
<1>2. id \in LoanIds /\ loan \in LoanData /\ IsOpen(loan) /\ r \in Reserves
  BY <1>1, LoanOfToken
<1>3. OneLoanMoves(id)
  BY <1>1, <1>2, AuctionMoves DEF Auction
<1>4. /\ loans'[id].state = "Auction" /\ loans'[id].bidPrice = b
      /\ loans'[id].reserveAsset = r
      /\ loans'[id].borrower = loan.borrower
      /\ loans'[id].scaledAmount = loan.scaledAmount
  BY <1>1, <1>2, LoanFields DEF Auction, AuctionLoan, LoanData
<1>5. Staked(loan, r) = Refund(loan) /\ Refund(loan) \in Nat
  <2>1. /\ loan.bidderAddress # ZeroAddress <=> loan.state = "Auction"
        /\ loan.bidPrice \in Nat
    BY <1>1, <1>2 DEF LedgerInv, AuctionBooks, LoanData
  <2> QED
    BY <2>1 DEF Refund, Staked
<1>6. Staked(loans'[id], r) = b
  BY <1>4 DEF Staked
<1>7. \A rr \in Reserves \ {r} : Staked(loan, rr) = 0 /\ Staked(loans'[id], rr) = 0
  BY <1>4 DEF Staked
<1>8. poolBalance' = [poolBalance EXCEPT ![r] = @ + b - Refund(loan)]
  BY DEF Auction
<1>9. \A rr \in Reserves :
        poolBalance'[rr] + Staked(loan, rr) =
          poolBalance[rr] + Staked(loans'[id], rr)
  <2> SUFFICES ASSUME NEW rr \in Reserves
               PROVE  poolBalance'[rr] + Staked(loan, rr) =
                        poolBalance[rr] + Staked(loans'[id], rr)
    OBVIOUS
  <2>1. CASE rr = r
    BY <1>1, <1>2, <1>5, <1>6, <1>8, <2>1 DEF PoolTypeOK
  <2>2. CASE rr # r
    BY <1>1, <1>2, <1>7, <1>8, <2>2 DEF PoolTypeOK
  <2> QED
    BY <2>1, <2>2
<1>10. \A rr \in Reserves, uu \in Users :
         debtBalance'[rr][uu] + Owed(loans[id], rr, uu) =
           debtBalance[rr][uu] + Owed(loans'[id], rr, uu)
  <2>1. debtBalance' = debtBalance /\ IsOpen(loans'[id])
    BY <1>4 DEF Auction, IsOpen
  <2> QED
    BY <1>1, <1>2, <1>4, <2>1, NothingOwedChanges
<1> QED
  BY <1>2, <1>3, <1>9, <1>10 DEF BooksFollow, OneLoanMoves

LEMMA RedeemBooks ==
  ASSUME Inv, NEW n \in Nfts, NEW a \in Amounts, Redeem(n, a)
  PROVE  \E id \in LoanIds : BooksFollow(id)
<1> DEFINE id == nftToLoanIds[n]
           loan == loans[id]
           r == loan.reserveAsset
           u == loan.borrower
<1>1. LedgerInv /\ PoolTypeOK /\ a \in Nat /\ id # 0
  BY InvParts, InputAssumption DEF Redeem
<1>2. PICK index \in Ray..MaxIndex :
        RedeemLoan(id, a, index) /\ BurnDebt(r, u, a, index)
  BY DEF Redeem
<1>3. /\ id \in LoanIds /\ loan \in LoanData
      /\ loan.state = "Auction" /\ r \in Reserves /\ u \in Users
  BY <1>1, LoanOfToken DEF Redeem
<1>4. OneLoanMoves(id)
  BY <1>1, <1>2, <1>3, RedeemMoves
<1> DEFINE scaled == RayDiv(a, index)
<1>5. scaled \in Nat /\ loan.scaledAmount >= scaled
  BY <1>1, <1>2, IndexType, RayDivType DEF RedeemLoan
<1>6. loans'[id] = [BidCleared(loan) EXCEPT
                      !.state = "Active",
                      !.scaledAmount = loan.scaledAmount - scaled]
  BY <1>1, <1>2, <1>3, LoanFields DEF RedeemLoan
<1>7. /\ debtBalance' = [debtBalance EXCEPT ![r][u] = @ - scaled]
      /\ poolBalance' = [poolBalance EXCEPT ![r] = @ - loan.bidPrice]
  BY <1>2 DEF BurnDebt, Redeem
<1> HIDE DEF id, scaled
<1>8. /\ loans'[id].state = "Active" /\ loans'[id].reserveAsset = r
      /\ loans'[id].borrower = u
      /\ loans'[id].scaledAmount = loan.scaledAmount - scaled
  BY <1>3, <1>6 DEF BidCleared, LoanData
<1>9. /\ Owed(loans[id], r, u) \in Nat
      /\ Owed(loans'[id], r, u) = Owed(loans[id], r, u) + (-scaled)
      /\ \A rr \in Reserves, uu \in Users : rr # r \/ uu # u =>
           Owed(loans[id], rr, uu) = 0 /\ Owed(loans'[id], rr, uu) = 0
  BY <1>3, <1>5, <1>8 DEF LoanData, Owed, IsOpen
<1>10. debtBalance' = [debtBalance EXCEPT ![r][u] = @ + (-scaled)]
  BY <1>1, <1>3, <1>5, <1>7 DEF PoolTypeOK
<1>11. \A rr \in Reserves, uu \in Users :
         debtBalance'[rr][uu] + Owed(loans[id], rr, uu) =
           debtBalance[rr][uu] + Owed(loans'[id], rr, uu)
  <2>1. -scaled \in Int
    BY <1>5
  <2>2. DebtMoves(id, r, u, -scaled)
    BY <1>9, <1>10, Zenon DEF DebtMoves
  <2> QED
    BY <1>1, <1>3, <2>1, <2>2, DebtFollows, Zenon
<1>12. ASSUME NEW rr \in Reserves
       PROVE  poolBalance'[rr] + Staked(loan, rr) =
                poolBalance[rr] + Staked(loans'[id], rr)
  <2>1. CASE rr = r
    BY <1>1, <1>3, <1>7, <1>8, <2>1 DEF PoolTypeOK, Staked, LoanData
  <2>2. CASE rr # r
    BY <1>1, <1>3, <1>7, <1>8, <2>2 DEF PoolTypeOK, Staked
  <2> QED
    BY <2>1, <2>2
<1> QED
  BY <1>3, <1>4, <1>11, <1>12 DEF BooksFollow, OneLoanMoves

LEMMA LiquidateBooks ==
  ASSUME Inv, NEW n \in Nfts, NEW a \in Amounts \cup {0}, Liquidate(n, a)
  PROVE  \E id \in LoanIds : BooksFollow(id)
<1> DEFINE id == nftToLoanIds[n]
           loan == loans[id]
           r == loan.reserveAsset
           u == loan.borrower
           debt(i) == BorrowAmount(loan, i)
           extra(i) == IF loan.bidPrice < debt(i) THEN debt(i) - loan.bidPrice ELSE 0
           remain(i) == IF loan.bidPrice > debt(i) THEN loan.bidPrice - debt(i) ELSE 0
<1>1. LedgerInv /\ PoolTypeOK /\ id # 0
  BY InvParts DEF Liquidate
<1>2. PICK index \in Ray..MaxIndex :
        /\ LiquidateLoan(id, loan.bidderAddress)
        /\ BurnDebt(r, u, debt(index), index)
        /\ poolBalance' = [poolBalance EXCEPT
             ![r] = poolBalance[r] + extra(index) - debt(index) - remain(index)]
  BY Zenon DEF Liquidate
<1>3. /\ id \in LoanIds /\ loan \in LoanData
      /\ loan.state = "Auction" /\ r \in Reserves /\ u \in Users
      /\ loan.scaledAmount \in Nat /\ loan.bidPrice \in Nat
  BY <1>1, LoanOfToken DEF Liquidate, LoanData
<1>4. OneLoanMoves(id)
  BY <1>1, <1>2, <1>3, LiquidateMoves
<1> DEFINE scaled == loan.scaledAmount
<1>5. debtBalance' = [debtBalance EXCEPT ![r][u] = @ - scaled]
  <2>1. RayDiv(debt(index), index) = scaled
    BY <1>3, IndexType, ScaledRoundTrip DEF BorrowAmount
  <2> QED
    BY <1>2, <2>1 DEF BurnDebt
<1>6. loans'[id] = [loan EXCEPT !.state = "Defaulted"]
  BY <1>1, <1>2, <1>3, LoanFields DEF LiquidateLoan, CloseLoan
<1>7. poolBalance' = [poolBalance EXCEPT ![r] = poolBalance[r] - loan.bidPrice]
  <2>1. debt(index) \in Nat
    BY <1>1, DebtType
  <2>2. poolBalance[r] \in Nat
    BY <1>1, <1>3 DEF PoolTypeOK
  <2> HIDE DEF debt
  <2>3. poolBalance[r] + extra(index) - debt(index) - remain(index)
          = poolBalance[r] - loan.bidPrice
    BY <1>3, <2>1, <2>2
  <2> QED
    BY <1>2, <2>3
<1> HIDE DEF id
<1>8. /\ Owed(loans[id], r, u) \in Nat
      /\ Owed(loans'[id], r, u) = Owed(loans[id], r, u) + (-scaled)
      /\ \A rr \in Reserves, uu \in Users : rr # r \/ uu # u =>
           Owed(loans[id], rr, uu) = 0 /\ Owed(loans'[id], rr, uu) = 0
  BY <1>3, <1>6 DEF LoanData, Owed, IsOpen
<1>9. debtBalance' = [debtBalance EXCEPT ![r][u] = @ + (-scaled)]
  BY <1>1, <1>3, <1>5 DEF PoolTypeOK
<1>10. \A rr \in Reserves, uu \in Users :
         debtBalance'[rr][uu] + Owed(loans[id], rr, uu) =
           debtBalance[rr][uu] + Owed(loans'[id], rr, uu)
  <2>1. -scaled \in Int
    BY <1>3
  <2>2. DebtMoves(id, r, u, -scaled)
    BY <1>8, <1>9, Zenon DEF DebtMoves
  <2> QED
    BY <1>1, <1>3, <2>1, <2>2, DebtFollows, Zenon
<1>11. ASSUME NEW rr \in Reserves
       PROVE  poolBalance'[rr] + Staked(loan, rr) =
                poolBalance[rr] + Staked(loans'[id], rr)
  <2>1. CASE rr = r
    BY <1>1, <1>3, <1>6, <1>7, <2>1 DEF PoolTypeOK, Staked, LoanData
  <2>2. CASE rr # r
    BY <1>1, <1>3, <1>6, <1>7, <2>2 DEF PoolTypeOK, Staked, LoanData
  <2> QED
    BY <2>1, <2>2
<1> QED
  BY <1>3, <1>4, <1>10, <1>11 DEF BooksFollow, OneLoanMoves

(* Only the five transactions of the pool touch loans, debts or escrow. *)
LEMMA BooksMove ==
  ASSUME Inv, [Next]_vars
  PROVE  \/ /\ loans' = loans
            /\ debtBalance' = debtBalance /\ poolBalance' = poolBalance
         \/ \E id \in LoanIds : BooksFollow(id)
<1>1. CASE PoolStep
  BY <1>1, BorrowBooks, RepayBooks, AuctionBooksKept, RedeemBooks, LiquidateBooks
     DEF PoolStep
<1>2. CASE TokenStep
  BY <1>2 DEF TokenStep, NftTransfer, UserMintsBnft, UserBurnsBnft,
     ApproveDelegation, loanVars, debtVars
<1>3. CASE AdminStep
  BY <1>3 DEF AdminStep, SetPause, SetPausedTime, ConfigureNftAsCollateral,
     ConfigureNftAsAuction, BatchConfigNft, SetActiveFlagOnNft,
     SetFreezeFlagOnNft, SetReserveFlag, loanVars, debtVars
<1>4. CASE OracleStep \/ Tick \/ UNCHANGED vars
  BY <1>4 DEF OracleStep, SetNftPrice, SetPriceStale, Tick, vars, loanVars,
     debtVars
<1> QED
  BY <1>1, <1>2, <1>3, <1>4 DEF Next

LEMMA BooksInductive ==
  ASSUME Inv, Inv', Books, [Next]_vars
  PROVE  Books'
<1>1. CASE /\ loans' = loans
           /\ debtBalance' = debtBalance /\ poolBalance' = poolBalance
  BY <1>1 DEF Books, DebtMatchesLoans, EscrowMatchesBids, ScaledAmounts,
     StandingBids, OpenLoansOf, AuctionsIn
<1>2. CASE \E id \in LoanIds : BooksFollow(id)
  BY <1>2, BooksKept
<1> QED
  BY <1>1, <1>2, BooksMove

LEMMA BooksInit == Init => Books
<1> SUFFICES ASSUME Init PROVE Books
  OBVIOUS
<1>1. ASSUME NEW r \in Reserves, NEW u \in Users
      PROVE  OpenLoansOf(r, u) = {} /\ AuctionsIn(r) = {}
  BY DEF Init, LoanInit, EmptyLoan, OpenLoansOf, AuctionsIn, IsOpen
<1>2. ASSUME NEW r \in Reserves
      PROVE  AuctionsIn(r) = {}
  BY DEF Init, LoanInit, EmptyLoan, AuctionsIn
<1> QED
  BY <1>1, <1>2, SumEmpty DEF Init, Books, DebtMatchesLoans, EscrowMatchesBids

LEMMA BooksCorrect == Spec => []Books
BY BooksInit, BooksInductive, InvCorrect, PTL DEF Spec

(***************************************************************************)
(* Each user's debt tokens are the sum of what his open loans owe: no debt *)
(* without its loan, and no loan whose repayment could not burn its debt.  *)
(***************************************************************************)
THEOREM DebtMatchesLoansCorrect == Spec => []DebtMatchesLoans
BY BooksCorrect, PTL DEF Books

(***************************************************************************)
(* The pool holds exactly the standing bids of the running auctions.       *)
(***************************************************************************)
THEOREM EscrowMatchesBidsCorrect == Spec => []EscrowMatchesBids
BY BooksCorrect, PTL DEF Books

-----------------------------------------------------------------------------
(***************************************************************************)
(* The collateral counters.  A loan that opens pledges one more token, of  *)
(* its borrower; one that closes releases it; nothing else touches a token *)
(* that backs a loan.                                                      *)
(***************************************************************************)
Pledged == {n \in Nfts : nftToLoanIds[n] # 0}

PledgedBy(u) == {n \in Nfts : nftToLoanIds[n] # 0 /\ bnftOwner[n] = u}

TokenPledged(n, u) ==
  /\ n \notin Pledged
  /\ Pledged' = Pledged \cup {n}
  /\ PledgedBy(u)' = PledgedBy(u) \cup {n}
  /\ \A v \in Users \ {u} : PledgedBy(v)' = PledgedBy(v)
  /\ CountLoan(u, 1)

TokenFreed(n, u) ==
  /\ n \in PledgedBy(u)
  /\ Pledged' = Pledged \ {n}
  /\ PledgedBy(u)' = PledgedBy(u) \ {n}
  /\ \A v \in Users \ {u} : PledgedBy(v)' = PledgedBy(v)
  /\ CountLoan(u, -1)

NoTokenMoves ==
  /\ Pledged' = Pledged
  /\ \A u \in Users : PledgedBy(u)' = PledgedBy(u)
  /\ UNCHANGED <<userNftCollateral, nftTotalCollateral>>

PledgeStep ==
  \/ NoTokenMoves
  \/ \E n \in Nfts, u \in Users : TokenPledged(n, u) \/ TokenFreed(n, u)

LEMMA CreatePledges ==
  ASSUME LedgerInv, NEW ob \in Users, NEW n \in Nfts, NEW r, NEW a, NEW index,
         CreateLoan(ob, n, r, a, index)
  PROVE  TokenPledged(n, ob)
<1>1. /\ loanIdTracker # 0 /\ nftToLoanIds[n] = 0
      /\ nftToLoanIds \in [Nfts -> 0..MaxLoans]
      /\ bnftOwner \in [Nfts -> Users \cup {ZeroAddress}]
  BY MaxLoansAssumption, SMT DEF LedgerInv, LoanTypeOK, CreateLoan
<1>2. /\ nftToLoanIds' = [nftToLoanIds EXCEPT ![n] = loanIdTracker]
      /\ bnftOwner' = [bnftOwner EXCEPT ![n] = ob]
      /\ CountLoan(ob, 1)
  BY DEF CreateLoan, BnftMint
<1>3. \A m \in Nfts \ {n} : /\ nftToLoanIds'[m] = nftToLoanIds[m]
                            /\ bnftOwner'[m] = bnftOwner[m]
  BY <1>1, <1>2
<1>4. nftToLoanIds'[n] # 0 /\ bnftOwner'[n] = ob
  BY <1>1, <1>2
<1> QED
  BY <1>1, <1>2, <1>3, <1>4 DEF TokenPledged, Pledged, PledgedBy

LEMMA CloseFrees ==
  ASSUME LedgerInv, NEW n \in Nfts, nftToLoanIds[n] # 0,
         NEW finalState, NEW receiver,
         CloseLoan(nftToLoanIds[n], finalState, receiver)
  PROVE  \E u \in Users : TokenFreed(n, u)
<1>1. PICK u \in Users : u = loans[nftToLoanIds[n]].borrower
  BY LoanOfToken
<1>2. /\ loans[nftToLoanIds[n]].nft = n
      /\ nftToLoanIds \in [Nfts -> 0..MaxLoans]
      /\ bnftOwner \in [Nfts -> Users \cup {ZeroAddress}]
      /\ bnftOwner[n] = u
  BY <1>1, LoanOfToken DEF LedgerInv, LoanTypeOK, Custody
<1>3. /\ nftToLoanIds' = [nftToLoanIds EXCEPT ![n] = 0]
      /\ bnftOwner' = [bnftOwner EXCEPT ![n] = ZeroAddress]
      /\ CountLoan(u, -1)
  BY <1>1, <1>2 DEF CloseLoan, BnftBurn, TokenReleased
<1>4. \A m \in Nfts \ {n} : /\ nftToLoanIds'[m] = nftToLoanIds[m]
                            /\ bnftOwner'[m] = bnftOwner[m]
  BY <1>2, <1>3
<1>5. nftToLoanIds'[n] = 0
  BY <1>2, <1>3
<1>6. Pledged' = Pledged \ {n}
  BY <1>4, <1>5 DEF Pledged
<1>7. PledgedBy(u)' = PledgedBy(u) \ {n} /\ n \in PledgedBy(u)
  BY <1>2, <1>4, <1>5 DEF PledgedBy
<1>8. \A v \in Users \ {u} : PledgedBy(v)' = PledgedBy(v)
  BY <1>2, <1>4, <1>5 DEF PledgedBy
<1> QED
  BY <1>2, <1>3, <1>6, <1>7, <1>8, Zenon DEF TokenFreed

(* The owners' own bNFTs are of tokens that back no loan. *)
LEMMA OwnBnft ==
  ASSUME LedgerInv, NEW u \in Users, NEW n \in Nfts,
         UserMintsBnft(u, n) \/ UserBurnsBnft(u, n)
  PROVE  NoTokenMoves
<1>1. nftToLoanIds[n] = 0
  <2>1. CASE UserMintsBnft(u, n)
    BY <2>1, LoanOfToken, AddressAssumption
       DEF UserMintsBnft, BnftMint, LedgerInv, Custody
  <2>2. CASE UserBurnsBnft(u, n)
    BY <2>2, AddressAssumption DEF UserBurnsBnft, BnftBurn, LedgerInv, Custody
  <2> QED
    BY <2>1, <2>2
<1>2. \A m \in Nfts \ {n} : bnftOwner'[m] = bnftOwner[m]
  BY DEF UserMintsBnft, BnftMint, UserBurnsBnft, BnftBurn, LedgerInv, LoanTypeOK
<1>3. UNCHANGED <<nftToLoanIds, userNftCollateral, nftTotalCollateral>>
  BY DEF UserMintsBnft, UserBurnsBnft
<1> QED
  BY <1>1, <1>2, <1>3 DEF NoTokenMoves, Pledged, PledgedBy

LEMMA NothingPledged ==
  ASSUME UNCHANGED <<nftToLoanIds, userNftCollateral, nftTotalCollateral,
                     bnftOwner>>
  PROVE  NoTokenMoves
BY DEF NoTokenMoves, Pledged, PledgedBy

LEMMA PledgesMove ==
  ASSUME Inv, [Next]_vars
  PROVE  PledgeStep
<1>1. LedgerInv
  BY DEF Inv
<1>2. CASE PoolStep
  <2>1. ASSUME NEW u \in Users, NEW ob \in Users, NEW r \in Reserves,
               NEW n \in Nfts, NEW a \in Amounts, Borrow(u, ob, r, n, a)
        PROVE  PledgeStep
    <3>1. PICK index \in Ray..MaxIndex :
            \/ CreateLoan(ob, n, r, a, index)
            \/ AddToLoan(nftToLoanIds[n], a, index)
      BY <2>1 DEF Borrow
    <3>2. CASE CreateLoan(ob, n, r, a, index)
      BY <1>1, <3>2, CreatePledges DEF PledgeStep
    <3>3. CASE AddToLoan(nftToLoanIds[n], a, index)
      BY <3>3, NothingPledged DEF AddToLoan, PledgeStep
    <3> QED
      BY <3>1, <3>2, <3>3
  <2>2. ASSUME NEW n \in Nfts, NEW a \in Amounts, Repay(n, a)
        PROVE  PledgeStep
    <3>1. PICK index \in Ray..MaxIndex :
            \/ TakeFromLoan(nftToLoanIds[n], a, index)
            \/ RepayLoan(nftToLoanIds[n], loans[nftToLoanIds[n]].borrower)
      BY <2>2 DEF Repay
    <3>2. CASE TakeFromLoan(nftToLoanIds[n], a, index)
      BY <3>2, NothingPledged DEF TakeFromLoan, PledgeStep
    <3>3. CASE RepayLoan(nftToLoanIds[n], loans[nftToLoanIds[n]].borrower)
      BY <1>1, <2>2, <3>3, CloseFrees DEF Repay, RepayLoan, PledgeStep
    <3> QED
      BY <3>1, <3>2, <3>3
  <2>3. ASSUME NEW n \in Nfts, NEW ob \in Users, NEW b \in BidPrices,
               Auction(n, ob, b)
        PROVE  PledgeStep
    BY <2>3, NothingPledged DEF Auction, AuctionLoan, PledgeStep
  <2>4. ASSUME NEW n \in Nfts, NEW a \in Amounts, Redeem(n, a)
        PROVE  PledgeStep
    BY <2>4, NothingPledged DEF Redeem, RedeemLoan, PledgeStep
  <2>5. ASSUME NEW n \in Nfts, NEW a \in Amounts \cup {0}, Liquidate(n, a)
        PROVE  PledgeStep
    BY <1>1, <2>5, CloseFrees DEF Liquidate, LiquidateLoan, PledgeStep
  <2> QED
    BY <1>2, <2>1, <2>2, <2>3, <2>4, <2>5 DEF PoolStep
<1>3. CASE TokenStep
  <2>1. ASSUME NEW n \in Nfts, NEW u \in Users,
               UserMintsBnft(u, n) \/ UserBurnsBnft(u, n)
        PROVE  PledgeStep
    BY <1>1, <2>1, OwnBnft DEF PledgeStep
  <2>2. ASSUME NEW n, NEW u, NEW v, NftTransfer(n, u, v)
        PROVE  PledgeStep
    BY <2>2, NothingPledged DEF NftTransfer, PledgeStep
  <2>3. ASSUME NEW r, NEW u, NEW v, NEW a, ApproveDelegation(r, u, v, a)
        PROVE  PledgeStep
    BY <2>3, NothingPledged DEF ApproveDelegation, loanVars, PledgeStep
  <2> QED
    BY <1>3, <2>1, <2>2, <2>3 DEF TokenStep
<1>4. CASE AdminStep
  <2>1. UNCHANGED loanVars
    BY <1>4 DEF AdminStep, SetPause, SetPausedTime, ConfigureNftAsCollateral,
       ConfigureNftAsAuction, BatchConfigNft, SetActiveFlagOnNft,
       SetFreezeFlagOnNft, SetReserveFlag
  <2> QED
    BY <2>1, NothingPledged DEF loanVars, PledgeStep
<1>5. CASE OracleStep \/ Tick \/ UNCHANGED vars
  <2>1. UNCHANGED loanVars
    BY <1>5 DEF OracleStep, SetNftPrice, SetPriceStale, Tick, vars
  <2> QED
    BY <2>1, NothingPledged DEF loanVars, PledgeStep
<1> QED
  BY <1>2, <1>3, <1>4, <1>5 DEF Next

LEMMA CountersInductive ==
  ASSUME Inv, CollateralCounters, PledgeStep
  PROVE  CollateralCounters'
<1>1. /\ IsFiniteSet(Pledged)
      /\ \A u \in Users : IsFiniteSet(PledgedBy(u))
  BY FS_Subset, FiniteAssumption DEF Pledged, PledgedBy
<1>2. /\ nftTotalCollateral = Cardinality(Pledged)
      /\ \A u \in Users : userNftCollateral[u] = Cardinality(PledgedBy(u))
      /\ userNftCollateral \in [Users -> Nat]
  BY DEF CollateralCounters, Pledged, PledgedBy, Inv, TypeOK, LoanTypeOK
<1> SUFFICES /\ nftTotalCollateral' = Cardinality(Pledged')
             /\ \A u \in Users :
                  userNftCollateral'[u] = Cardinality(PledgedBy(u)')
  BY DEF CollateralCounters, Pledged, PledgedBy
<1>3. CASE NoTokenMoves
  BY <1>2, <1>3 DEF NoTokenMoves
<1>4. ASSUME NEW n \in Nfts, NEW u \in Users, TokenPledged(n, u)
      PROVE  /\ nftTotalCollateral' = Cardinality(Pledged')
             /\ \A v \in Users :
                  userNftCollateral'[v] = Cardinality(PledgedBy(v)')
  <2>1. n \notin Pledged /\ n \notin PledgedBy(u)
    BY <1>4 DEF TokenPledged, Pledged, PledgedBy
  <2>2. /\ Cardinality(Pledged') = Cardinality(Pledged) + 1
        /\ Cardinality(PledgedBy(u)') = Cardinality(PledgedBy(u)) + 1
    BY <1>1, <1>4, <2>1, FS_AddElement DEF TokenPledged
  <2>3. /\ nftTotalCollateral' = nftTotalCollateral + 1
        /\ userNftCollateral'[u] = userNftCollateral[u] + 1
        /\ \A v \in Users \ {u} : userNftCollateral'[v] = userNftCollateral[v]
    BY <1>2, <1>4 DEF TokenPledged, CountLoan
  <2> QED
    BY <1>2, <1>4, <2>2, <2>3 DEF TokenPledged
<1>5. ASSUME NEW n \in Nfts, NEW u \in Users, TokenFreed(n, u)
      PROVE  /\ nftTotalCollateral' = Cardinality(Pledged')
             /\ \A v \in Users :
                  userNftCollateral'[v] = Cardinality(PledgedBy(v)')
  <2>1. n \in Pledged /\ n \in PledgedBy(u)
    BY <1>5 DEF TokenFreed, Pledged, PledgedBy
  <2>2. /\ Cardinality(Pledged') = Cardinality(Pledged) - 1
        /\ Cardinality(PledgedBy(u)') = Cardinality(PledgedBy(u)) - 1
    BY <1>1, <1>5, <2>1, FS_RemoveElement DEF TokenFreed
  <2>3. /\ nftTotalCollateral' = nftTotalCollateral - 1
        /\ userNftCollateral'[u] = userNftCollateral[u] - 1
        /\ \A v \in Users \ {u} : userNftCollateral'[v] = userNftCollateral[v]
    <3>1. CountLoan(u, -1) /\ nftTotalCollateral \in Nat
      BY <1>5 DEF TokenFreed, Inv, TypeOK, LoanTypeOK
    <3> QED
      BY <1>2, <3>1 DEF CountLoan
  <2> QED
    BY <1>2, <1>5, <2>2, <2>3 DEF TokenFreed
<1> QED
  BY <1>3, <1>4, <1>5 DEF PledgeStep

(***************************************************************************)
(* The collateral counters count the tokens that back open loans, in all   *)
(* and per borrower: the guard of setActiveFlagOnNft reads the truth.      *)
(***************************************************************************)
THEOREM CollateralCountersCorrect == Spec => []CollateralCounters
<1>1. Init => CollateralCounters
  <2> SUFFICES ASSUME Init PROVE CollateralCounters
    OBVIOUS
  <2>1. /\ {n \in Nfts : nftToLoanIds[n] # 0} = {}
        /\ \A u \in Users :
             {n \in Nfts : nftToLoanIds[n] # 0 /\ bnftOwner[n] = u} = {}
    BY DEF Init, LoanInit
  <2> QED
    BY <2>1, FS_EmptySet DEF Init, LoanInit, CollateralCounters
<1>2. Inv /\ CollateralCounters /\ [Next]_vars => CollateralCounters'
  BY PledgesMove, CountersInductive
<1> QED
  BY <1>1, <1>2, InvCorrect, PTL DEF Spec

-----------------------------------------------------------------------------
(***************************************************************************)
(* Pauses.  While the pool is paused no auction starts, so every one that  *)
(* runs had started when the pause began; while it is not, the last pause  *)
(* is over, so an auction that starts now started after it.                *)
(***************************************************************************)
PauseInv ==
  /\ pauseStartTime <= now
  /\ ~paused => pauseStartTime + pauseDurationTime <= now
  /\ paused => \A id \in LoanIds : loans[id].state = "Auction" =>
                 loans[id].bidStartTimestamp <= pauseStartTime

(* What a step may do to the pause: the pool's transactions need it to be  *)
(* over, the administrator starts or ends it, and time may pass.           *)
LEMMA PauseMoves ==
  ASSUME Inv, PausedTimes = {}, [Next]_vars
  PROVE  \/ ~paused /\ UNCHANGED <<pauseVars, now>>
         \/ loans' = loans /\ \E val \in BOOLEAN : SetPause(val)
         \/ loans' = loans /\ UNCHANGED pauseVars /\ now' >= now
<1>1. now \in Nat
  BY DEF Inv, TypeOK
<1>2. CASE PoolStep
  BY <1>2, PoolLeaves
<1>3. CASE TokenStep
  BY <1>1, <1>3 DEF TokenStep, NftTransfer, UserMintsBnft, UserBurnsBnft,
     ApproveDelegation, loanVars
<1>4. CASE AdminStep
  <2>1. CASE \E val \in BOOLEAN : SetPause(val)
    BY <2>1 DEF SetPause, loanVars
  <2>2. CASE ~ \E val \in BOOLEAN : SetPause(val)
    <3>1. UNCHANGED <<loanVars, pauseVars, now>>
      BY <1>4, <2>2 DEF AdminStep, ConfigureNftAsCollateral,
         ConfigureNftAsAuction, BatchConfigNft, SetActiveFlagOnNft,
         SetFreezeFlagOnNft, SetReserveFlag
    <3> QED
      BY <1>1, <3>1 DEF loanVars
  <2> QED
    BY <2>1, <2>2
<1>5. CASE OracleStep \/ Tick \/ UNCHANGED vars
  BY <1>1, <1>5 DEF OracleStep, SetNftPrice, SetPriceStale, Tick, vars, loanVars
<1> QED
  BY <1>2, <1>3, <1>4, <1>5 DEF Next

LEMMA PauseInductive ==
  ASSUME Inv, PauseInv, PausedTimes = {}, [Next]_vars
  PROVE  PauseInv'
<1>1. /\ now \in Nat /\ pauseStartTime \in Nat /\ pauseDurationTime \in Nat
      /\ paused \in BOOLEAN
  BY DEF Inv, TypeOK
<1>2. \A id \in LoanIds : loans[id].state = "Auction" =>
        loans[id].bidStartTimestamp <= now
  BY DEF Inv, LedgerInv, AuctionBooks, IsOpen
<1>3. CASE ~paused /\ UNCHANGED <<pauseVars, now>>
  BY <1>3 DEF PauseInv, pauseVars
<1>4. CASE loans' = loans /\ \E val \in BOOLEAN : SetPause(val)
  BY <1>1, <1>2, <1>4 DEF PauseInv, SetPause
<1>5. CASE loans' = loans /\ UNCHANGED pauseVars /\ now' >= now
  <2>1. now' \in Int
    BY NextInv DEF Inv, TypeOK
  <2> QED
    BY <1>1, <1>5, <2>1 DEF PauseInv, pauseVars
<1> QED
  BY <1>3, <1>4, <1>5, PauseMoves

(***************************************************************************)
(* Unpausing prolongs each running auction by the length of the pause, and *)
(* an auction that starts is not prolonged by an earlier pause.  The       *)
(* hypothesis leaves out setPausedTime, with which the administrator may   *)
(* set any start and any duration.                                         *)
(***************************************************************************)
THEOREM PauseProlongsAuctionsCorrect ==
  ASSUME PausedTimes = {}
  PROVE  Spec => PauseProlongsAuctions
<1>1. Init => PauseInv
  BY DEF Init, PauseInv
<1>2. Inv /\ PauseInv /\ [Next]_vars => PauseInv'
  BY PauseInductive
<1>3. ASSUME Inv, PauseInv, [Next]_vars,
             NEW id \in LoanIds, loans'[id].state = "Auction"
      PROVE  /\ (paused /\ ~paused') =>
                  ExtraDuration(loans[id])' = now - pauseStartTime
             /\ loans[id].state # "Auction" => ExtraDuration(loans[id])' = 0
  <2>1. /\ now \in Nat /\ pauseStartTime \in Nat /\ pauseDurationTime \in Nat
        /\ loans[id].bidStartTimestamp \in Nat
    BY <1>3 DEF Inv, TypeOK, LoanTypeOK, LoanData
  <2>2. CASE ~paused /\ UNCHANGED <<pauseVars, now>>
    <3>1. loans[id].state # "Auction" => loans'[id].bidStartTimestamp = now
      BY <1>3, LoanMoves DEF OneLoanMoves, LoanMove
    <3> QED
      BY <1>3, <2>1, <2>2, <3>1 DEF PauseInv, ExtraDuration, pauseVars
  <2>3. CASE loans' = loans /\ \E val \in BOOLEAN : SetPause(val)
    BY <1>3, <2>1, <2>3 DEF PauseInv, SetPause, ExtraDuration
  <2>4. CASE loans' = loans /\ UNCHANGED pauseVars /\ now' >= now
    BY <1>3, <2>4 DEF pauseVars
  <2> QED
    BY <1>3, <2>2, <2>3, <2>4, PauseMoves
<1>4. Inv /\ PauseInv /\ [Next]_vars =>
        [\A id \in LoanIds : loans'[id].state = "Auction" =>
           /\ (paused /\ ~paused') =>
                ExtraDuration(loans[id])' = now - pauseStartTime
           /\ loans[id].state # "Auction" => ExtraDuration(loans[id])' = 0]_vars
  BY <1>3
<1> QED
  BY <1>1, <1>2, <1>4, InvCorrect, PTL DEF Spec, PauseProlongsAuctions

-----------------------------------------------------------------------------
(***************************************************************************)
(* Borrowing.  Only Borrow raises what a loan owes, and it lets a loan owe *)
(* what the loan-to-value ratio allows, which the configurator keeps at or *)
(* below the liquidation threshold.                                        *)
(***************************************************************************)
LtvInv ==
  /\ nftConfig.ltv <= nftConfig.liquidationThreshold
  /\ nftConfig.ltv <= PercentFactor

SoundLtv(c) == c.ltv <= PercentFactor

LEMMA LtvInvKept ==
  ASSUME Inv, LtvInv, [Next]_vars,
         \A c \in CollateralConfigs \cup BatchConfigs : SoundLtv(c)
  PROVE  LtvInv'
<1>1. nftConfig \in NftConfig
  BY DEF Inv, TypeOK
<1>2. CASE nftConfig' = nftConfig
  BY <1>2 DEF LtvInv
<1>3. ASSUME NEW c \in CollateralConfigs, ConfigureNftAsCollateral(c)
      PROVE  LtvInv'
  BY <1>1, <1>3 DEF ConfigureNftAsCollateral, ValidCollateralParams, SoundLtv,
     LtvInv, NftConfig
<1>4. ASSUME NEW c \in AuctionConfigs, ConfigureNftAsAuction(c)
      PROVE  LtvInv'
  BY <1>1, <1>4 DEF ConfigureNftAsAuction, LtvInv, NftConfig
<1>5. ASSUME NEW c \in BatchConfigs, BatchConfigNft(c)
      PROVE  LtvInv'
  BY <1>5 DEF BatchConfigNft, Listed, ValidCollateralParams, SoundLtv, LtvInv
<1>6. ASSUME NEW flag, SetActiveFlagOnNft(flag) \/ SetFreezeFlagOnNft(flag)
      PROVE  LtvInv'
  BY <1>1, <1>6 DEF SetActiveFlagOnNft, SetFreezeFlagOnNft, LtvInv, NftConfig
<1> QED
  BY <1>2, <1>3, <1>4, <1>5, <1>6, ConfigMoves

OwesNoMore ==
  \A i \in LoanIds : loans'[i].scaledAmount <= loans[i].scaledAmount

LEMMA OwesNoMoreWhenTaken ==
  ASSUME LedgerInv, NEW id \in LoanIds, NEW a \in Nat,
         NEW index \in Nat, index >= Ray,
         \/ TakeFromLoan(id, a, index)
         \/ RedeemLoan(id, a, index)
  PROVE  OwesNoMore
<1>1. RayDiv(a, index) \in Nat
  BY ScaledType
<1>2. \A i \in LoanIds : loans[i].scaledAmount \in Nat
  BY LoanFields DEF LoanData
<1>3. /\ loans'[id].scaledAmount = loans[id].scaledAmount - RayDiv(a, index)
      /\ \A i \in LoanIds \ {id} : loans'[i] = loans[i]
  <2>1. CASE TakeFromLoan(id, a, index)
    BY <2>1, LoanFields DEF TakeFromLoan, LoanData
  <2>2. CASE RedeemLoan(id, a, index)
    BY <2>2, LoanFields DEF RedeemLoan, BidCleared, LoanData
  <2> QED
    BY <2>1, <2>2
<1> QED
  BY <1>1, <1>2, <1>3 DEF OwesNoMore

LEMMA OwesTheSame ==
  ASSUME LedgerInv, NEW id \in LoanIds,
         \/ \E receiver : RepayLoan(id, receiver) \/ LiquidateLoan(id, receiver)
         \/ \E ob, b : AuctionLoan(id, ob, b, now)
  PROVE  OwesNoMore
<1>1. \A i \in LoanIds : loans[i].scaledAmount \in Nat
  BY LoanFields DEF LoanData
<1>2. \A i \in LoanIds : loans'[i].scaledAmount = loans[i].scaledAmount
  <2>1. ASSUME NEW state, loans' = [loans EXCEPT ![id].state = state],
               NEW i \in LoanIds
        PROVE  loans'[i].scaledAmount = loans[i].scaledAmount
    BY <2>1, LoanFields DEF LoanData
  <2>2. ASSUME NEW ob, NEW b, AuctionLoan(id, ob, b, now), NEW i \in LoanIds
        PROVE  loans'[i].scaledAmount = loans[i].scaledAmount
    <3>1. PICK start, first :
            loans' = [loans EXCEPT ![id] =
              [loans[id] EXCEPT !.state = "Auction",
                 !.bidStartTimestamp = start, !.firstBidderAddress = first,
                 !.bidderAddress = ob, !.bidPrice = b]]
      BY <2>2, Zenon DEF AuctionLoan
    <3> QED
      BY <3>1, LoanFields DEF LoanData
  <2> QED
    BY <2>1, <2>2 DEF RepayLoan, LiquidateLoan, CloseLoan
<1> QED
  BY <1>1, <1>2 DEF OwesNoMore

LEMMA OnlyBorrowRaises ==
  ASSUME Inv, [Next]_vars
  PROVE  \/ OwesNoMore
         \/ \E u, ob \in Users, r \in Reserves, n \in Nfts, a \in Amounts :
              Borrow(u, ob, r, n, a)
<1>1. LedgerInv
  BY DEF Inv
<1>2. \A i \in LoanIds : loans[i].scaledAmount \in Nat
  BY <1>1, LoanFields DEF LoanData
<1>3. loans' = loans => OwesNoMore
  BY <1>2 DEF OwesNoMore
<1>4. ASSUME NEW n \in Nfts, NEW a \in Amounts, Repay(n, a)
      PROVE  OwesNoMore
  <2>1. a \in Nat /\ nftToLoanIds[n] \in LoanIds
    BY <1>1, <1>4, InputAssumption, LoanOfToken DEF Repay
  <2>2. PICK index \in Ray..MaxIndex :
          \/ TakeFromLoan(nftToLoanIds[n], a, index)
          \/ RepayLoan(nftToLoanIds[n], loans[nftToLoanIds[n]].borrower)
    BY <1>4 DEF Repay
  <2> QED
    BY <1>1, <2>1, <2>2, IndexType, OwesNoMoreWhenTaken, OwesTheSame
<1>5. ASSUME NEW n \in Nfts, NEW ob \in Users, NEW b \in BidPrices,
             Auction(n, ob, b)
      PROVE  OwesNoMore
  BY <1>1, <1>5, LoanOfToken, OwesTheSame DEF Auction
<1>6. ASSUME NEW n \in Nfts, NEW a \in Amounts, Redeem(n, a)
      PROVE  OwesNoMore
  <2>1. a \in Nat /\ nftToLoanIds[n] \in LoanIds
    BY <1>1, <1>6, InputAssumption, LoanOfToken DEF Redeem
  <2>2. PICK index \in Ray..MaxIndex : RedeemLoan(nftToLoanIds[n], a, index)
    BY <1>6 DEF Redeem
  <2> QED
    BY <1>1, <2>1, <2>2, IndexType, OwesNoMoreWhenTaken
<1>7. ASSUME NEW n \in Nfts, NEW a \in Amounts \cup {0}, Liquidate(n, a)
      PROVE  OwesNoMore
  BY <1>1, <1>7, LoanOfToken, OwesTheSame DEF Liquidate
<1>8. CASE PoolStep
  BY <1>4, <1>5, <1>6, <1>7, <1>8 DEF PoolStep
<1>9. CASE TokenStep
  BY <1>3, <1>9 DEF TokenStep, NftTransfer, UserMintsBnft, UserBurnsBnft,
     ApproveDelegation, loanVars
<1>10. CASE AdminStep
  BY <1>3, <1>10 DEF AdminStep, SetPause, SetPausedTime,
     ConfigureNftAsCollateral, ConfigureNftAsAuction, BatchConfigNft,
     SetActiveFlagOnNft, SetFreezeFlagOnNft, SetReserveFlag, loanVars
<1>11. CASE OracleStep \/ Tick \/ UNCHANGED vars
  BY <1>3, <1>11 DEF OracleStep, SetNftPrice, SetPriceStale, Tick, vars, loanVars
<1> QED
  BY <1>8, <1>9, <1>10, <1>11 DEF Next

LEMMA BorrowWithinThreshold ==
  ASSUME Inv, LtvInv, NEW u \in Users, NEW ob \in Users, NEW r \in Reserves,
         NEW n \in Nfts, NEW a \in Amounts, Borrow(u, ob, r, n, a),
         NEW id \in LoanIds, loans'[id].scaledAmount > loans[id].scaledAmount
  PROVE  LET reserve == loans'[id].reserveAsset IN
         BorrowAmount(loans'[id], borrowIndex'[reserve])
           <= ThresholdPrice(reserve) + IndexUnit(borrowIndex'[reserve])
<1>1. LedgerInv /\ PoolTypeOK /\ a \in Nat
  BY InvParts, InputAssumption
<1>2. PICK index \in Ray..MaxIndex :
        /\ UpdateState(r, index)
        /\ ValidateBorrow(ob, r, n, a, index)
        /\ \/ nftToLoanIds[n] = 0 /\ CreateLoan(ob, n, r, a, index)
           \/ nftToLoanIds[n] # 0 /\ AddToLoan(nftToLoanIds[n], a, index)
  BY DEF Borrow
<1>3. index \in Nat /\ index > 0 /\ borrowIndex'[r] = index
  BY <1>1, <1>2, IndexType DEF UpdateState, PoolTypeOK
<1> DEFINE s == loans[id].scaledAmount
           debt == RayMul(s, index)
           new == loans'[id]
<1>4. s \in Nat
  BY <1>1, LoanFields DEF LoanData
<1>5. /\ new.reserveAsset = r
      /\ new.scaledAmount = s + RayDiv(a, index)
      /\ AmountOfCollateralNeeded(debt, a) <= nftPrice[r]
  <2>1. CASE nftToLoanIds[n] = 0 /\ CreateLoan(ob, n, r, a, index)
    <3>1. loanIdTracker \in LoanIds /\ loans[loanIdTracker] = EmptyLoan
      BY <1>1, <2>1, MaxLoansAssumption, SMT
         DEF LedgerInv, LoanTypeOK, FreshIds, CreateLoan, LoanIds
    <3>2. id = loanIdTracker
      BY <1>1, <1>4, <2>1, LoanFields DEF CreateLoan
    <3>3. /\ new.reserveAsset = r /\ new.scaledAmount = RayDiv(a, index)
          /\ s = 0
      BY <1>1, <2>1, <3>1, <3>2, LoanFields DEF CreateLoan, EmptyLoan
    <3>4. RayDiv(a, index) \in Nat /\ debt = 0
      BY <1>1, <1>3, <3>3, RayDivType, RayMulZero
    <3> QED
      BY <1>2, <2>1, <3>3, <3>4 DEF ValidateBorrow
  <2>2. CASE nftToLoanIds[n] # 0 /\ AddToLoan(nftToLoanIds[n], a, index)
    <3>1. nftToLoanIds[n] \in LoanIds
      BY <1>1, <2>2, LoanOfToken
    <3>2. id = nftToLoanIds[n]
      BY <1>1, <1>4, <2>2, <3>1, LoanFields DEF AddToLoan
    <3>3. /\ loans[id].reserveAsset = r
          /\ new = [loans[id] EXCEPT !.scaledAmount = @ + RayDiv(a, index)]
      BY <1>1, <1>2, <2>2, <3>2, LoanFields DEF AddToLoan, ValidateBorrow
    <3> QED
      BY <1>1, <1>2, <2>2, <3>2, <3>3, LoanFields
         DEF ValidateBorrow, BorrowAmount, LoanData
  <2> QED
    BY <1>2, <2>1, <2>2
<1> HIDE DEF s
<1>6. debt \in Nat /\ debt + a \in Nat
  <2>1. debt \in Nat
    BY <1>3, <1>4, RayMulType
  <2> HIDE DEF debt
  <2> QED
    BY <1>1, <2>1
<1> HIDE DEF debt
<1>7. debt + a <= ThresholdPrice(r)
  <2>1. /\ nftPrice[r] \in Nat /\ nftConfig.ltv \in Nat
        /\ nftConfig.liquidationThreshold \in Nat
    BY <1>1, InputAssumption DEF PoolTypeOK, NftConfig
  <2>2. nftConfig.ltv # 0
    BY <1>2 DEF ValidateBorrow
  <2>3. PercentDiv(debt + a, nftConfig.ltv) <= nftPrice[r]
    BY <1>5 DEF AmountOfCollateralNeeded
  <2> QED
    BY <1>6, <2>1, <2>2, <2>3, LtvWithinThreshold DEF LtvInv, ThresholdPrice
<1>8. RayMul(s + RayDiv(a, index), index)
        <= debt + a + (1 + (index \div (2 * Ray)))
  BY <1>1, <1>3, <1>4, DebtAfterBorrowing DEF debt
<1>9. /\ BorrowAmount(new, index) <= debt + a + IndexUnit(index)
      /\ BorrowAmount(new, index) \in Nat
  <2>1. s + RayDiv(a, index) \in Nat
    BY <1>1, <1>3, <1>4, RayDivType
  <2> QED
    BY <1>3, <1>5, <1>8, <2>1, RayMulType DEF BorrowAmount, IndexUnit
<1>10. ThresholdPrice(r) \in Nat /\ IndexUnit(index) \in Nat
  <2>1. ThresholdPrice(r) \in Nat
    BY <1>1, InputAssumption, PercentMulType
       DEF PoolTypeOK, NftConfig, ThresholdPrice
  <2>2. index \div (2 * Ray) \in Nat
    BY <1>3, RayAssumption, SMT
  <2> QED
    BY <2>1, <2>2 DEF IndexUnit
<1>11. BorrowAmount(new, index) <= ThresholdPrice(r) + IndexUnit(index)
  BY <1>6, <1>7, <1>9, <1>10
<1> QED
  BY <1>3, <1>5, <1>11

(***************************************************************************)
(* Borrowing never makes a loan that can be auctioned at once, but for     *)
(* what rounding can add.  The hypothesis is that no collection is listed  *)
(* with a loan-to-value ratio above 100 percent: above it the rounding of  *)
(* the ratio itself can exceed that unit.                                  *)
(***************************************************************************)
THEOREM NoInstantLiquidationCorrect ==
  ASSUME SoundLtv(InitialConfig),
         \A c \in CollateralConfigs \cup BatchConfigs : SoundLtv(c)
  PROVE  Spec => NoInstantLiquidation
<1>1. Init => LtvInv
  BY ListingAssumption
     DEF Init, Listed, ValidCollateralParams, SoundLtv, LtvInv
<1>2. Inv /\ LtvInv /\ [Next]_vars => LtvInv'
  BY LtvInvKept
<1>3. ASSUME Inv, LtvInv, [Next]_vars, NEW id \in LoanIds,
             loans'[id].scaledAmount > loans[id].scaledAmount
      PROVE  LET reserve == loans'[id].reserveAsset IN
             BorrowAmount(loans'[id], borrowIndex'[reserve])
               <= ThresholdPrice(reserve) + IndexUnit(borrowIndex'[reserve])
  <2>1. loans[id].scaledAmount \in Nat
    BY <1>3, LoanFields DEF Inv, LoanData
  <2>2. loans'[id].scaledAmount \in Nat
    BY <1>3, NextInv DEF Inv, TypeOK, LoanTypeOK, LoanData
  <2>3. ~OwesNoMore
    BY <1>3, <2>1, <2>2 DEF OwesNoMore
  <2> QED
    BY <1>3, <2>3, OnlyBorrowRaises, BorrowWithinThreshold
<1>4. Inv /\ LtvInv /\ [Next]_vars =>
        [\A id \in LoanIds :
           LET old == loans[id]
               new == loans'[id]
               reserve == new.reserveAsset
           IN new.scaledAmount > old.scaledAmount =>
                BorrowAmount(new, borrowIndex'[reserve])
                  <= ThresholdPrice(reserve)
                       + IndexUnit(borrowIndex'[reserve])]_vars
  BY <1>3
<1> QED
  BY <1>1, <1>2, <1>4, InvCorrect, PTL DEF Spec, NoInstantLiquidation
-----------------------------------------------------------------------------
(***************************************************************************)
(* The ways out.  What an open loan needs to be closed: its collection is  *)
(* active (while a token is pledged the collection cannot be deactivated), *)
(* and a loan in auction owes something (or its debt could not be burned). *)
(***************************************************************************)
CollectionOpen == nftTotalCollateral > 0 => nftConfig.active

AuctionsOwe ==
  \A id \in LoanIds : loans[id].state = "Auction" => loans[id].scaledAmount > 0

WayOut ==
  Inv /\ Books /\ CollateralCounters /\ CollectionOpen /\ AuctionsOwe

(* A first bid is accepted when the loan owes more than the threshold. *)
LEMMA BidsOnDebt ==
  ASSUME Inv, NEW n \in Nfts, NEW ob \in Users, NEW b \in BidPrices,
         Auction(n, ob, b)
  PROVE  LET id == nftToLoanIds[n] IN
         /\ id \in LoanIds
         /\ loans[id].state = "Active" => loans[id].scaledAmount > 0
<1> DEFINE id == nftToLoanIds[n]
           loan == loans[id]
<1>1. /\ id \in LoanIds /\ loan.scaledAmount \in Nat
      /\ loan.reserveAsset \in Reserves
  BY LoanOfToken DEF Auction, Inv, LoanData
<1>2. ASSUME loan.state = "Active", loan.scaledAmount = 0
      PROVE  FALSE
  <2>1. PICK index \in Ray..MaxIndex :
          BorrowAmount(loan, index) > ThresholdPrice(loan.reserveAsset)
    BY <1>2 DEF Auction
  <2>2. BorrowAmount(loan, index) = 0
    BY <1>2, IndexType, RayMulZero DEF BorrowAmount
  <2>3. ThresholdPrice(loan.reserveAsset) \in Nat
    <3>1. nftPrice[loan.reserveAsset] \in Nat /\ nftConfig.liquidationThreshold \in Nat
      BY <1>1, InputAssumption DEF Inv, TypeOK, NftConfig
    <3> QED
      BY <3>1, PercentMulType DEF ThresholdPrice
  <2> QED
    BY <2>1, <2>2, <2>3, SMT
<1> QED
  BY <1>1, <1>2, SMT

(* Only a bid puts a loan into auction. *)
LEMMA OnlyBidsOpenAuctions ==
  ASSUME Inv, [Next]_vars, NEW i \in LoanIds,
         loans'[i].state = "Auction", loans[i].state # "Auction"
  PROVE  \E n \in Nfts, ob \in Users, b \in BidPrices :
           Auction(n, ob, b) /\ i = nftToLoanIds[n]
<1>1. LedgerInv
  BY DEF Inv
<1>2. loans' # loans
  OBVIOUS
<1>3. CASE PoolStep
  <2>1. ASSUME NEW u \in Users, NEW ob \in Users, NEW r \in Reserves,
               NEW n \in Nfts, NEW a \in Amounts, Borrow(u, ob, r, n, a)
        PROVE  FALSE
    <3>1. PICK index \in Ray..MaxIndex :
            \/ CreateLoan(ob, n, r, a, index)
            \/ nftToLoanIds[n] # 0 /\ AddToLoan(nftToLoanIds[n], a, index)
      BY <2>1 DEF Borrow
    <3>2. CASE CreateLoan(ob, n, r, a, index)
      <4>1. loanIdTracker \in LoanIds /\ OneLoanMoves(loanIdTracker)
        BY <1>1, <3>2, CreateMoves
      <4>2. loans'[loanIdTracker].state = "Active"
        BY <1>1, <3>2, <4>1, LoanFields DEF CreateLoan, LoanData
      <4> QED
        BY <4>1, <4>2 DEF OneLoanMoves
    <3>3. CASE nftToLoanIds[n] # 0 /\ AddToLoan(nftToLoanIds[n], a, index)
      BY <1>1, <3>3, LoanOfToken, LoanFields, AddMoves
         DEF OneLoanMoves, AddToLoan
    <3> QED
      BY <3>1, <3>2, <3>3
  <2>2. ASSUME NEW n \in Nfts, NEW a \in Amounts, Repay(n, a)
        PROVE  FALSE
    <3>1. PICK index \in Ray..MaxIndex :
            \/ TakeFromLoan(nftToLoanIds[n], a, index)
            \/ RepayLoan(nftToLoanIds[n], loans[nftToLoanIds[n]].borrower)
      BY <2>2 DEF Repay
    <3>2. nftToLoanIds[n] \in LoanIds
      BY <1>1, <2>2, LoanOfToken DEF Repay
    <3>3. CASE TakeFromLoan(nftToLoanIds[n], a, index)
      BY <1>1, <3>2, <3>3, LoanFields, TakeMoves DEF OneLoanMoves, TakeFromLoan
    <3>4. CASE RepayLoan(nftToLoanIds[n], loans[nftToLoanIds[n]].borrower)
      BY <1>1, <3>2, <3>4, LoanFields, RepayMoves
         DEF OneLoanMoves, RepayLoan, CloseLoan
    <3> QED
      BY <3>1, <3>3, <3>4
  <2>3. ASSUME NEW n \in Nfts, NEW ob \in Users, NEW b \in BidPrices,
               Auction(n, ob, b)
        PROVE  i = nftToLoanIds[n]
    BY <1>1, <2>3, LoanOfToken, AuctionMoves DEF Auction, OneLoanMoves
  <2>4. ASSUME NEW n \in Nfts, NEW a \in Amounts, Redeem(n, a)
        PROVE  FALSE
    <3>1. PICK index \in Ray..MaxIndex : RedeemLoan(nftToLoanIds[n], a, index)
      BY <2>4 DEF Redeem
    <3>2. nftToLoanIds[n] \in LoanIds
      BY <1>1, <2>4, LoanOfToken DEF Redeem
    <3>3. loans'[nftToLoanIds[n]].state = "Active"
      BY <1>1, <3>1, <3>2, LoanFields DEF RedeemLoan, BidCleared, LoanData
    <3> QED
      BY <1>1, <3>1, <3>2, <3>3, RedeemMoves DEF OneLoanMoves
  <2>5. ASSUME NEW n \in Nfts, NEW a \in Amounts \cup {0}, Liquidate(n, a)
        PROVE  FALSE
    <3>1. LiquidateLoan(nftToLoanIds[n], loans[nftToLoanIds[n]].bidderAddress)
      BY <2>5 DEF Liquidate
    <3>2. nftToLoanIds[n] \in LoanIds
      BY <1>1, <2>5, LoanOfToken DEF Liquidate
    <3> QED
      BY <1>1, <3>1, <3>2, LoanFields, LiquidateMoves
         DEF OneLoanMoves, LiquidateLoan, CloseLoan
  <2> QED
    BY <1>3, <2>1, <2>2, <2>3, <2>4, <2>5 DEF PoolStep
<1>4. CASE TokenStep
  BY <1>2, <1>4 DEF TokenStep, NftTransfer, UserMintsBnft, UserBurnsBnft,
     ApproveDelegation, loanVars
<1>5. CASE AdminStep
  BY <1>2, <1>5 DEF AdminStep, SetPause, SetPausedTime,
     ConfigureNftAsCollateral, ConfigureNftAsAuction, BatchConfigNft,
     SetActiveFlagOnNft, SetFreezeFlagOnNft, SetReserveFlag, loanVars
<1>6. CASE OracleStep \/ Tick \/ UNCHANGED vars
  BY <1>2, <1>6 DEF OracleStep, SetNftPrice, SetPriceStale, Tick, vars, loanVars
<1> QED
  BY <1>3, <1>4, <1>5, <1>6 DEF Next

LEMMA AuctionsOweKept ==
  ASSUME Inv, AuctionsOwe, [Next]_vars
  PROVE  AuctionsOwe'
<1> SUFFICES ASSUME NEW i \in LoanIds, loans'[i].state = "Auction"
             PROVE  loans'[i].scaledAmount > 0
  BY DEF AuctionsOwe
<1>1. loans[i].scaledAmount > 0
  <2>1. CASE loans[i].state = "Auction"
    BY <2>1 DEF AuctionsOwe
  <2>2. CASE loans[i].state # "Auction"
    <3>1. PICK n \in Nfts, ob \in Users, b \in BidPrices :
            Auction(n, ob, b) /\ i = nftToLoanIds[n]
      BY <2>2, OnlyBidsOpenAuctions
    <3>2. loans[i].state = "Active"
      BY <2>2, <3>1 DEF Auction, IsOpen
    <3> QED
      BY <3>1, <3>2, BidsOnDebt
  <2> QED
    BY <2>1, <2>2
<1>2. loans'[i].scaledAmount = loans[i].scaledAmount
  BY LoanMoves DEF OneLoanMoves, LoanMove
<1> QED
  BY <1>1, <1>2

LEMMA PoolNeedsActive ==
  ASSUME PoolStep
  PROVE  nftConfig.active
<1>1. ASSUME NEW u, NEW ob, NEW r, NEW n, NEW a, Borrow(u, ob, r, n, a)
      PROVE  nftConfig.active
  BY <1>1 DEF Borrow, ValidateBorrow, ReserveAndNftActive
<1>2. ASSUME NEW n, NEW a, Repay(n, a) PROVE nftConfig.active
  BY <1>2 DEF Repay, ReserveAndNftActive
<1>3. ASSUME NEW n, NEW ob, NEW b, Auction(n, ob, b) PROVE nftConfig.active
  BY <1>3 DEF Auction, ReserveAndNftActive
<1>4. ASSUME NEW n, NEW a, Redeem(n, a) PROVE nftConfig.active
  BY <1>4 DEF Redeem, ReserveAndNftActive
<1>5. ASSUME NEW n, NEW a, Liquidate(n, a) PROVE nftConfig.active
  BY <1>5 DEF Liquidate, ReserveAndNftActive
<1> QED
  BY <1>1, <1>2, <1>3, <1>4, <1>5 DEF PoolStep

(* A token is pledged only to an active collection, and a collection with  *)
(* a pledged token stays active.                                           *)
LEMMA CollectionOpenKept ==
  ASSUME Inv, CollectionOpen, [Next]_vars
  PROVE  CollectionOpen'
<1>1. CASE \E flag \in BOOLEAN : SetActiveFlagOnNft(flag)
  <2>1. PICK flag \in BOOLEAN : SetActiveFlagOnNft(flag)
    BY <1>1
  <2>2. nftTotalCollateral' = nftTotalCollateral
    BY <2>1 DEF SetActiveFlagOnNft, loanVars
  <2>3. nftConfig'.active = flag
    BY <2>1 DEF SetActiveFlagOnNft, Inv, TypeOK, NftConfig
  <2>4. flag = FALSE => nftTotalCollateral = 0
    BY <2>1 DEF SetActiveFlagOnNft
  <2> QED
    BY <2>2, <2>3, <2>4 DEF CollectionOpen
<1>2. CASE ~ \E flag \in BOOLEAN : SetActiveFlagOnNft(flag)
  <2>1. nftConfig'.active = nftConfig.active
    <3>1. nftConfig \in NftConfig
      BY DEF Inv, TypeOK
    <3>2. ASSUME NEW c, ConfigureNftAsCollateral(c)
          PROVE  nftConfig'.active = nftConfig.active
      BY <3>1, <3>2 DEF ConfigureNftAsCollateral, NftConfig
    <3>3. ASSUME NEW c, ConfigureNftAsAuction(c)
          PROVE  nftConfig'.active = nftConfig.active
      BY <3>1, <3>3 DEF ConfigureNftAsAuction, NftConfig
    <3>4. ASSUME NEW c, BatchConfigNft(c)
          PROVE  nftConfig'.active = nftConfig.active
      BY <3>4 DEF BatchConfigNft, Listed
    <3>5. ASSUME NEW flag, SetFreezeFlagOnNft(flag)
          PROVE  nftConfig'.active = nftConfig.active
      BY <3>1, <3>5 DEF SetFreezeFlagOnNft, NftConfig
    <3> QED
      BY <1>2, <3>2, <3>3, <3>4, <3>5, ConfigMoves
  <2>2. \/ nftTotalCollateral' <= nftTotalCollateral
        \/ nftConfig.active
    <3>1. nftTotalCollateral \in Nat
      BY DEF Inv, TypeOK, LoanTypeOK
    <3>2. CASE PoolStep
      BY <3>2, PoolNeedsActive
    <3>3. CASE TokenStep \/ AdminStep \/ OracleStep \/ Tick \/ UNCHANGED vars
      <4>1. nftTotalCollateral' = nftTotalCollateral
        BY <3>3 DEF TokenStep, NftTransfer, UserMintsBnft, UserBurnsBnft,
           ApproveDelegation, AdminStep, SetPause, SetPausedTime,
           ConfigureNftAsCollateral, ConfigureNftAsAuction, BatchConfigNft,
           SetActiveFlagOnNft, SetFreezeFlagOnNft, SetReserveFlag, OracleStep,
           SetNftPrice, SetPriceStale, Tick, vars, loanVars
      <4> QED
        BY <3>1, <4>1
    <3> QED
      BY <3>2, <3>3 DEF Next
  <2>3. nftTotalCollateral \in Nat /\ nftTotalCollateral' \in Nat
    BY NextInv DEF Inv, TypeOK, LoanTypeOK
  <2> QED
    BY <2>1, <2>2, <2>3, SMT DEF CollectionOpen
<1> QED
  BY <1>1, <1>2

(***************************************************************************)
(* The invariant that keeps both ways out of a loan open.                  *)
(***************************************************************************)
THEOREM WayOutInvariant == Spec => []WayOut
<1>1. Init => CollectionOpen /\ AuctionsOwe
  BY DEF Init, LoanInit, EmptyLoan, CollectionOpen, AuctionsOwe
<1>2. /\ Inv /\ CollectionOpen /\ [Next]_vars => CollectionOpen'
      /\ Inv /\ AuctionsOwe /\ [Next]_vars => AuctionsOwe'
  BY CollectionOpenKept, AuctionsOweKept
<1> QED
  BY <1>1, <1>2, InvCorrect, BooksCorrect, CollateralCountersCorrect, PTL
     DEF Spec, WayOut

-----------------------------------------------------------------------------
(* What the invariant says of one pledged token: nothing that closing its  *)
(* loan subtracts is more than there is.                                   *)
LEMMA LoanCovered ==
  ASSUME WayOut, NEW n \in Nfts, nftToLoanIds[n] # 0
  PROVE  LET id == nftToLoanIds[n]
             loan == loans[id]
         IN
         /\ id \in LoanIds /\ loan \in LoanData /\ IsOpen(loan)
         /\ loan.nft = n /\ loan.borrower \in Users
         /\ loan.reserveAsset \in Reserves
         /\ debtBalance[loan.reserveAsset][loan.borrower] >= loan.scaledAmount
         /\ loan.state = "Auction" =>
              poolBalance[loan.reserveAsset] >= loan.bidPrice
         /\ userNftCollateral[loan.borrower] >= 1 /\ nftTotalCollateral >= 1
         /\ bnftOwner[n] # ZeroAddress /\ bnftMinter[n] = LoanAddress
         /\ nftConfig.active
<1> DEFINE id == nftToLoanIds[n]
           loan == loans[id]
           r == loan.reserveAsset
           u == loan.borrower
<1>1. /\ LedgerInv /\ Books /\ CollateralCounters /\ CollectionOpen
      /\ id \in LoanIds /\ loan \in LoanData /\ IsOpen(loan) /\ loan.nft = n
      /\ u \in Users /\ r \in Reserves
      /\ loan.scaledAmount \in Nat /\ loan.bidPrice \in Nat
  BY LoanOfToken DEF WayOut, Inv, LoanData
<1>2. \A i \in LoanIds : ScaledAmounts[i] \in Nat /\ StandingBids[i] \in Nat
  BY AmountsTyped DEF WayOut
<1>3. debtBalance[r][u] >= loan.scaledAmount
  <2> DEFINE S == OpenLoansOf(r, u)
  <2>1. id \in S /\ S \in SUBSET LoanIds
    BY <1>1 DEF OpenLoansOf
  <2>2. /\ IsFiniteSet(S) /\ IsFiniteSet(S \ {id})
        /\ \A i \in S : ScaledAmounts[i] \in Nat
        /\ \A i \in S \ {id} : ScaledAmounts[i] \in Nat
    BY <1>2, <2>1, LoanIdsFinite
  <2>3. debtBalance[r][u] = SumFunctionOnSet(ScaledAmounts, S)
    BY <1>1 DEF Books, DebtMatchesLoans
  <2>4. ScaledAmounts[id] = loan.scaledAmount
    BY <1>1 DEF ScaledAmounts
  <2> HIDE DEF S, id
  <2>5. SumFunctionOnSet(ScaledAmounts, S)
          = ScaledAmounts[id] + SumFunctionOnSet(ScaledAmounts, S \ {id})
    BY <2>1, <2>2, SumRemove
  <2>6. SumFunctionOnSet(ScaledAmounts, S \ {id}) \in Nat
    BY <2>2, SumType
  <2> QED
    BY <1>1, <2>3, <2>4, <2>5, <2>6, SMT
<1>4. ASSUME loan.state = "Auction"
      PROVE  poolBalance[r] >= loan.bidPrice
  <2> DEFINE S == AuctionsIn(r)
  <2>1. id \in S /\ S \in SUBSET LoanIds
    BY <1>1, <1>4 DEF AuctionsIn
  <2>2. /\ IsFiniteSet(S) /\ IsFiniteSet(S \ {id})
        /\ \A i \in S : StandingBids[i] \in Nat
        /\ \A i \in S \ {id} : StandingBids[i] \in Nat
    BY <1>2, <2>1, LoanIdsFinite
  <2>3. poolBalance[r] = SumFunctionOnSet(StandingBids, S)
    BY <1>1 DEF Books, EscrowMatchesBids
  <2>4. StandingBids[id] = loan.bidPrice
    BY <1>1 DEF StandingBids
  <2> HIDE DEF S, id
  <2>5. SumFunctionOnSet(StandingBids, S)
          = StandingBids[id] + SumFunctionOnSet(StandingBids, S \ {id})
    BY <2>1, <2>2, SumRemove
  <2>6. SumFunctionOnSet(StandingBids, S \ {id}) \in Nat
    BY <2>2, SumType
  <2> QED
    BY <1>1, <2>3, <2>4, <2>5, <2>6, SMT
<1>5. /\ bnftMinter[n] = LoanAddress /\ bnftOwner[n] = u
      /\ u # ZeroAddress
  BY <1>1, AddressAssumption DEF LedgerInv, Custody
<1>6. userNftCollateral[u] >= 1 /\ nftTotalCollateral >= 1
  <2>1. /\ n \in Pledged /\ IsFiniteSet(Pledged)
        /\ n \in PledgedBy(u) /\ IsFiniteSet(PledgedBy(u))
    BY <1>5, FS_Subset, FiniteAssumption DEF Pledged, PledgedBy
  <2>2. /\ nftTotalCollateral = Cardinality(Pledged)
        /\ userNftCollateral[u] = Cardinality(PledgedBy(u))
    BY <1>1 DEF CollateralCounters, Pledged, PledgedBy
  <2>3. \A S : IsFiniteSet(S) /\ n \in S => Cardinality(S) >= 1
    <3> SUFFICES ASSUME NEW S, IsFiniteSet(S), n \in S
                 PROVE  Cardinality(S) >= 1
      OBVIOUS
    <3>1. Cardinality(S) \in Nat /\ Cardinality(S) # 0
      BY FS_CardinalityType, FS_EmptySet
    <3> QED
      BY <3>1, SMT
  <2> QED
    BY <2>1, <2>2, <2>3
<1>7. nftConfig.active
  <2>1. nftTotalCollateral > 0
    BY <1>1, <1>6, SMT DEF LedgerInv, LoanTypeOK
  <2> QED
    BY <1>1, <2>1 DEF CollectionOpen
<1> QED
  BY <1>1, <1>3, <1>4, <1>5, <1>6, <1>7

(***************************************************************************)
(* What a transaction that closes a loan does when none of its checks      *)
(* fails: the assignments of repayLoan or liquidateLoan and of the burn of *)
(* the debt, without their conditions.                                     *)
(***************************************************************************)
ClosingEffect(n, index, finalState, receiver) ==
  LET id == nftToLoanIds[n]
      loan == loans[id]
      reserve == loan.reserveAsset
  IN
  /\ borrowIndex' = [borrowIndex EXCEPT ![reserve] = index]
  /\ loans' = [loans EXCEPT ![id].state = finalState]
  /\ nftToLoanIds' = TokenReleased(loan.nft)
  /\ CountLoan(loan.borrower, -1)
  /\ bnftOwner' = [bnftOwner EXCEPT ![loan.nft] = ZeroAddress]
  /\ bnftMinter' = [bnftMinter EXCEPT ![loan.nft] = ZeroAddress]
  /\ nftOwner' = [nftOwner EXCEPT ![loan.nft] = receiver]
  /\ debtBalance' = [debtBalance EXCEPT ![reserve][loan.borrower] =
       @ - RayDiv(BorrowAmount(loan, index), index)]
  /\ UNCHANGED <<loanIdTracker, borrowAllowance, oracleVars, configVars,
                 pauseVars, now>>

RepayEffect(n, index) ==
  /\ ClosingEffect(n, index, "Repaid", loans[nftToLoanIds[n]].borrower)
  /\ UNCHANGED <<flashLoanLocking, poolBalance>>

LiquidateEffect(n, index) ==
  LET loan == loans[nftToLoanIds[n]]
      debt == BorrowAmount(loan, index)
      extraDebt == IF loan.bidPrice < debt THEN debt - loan.bidPrice ELSE 0
      remain == IF loan.bidPrice > debt THEN loan.bidPrice - debt ELSE 0
  IN
  /\ ClosingEffect(n, index, "Defaulted", loan.bidderAddress)
  /\ flashLoanLocking' = [flashLoanLocking EXCEPT ![loan.nft] = FALSE]
  /\ poolBalance' = [poolBalance EXCEPT
       ![loan.reserveAsset] = @ + extraDebt - debt - remain]

LEMMA ClosingPasses ==
  ASSUME WayOut, NEW n \in Nfts, nftToLoanIds[n] # 0,
         loans[nftToLoanIds[n]].scaledAmount > 0,
         NEW index \in Ray..MaxIndex,
         index >= borrowIndex[loans[nftToLoanIds[n]].reserveAsset],
         NEW finalState, NEW receiver,
         ClosingEffect(n, index, finalState, receiver)
  PROVE  LET id == nftToLoanIds[n]
             loan == loans[id]
         IN
         /\ UpdateState(loan.reserveAsset, index)
         /\ CloseLoan(id, finalState, receiver)
         /\ BurnDebt(loan.reserveAsset, loan.borrower,
                     BorrowAmount(loan, index), index)
         /\ BorrowAmount(loan, index) \in Nat /\ BorrowAmount(loan, index) > 0
         /\ UNCHANGED <<oracleVars, configVars, pauseVars, now>>
<1> DEFINE id == nftToLoanIds[n]
           loan == loans[id]
           r == loan.reserveAsset
           debt == BorrowAmount(loan, index)
<1>1. /\ r \in Reserves /\ loan.scaledAmount \in Nat
      /\ index \in Nat /\ index >= Ray /\ Ray \in Nat
      /\ borrowIndex[r] \in Ray..MaxIndex /\ MaxIndex \in Nat
  BY LoanCovered, IndexType, InputAssumption, RayAssumption
     DEF LoanData, WayOut, Inv, TypeOK
<1>2. UpdateState(r, index)
  <2>1. index \in borrowIndex[r]..MaxIndex
    BY <1>1, SMT
  <2> QED
    BY <2>1 DEF UpdateState, ClosingEffect
<1>3. RayDiv(debt, index) = loan.scaledAmount
  BY <1>1, ScaledRoundTrip DEF BorrowAmount
<1>4. debt \in Nat /\ debt > 0
  <2>1. RayMul(loan.scaledAmount, Ray) = loan.scaledAmount
    <3>1. loan.scaledAmount * Ray = Ray * loan.scaledAmount
      BY <1>1, SMT
    <3> QED
      BY <1>1, <3>1, RayMulOne DEF RayMul
  <2>2. debt \in Nat /\ debt >= loan.scaledAmount
    <3>1. Ray <= index
      BY <1>1, SMT
    <3>2. RayMul(loan.scaledAmount, Ray) <= RayMul(loan.scaledAmount, index)
      BY <1>1, <3>1, RayMulMonotone
    <3>3. debt \in Nat
      BY <1>1, RayMulType DEF BorrowAmount
    <3> QED
      BY <1>1, <2>1, <3>2, <3>3, SMT DEF BorrowAmount
  <2> QED
    BY <1>1, <2>2, SMT
<1>5. CloseLoan(id, finalState, receiver)
  BY LoanCovered DEF CloseLoan, BnftBurn, ClosingEffect
<1>6. BurnDebt(r, loan.borrower, debt, index)
  BY <1>1, <1>3, LoanCovered DEF BurnDebt, ClosingEffect
<1> QED
  BY <1>2, <1>4, <1>5, <1>6 DEF ClosingEffect

(***************************************************************************)
(* The content of NoCollateralStuck, for every number of loans: while the  *)
(* pool runs and the reserve is active, whoever offers what is owed passes *)
(* every check of repay, the ledger's, the debt token's and the bNFT's     *)
(* included, at any index the interest may have led to.                    *)
(***************************************************************************)
THEOREM NothingHindersRepayment ==
  ASSUME WayOut, NEW n \in Nfts, nftToLoanIds[n] # 0, ~paused,
         reserveConfig[loans[nftToLoanIds[n]].reserveAsset].active,
         loans[nftToLoanIds[n]].state = "Active",
         loans[nftToLoanIds[n]].scaledAmount > 0,
         NEW index \in Ray..MaxIndex,
         index >= borrowIndex[loans[nftToLoanIds[n]].reserveAsset],
         NEW amount \in Nat,
         amount >= BorrowAmount(loans[nftToLoanIds[n]], index),
         RepayEffect(n, index)
  PROVE  Repay(n, amount)
<1> DEFINE id == nftToLoanIds[n]
           loan == loans[id]
           debt == BorrowAmount(loan, index)
<1>1. ClosingEffect(n, index, "Repaid", loan.borrower)
  BY DEF RepayEffect
<1>2. /\ UpdateState(loan.reserveAsset, index)
      /\ CloseLoan(id, "Repaid", loan.borrower)
      /\ BurnDebt(loan.reserveAsset, loan.borrower, debt, index)
      /\ debt \in Nat /\ debt > 0
      /\ UNCHANGED <<oracleVars, configVars, pauseVars, now>>
  BY <1>1, ClosingPasses
<1>3. ReserveAndNftActive(loan.reserveAsset)
  BY LoanCovered DEF ReserveAndNftActive
<1>4. RepayLoan(id, loan.borrower)
  BY <1>2 DEF RepayLoan, RepayEffect
<1>5. amount > 0 /\ amount >= debt
  <2> HIDE DEF debt
  <2> QED
    BY <1>2, SMT DEF debt
<1> QED
  BY <1>2, <1>3, <1>4, <1>5, Zenon DEF Repay, RepayEffect

(***************************************************************************)
(* The other half of NoCollateralStuck: when an auction is over, whoever   *)
(* offers what the bid leaves of the debt passes every check of liquidate, *)
(* and the pool has the bid that pays for the rest.                        *)
(***************************************************************************)
THEOREM NothingHindersLiquidation ==
  ASSUME WayOut, NEW n \in Nfts, nftToLoanIds[n] # 0, ~paused,
         reserveConfig[loans[nftToLoanIds[n]].reserveAsset].active,
         loans[nftToLoanIds[n]].state = "Auction",
         now > AuctionEndTimestamp(loans[nftToLoanIds[n]]),
         NEW index \in Ray..MaxIndex,
         index >= borrowIndex[loans[nftToLoanIds[n]].reserveAsset],
         NEW amount \in Nat,
         amount + loans[nftToLoanIds[n]].bidPrice
           >= BorrowAmount(loans[nftToLoanIds[n]], index),
         LiquidateEffect(n, index)
  PROVE  Liquidate(n, amount)
<1> DEFINE id == nftToLoanIds[n]
           loan == loans[id]
           r == loan.reserveAsset
           debt == BorrowAmount(loan, index)
           extraDebt == IF loan.bidPrice < debt THEN debt - loan.bidPrice ELSE 0
           remain == IF loan.bidPrice > debt THEN loan.bidPrice - debt ELSE 0
<1>1. /\ ClosingEffect(n, index, "Defaulted", loan.bidderAddress)
      /\ flashLoanLocking' = [flashLoanLocking EXCEPT ![loan.nft] = FALSE]
      /\ poolBalance' = [poolBalance EXCEPT ![r] = @ + extraDebt - debt - remain]
  BY DEF LiquidateEffect
<1>2. /\ id \in LoanIds /\ loan \in LoanData /\ IsOpen(loan) /\ r \in Reserves
      /\ poolBalance[r] >= loan.bidPrice /\ nftConfig.active
  BY LoanCovered
<1>3. loan.scaledAmount > 0 /\ loan.bidderAddress # ZeroAddress
  BY <1>2 DEF WayOut, Inv, LedgerInv, AuctionBooks, AuctionsOwe
<1>4. /\ UpdateState(r, index)
      /\ CloseLoan(id, "Defaulted", loan.bidderAddress)
      /\ BurnDebt(r, loan.borrower, debt, index)
      /\ debt \in Nat
      /\ UNCHANGED <<oracleVars, configVars, pauseVars, now>>
  BY <1>1, <1>3, ClosingPasses
<1>5. ReserveAndNftActive(r)
  BY <1>2 DEF ReserveAndNftActive
<1>6. LiquidateLoan(id, loan.bidderAddress)
  BY <1>1, <1>4 DEF LiquidateLoan
<1>7. /\ amount >= extraDebt
      /\ poolBalance[r] + extraDebt >= debt + remain
  <2>1. loan.bidPrice \in Nat /\ poolBalance[r] \in Nat
    BY <1>2 DEF LoanData, WayOut, Inv, TypeOK
  <2>2. amount + loan.bidPrice >= debt
    OBVIOUS
  <2> HIDE DEF debt
  <2> QED
    BY <1>2, <1>4, <2>1, <2>2, SMT
<1> QED
  BY <1>1, <1>3, <1>4, <1>5, <1>6, <1>7, Zenon DEF Liquidate
=============================================================================
