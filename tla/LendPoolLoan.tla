---------------------------- MODULE LendPoolLoan ----------------------------
(***************************************************************************)
(* The loan ledger of the protocol, contracts/protocol/LendPoolLoan.sol,   *)
(* together with the two tokens it moves: the collateral NFT (external)    *)
(* and the bNFT that stands for it while it is in the vault                *)
(* (contracts/mock/BNFT/BNFT.sol).                                         *)
(*                                                                         *)
(* One NFT collection is modelled: the code's mappings keyed by nftAsset   *)
(* and tokenId are keyed by the token here, those keyed by nftAsset alone  *)
(* are single values.  The actions below are the ledger's external         *)
(* functions; only the pool calls them (onlyLendPool), so module LendPool  *)
(* conjoins them with its own part of each transaction.                    *)
(***************************************************************************)
EXTENDS FixedPointMath, FiniteSets

CONSTANTS
  Users,          \* accounts that borrow, bid, lend their allowance, hold NFTs
  Nfts,           \* the tokens of the collection
  Reserves,       \* the assets that can be borrowed
  ZeroAddress,    \* address(0): no account, no asset
  LoanAddress,    \* the address of this contract
  BnftAddress,    \* the address of the bNFT contract, the vault
  MaxLoans        \* bound: how many loans are ever created

ASSUME AddressAssumption ==
  /\ ZeroAddress \notin Users \cup Nfts \cup Reserves
  /\ LoanAddress \notin Users /\ LoanAddress # ZeroAddress
  /\ BnftAddress \notin Users /\ BnftAddress # ZeroAddress

ASSUME FiniteAssumption == IsFiniteSet(Users) /\ IsFiniteSet(Nfts)

ASSUME MaxLoansAssumption == MaxLoans \in Nat

VARIABLES
  loanIdTracker,       \* _loanIdTracker: the id of the next loan
  loans,               \* _loans
  nftToLoanIds,        \* _nftToLoanIds: the open loan of a token, 0 if none
  userNftCollateral,   \* _userNftCollateral: open loans per borrower
  nftTotalCollateral,  \* _nftTotalCollateral: open loans
  nftOwner,            \* ERC721: who holds the collateral NFT
  bnftOwner,           \* BNFT: who holds the bNFT, ZeroAddress if there is none
  bnftMinter,          \* BNFT._minters: who deposited the NFT in the vault
  flashLoanLocking     \* the ledger's own entry in _flashLoanOperatorLockings

loanVars == <<loanIdTracker, loans, nftToLoanIds, userNftCollateral,
              nftTotalCollateral, nftOwner, bnftOwner, bnftMinter,
              flashLoanLocking>>

LoanIds == 1..MaxLoans

LoanStates == {"None", "Active", "Auction", "Repaid", "Defaulted"}

(***************************************************************************)
(* DataTypes.LoanData.  bidBorrowAmount is left out: it is a snapshot the  *)
(* views and events show and no code reads back.                           *)
(***************************************************************************)
LoanData ==
  [state: LoanStates,
   borrower: Users \cup {ZeroAddress},
   nft: Nfts \cup {ZeroAddress},
   reserveAsset: Reserves \cup {ZeroAddress},
   scaledAmount: Nat,
   bidStartTimestamp: Nat,
   bidderAddress: Users \cup {ZeroAddress},
   bidPrice: Nat,
   firstBidderAddress: Users \cup {ZeroAddress}]

(* A storage slot nobody has written: every field is zero. *)
EmptyLoan ==
  [state |-> "None", borrower |-> ZeroAddress, nft |-> ZeroAddress,
   reserveAsset |-> ZeroAddress, scaledAmount |-> 0,
   bidStartTimestamp |-> 0, bidderAddress |-> ZeroAddress, bidPrice |-> 0,
   firstBidderAddress |-> ZeroAddress]

IsOpen(loan) == loan.state \in {"Active", "Auction"}

(* getLoanReserveBorrowAmount, at the borrow index of the loan's reserve *)
BorrowAmount(loan, index) == RayMul(loan.scaledAmount, index)

LoanInit ==
  /\ loanIdTracker = 1
  /\ loans = [id \in LoanIds |-> EmptyLoan]
  /\ nftToLoanIds = [n \in Nfts |-> 0]
  /\ userNftCollateral = [u \in Users |-> 0]
  /\ nftTotalCollateral = 0
  /\ nftOwner \in [Nfts -> Users]
  /\ bnftOwner = [n \in Nfts |-> ZeroAddress]
  /\ bnftMinter = [n \in Nfts |-> ZeroAddress]
  /\ flashLoanLocking = [n \in Nfts |-> FALSE]

-----------------------------------------------------------------------------
(***************************************************************************)
(* The bNFT contract.  Mint puts the NFT in the vault and gives the bNFT   *)
(* to "to"; only the minter can Burn, which hands the NFT back.  A bNFT    *)
(* cannot be transferred.                                                  *)
(***************************************************************************)
BnftMint_ToMinter(minter, to, n) ==  \* mutant: the bNFT to the caller
  /\ bnftOwner[n] = ZeroAddress
  /\ bnftOwner' = [bnftOwner EXCEPT ![n] = minter]
  /\ bnftMinter' = [bnftMinter EXCEPT ![n] = minter]
  /\ nftOwner' = [nftOwner EXCEPT ![n] = BnftAddress]

BnftMint(minter, to, n) ==
  /\ bnftOwner[n] = ZeroAddress
  /\ bnftOwner' = [bnftOwner EXCEPT ![n] = to]
  /\ bnftMinter' = [bnftMinter EXCEPT ![n] = minter]
  /\ nftOwner' = [nftOwner EXCEPT ![n] = BnftAddress]

BnftBurn_ByAnyone(minter, receiver, n) ==  \* mutant: no check of the minter
  /\ bnftOwner[n] # ZeroAddress
  /\ bnftOwner' = [bnftOwner EXCEPT ![n] = ZeroAddress]
  /\ bnftMinter' = [bnftMinter EXCEPT ![n] = ZeroAddress]
  /\ nftOwner' = [nftOwner EXCEPT ![n] = receiver]

(* The minter passes the NFT on to "receiver" in the same transaction. *)
BnftBurn(minter, receiver, n) ==
  /\ bnftOwner[n] # ZeroAddress
  /\ bnftMinter[n] = minter
  /\ bnftOwner' = [bnftOwner EXCEPT ![n] = ZeroAddress]
  /\ bnftMinter' = [bnftMinter EXCEPT ![n] = ZeroAddress]
  /\ nftOwner' = [nftOwner EXCEPT ![n] = receiver]

bnftTotalSupply == Cardinality({n \in Nfts : bnftOwner[n] # ZeroAddress})

-----------------------------------------------------------------------------
(* _userNftCollateral and _nftTotalCollateral, when a loan opens or closes *)
CountLoan_TotalOnly(user, delta) ==  \* mutant: the user's counter forgotten
  /\ nftTotalCollateral' = nftTotalCollateral + delta
  /\ UNCHANGED userNftCollateral

CountLoan(user, delta) ==
  /\ userNftCollateral' = [userNftCollateral EXCEPT ![user] = @ + delta]
  /\ nftTotalCollateral' = nftTotalCollateral + delta

NextLoanId_Reused == IF nftTotalCollateral = 0 THEN 1 ELSE loanIdTracker + 1
                                       \* mutant: ids start over

NextLoanId == loanIdTracker + 1

(***************************************************************************)
(* createLoan.  The NFT goes from the initiator through the pool and the   *)
(* ledger into the vault within the transaction.                           *)
(***************************************************************************)
CreateLoan(onBehalfOf, n, reserve, amount, index) ==
  LET id == loanIdTracker IN
  /\ id <= MaxLoans
  /\ nftToLoanIds[n] = 0
  /\ loanIdTracker' = NextLoanId
  /\ nftToLoanIds' = [nftToLoanIds EXCEPT ![n] = id]
  /\ BnftMint(LoanAddress, onBehalfOf, n)
  /\ loans' = [loans EXCEPT ![id] =
       [@ EXCEPT !.state = "Active", !.borrower = onBehalfOf, !.nft = n,
                 !.reserveAsset = reserve,
                 !.scaledAmount = RayDiv(amount, index)]]
  /\ CountLoan(onBehalfOf, 1)
  /\ UNCHANGED flashLoanLocking

(* updateLoan with amountAdded = 0: a partial repayment *)
TakeFromLoan(id, amountTaken, index) ==
  LET scaled == RayDiv(amountTaken, index) IN
  /\ loans[id].state = "Active"
  /\ scaled # 0
  /\ loans[id].scaledAmount >= scaled
  /\ loans' = [loans EXCEPT ![id].scaledAmount = @ - scaled]
  /\ UNCHANGED <<loanIdTracker, nftToLoanIds, userNftCollateral,
                 nftTotalCollateral, nftOwner, bnftOwner, bnftMinter,
                 flashLoanLocking>>

(* updateLoan with amountTaken = 0: borrowing more against the same NFT *)
AddToLoan(id, amountAdded, index) ==
  LET scaled == RayDiv(amountAdded, index) IN
  /\ loans[id].state = "Active"
  /\ scaled # 0
  /\ loans' = [loans EXCEPT ![id].scaledAmount = @ + scaled]
  /\ UNCHANGED <<loanIdTracker, nftToLoanIds, userNftCollateral,
                 nftTotalCollateral, nftOwner, bnftOwner, bnftMinter,
                 flashLoanLocking>>

TokenReleased_Not(n) == nftToLoanIds  \* mutant: the token keeps its loan

TokenReleased(n) == [nftToLoanIds EXCEPT ![n] = 0]

(***************************************************************************)
(* What repayLoan and liquidateLoan share: the loan leaves the books, its  *)
(* bNFT is burned and the NFT leaves the vault for "receiver".  The loan   *)
(* keeps its amount and its bid.                                           *)
(***************************************************************************)
CloseLoan(id, finalState, receiver) ==
  LET loan == loans[id] IN
  /\ loans' = [loans EXCEPT ![id].state = finalState]
  /\ nftToLoanIds' = TokenReleased(loan.nft)
  /\ userNftCollateral[loan.borrower] >= 1
  /\ nftTotalCollateral >= 1
  /\ CountLoan(loan.borrower, -1)
  /\ BnftBurn(LoanAddress, receiver, loan.nft)
  /\ UNCHANGED loanIdTracker

RepayLoan(id, receiver) ==
  /\ loans[id].state = "Active"
  /\ CloseLoan(id, "Repaid", receiver)
  /\ UNCHANGED flashLoanLocking

HigherBid_OrEqual(loan, bidPrice) ==  \* mutant: an equal bid displaces
  bidPrice >= loan.bidPrice

HigherBid(loan, bidPrice) == bidPrice > loan.bidPrice

(* auctionLoan: the first bid opens the auction, a later one must be higher *)
AuctionLoan(id, onBehalfOf, bidPrice, timestamp) ==
  LET loan == loans[id]
      first == loan.bidStartTimestamp = 0
  IN
  /\ IF first THEN loan.state = "Active"
              ELSE loan.state = "Auction" /\ HigherBid(loan, bidPrice)
  /\ loans' = [loans EXCEPT ![id] =
       [loan EXCEPT
          !.state = "Auction",
          !.bidStartTimestamp = IF first THEN timestamp ELSE loan.bidStartTimestamp,
          !.firstBidderAddress =
             IF first THEN onBehalfOf ELSE loan.firstBidderAddress,
          !.bidderAddress = onBehalfOf,
          !.bidPrice = bidPrice]]
  /\ flashLoanLocking' =
       IF first THEN [flashLoanLocking EXCEPT ![loan.nft] = TRUE]
                ELSE flashLoanLocking
  /\ UNCHANGED <<loanIdTracker, nftToLoanIds, userNftCollateral,
                 nftTotalCollateral, nftOwner, bnftOwner, bnftMinter>>

BidCleared_FirstKept(loan) ==  \* mutant: the first bidder is not cleared
  [loan EXCEPT !.bidStartTimestamp = 0, !.bidderAddress = ZeroAddress,
               !.bidPrice = 0]

BidCleared(loan) ==
  [loan EXCEPT !.bidStartTimestamp = 0, !.bidderAddress = ZeroAddress,
               !.bidPrice = 0, !.firstBidderAddress = ZeroAddress]

(* redeemLoan: back to Active, with the bid and the lock cleared *)
RedeemLoan(id, amountTaken, index) ==
  LET loan == loans[id]
      scaled == RayDiv(amountTaken, index)
  IN
  /\ loan.state = "Auction"
  /\ scaled # 0
  /\ loan.scaledAmount >= scaled
  /\ loans' = [loans EXCEPT ![id] =
       [BidCleared(loan) EXCEPT
          !.state = "Active", !.scaledAmount = loan.scaledAmount - scaled]]
  /\ flashLoanLocking' = [flashLoanLocking EXCEPT ![loan.nft] = FALSE]
  /\ UNCHANGED <<loanIdTracker, nftToLoanIds, userNftCollateral,
                 nftTotalCollateral, nftOwner, bnftOwner, bnftMinter>>

LiquidateLoan_ToFirstBidder(id, receiver) ==  \* mutant: the wrong bidder
  /\ loans[id].state = "Auction"
  /\ CloseLoan(id, "Defaulted", loans[id].firstBidderAddress)
  /\ flashLoanLocking' = [flashLoanLocking EXCEPT ![loans[id].nft] = FALSE]

LiquidateLoan(id, receiver) ==
  /\ loans[id].state = "Auction"
  /\ CloseLoan(id, "Defaulted", receiver)
  /\ flashLoanLocking' = [flashLoanLocking EXCEPT ![loans[id].nft] = FALSE]

-----------------------------------------------------------------------------
(***************************************************************************)
(* The token owners' own moves, which no contract of the protocol starts:  *)
(* an NFT changes hands, or its owner wraps it into a bNFT of his own (an  *)
(* externally owned account can only mint to itself) and unwraps it.       *)
(***************************************************************************)
NftTransfer(n, from, to) ==
  /\ nftOwner[n] = from
  /\ nftOwner' = [nftOwner EXCEPT ![n] = to]
  /\ UNCHANGED <<loanIdTracker, loans, nftToLoanIds, userNftCollateral,
                 nftTotalCollateral, bnftOwner, bnftMinter, flashLoanLocking>>

UserMintsBnft(u, n) ==
  /\ nftOwner[n] = u
  /\ BnftMint(u, u, n)
  /\ UNCHANGED <<loanIdTracker, loans, nftToLoanIds, userNftCollateral,
                 nftTotalCollateral, flashLoanLocking>>

UserBurnsBnft(u, n) ==
  /\ BnftBurn(u, u, n)
  /\ UNCHANGED <<loanIdTracker, loans, nftToLoanIds, userNftCollateral,
                 nftTotalCollateral, flashLoanLocking>>

-----------------------------------------------------------------------------
LoanTypeOK ==
  /\ loanIdTracker \in 1..(MaxLoans + 1)
  /\ loans \in [LoanIds -> LoanData]
  /\ nftToLoanIds \in [Nfts -> 0..MaxLoans]
  /\ userNftCollateral \in [Users -> Nat]
  /\ nftTotalCollateral \in Nat
  /\ nftOwner \in [Nfts -> Users \cup {BnftAddress}]
  /\ bnftOwner \in [Nfts -> Users \cup {ZeroAddress}]
  /\ bnftMinter \in [Nfts -> Users \cup {LoanAddress, ZeroAddress}]
  /\ flashLoanLocking \in [Nfts -> BOOLEAN]
=============================================================================
