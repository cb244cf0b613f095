------------------------- MODULE LendPoolLoanProofs -------------------------
(***************************************************************************)
(* The ledger keeps its inductive invariant LedgerInv: one lemma per       *)
(* operation of LendPoolLoan and of the token owners.  The operations that *)
(* change an open loan in place, and those that close one, share their     *)
(* argument (OpenLoanUpdated, LoanClosed).                                 *)
(***************************************************************************)
EXTENDS LendPool, MathLemmas

LEMMA LoanFields ==
  ASSUME LedgerInv, NEW id \in LoanIds
  PROVE  /\ loans[id] \in LoanData
         /\ id # 0
         /\ DOMAIN loans = LoanIds
  BY MaxLoansAssumption, SMT DEF LedgerInv, LoanTypeOK, LoanIds

(* An open loan is changed in place: it stays open for the same token and  *)
(* borrower, its auction fields agree, and the lock follows the state.     *)
LEMMA OpenLoanUpdated ==
  ASSUME LedgerInv, now \in Nat \ {0}, now' = now,
         NEW id \in LoanIds, IsOpen(loans[id]),
         NEW new \in LoanData, IsOpen(new),
         new.nft = loans[id].nft,
         new.borrower = loans[id].borrower,
         new.reserveAsset = loans[id].reserveAsset,
         new.bidStartTimestamp # 0 <=> new.state = "Auction",
         new.bidderAddress # ZeroAddress <=> new.state = "Auction",
         new.firstBidderAddress # ZeroAddress <=> new.state = "Auction",
         new.bidPrice > 0 <=> new.state = "Auction",
         new.bidStartTimestamp <= now,
         loans' = [loans EXCEPT ![id] = new],
         flashLoanLocking' =
           [flashLoanLocking EXCEPT ![new.nft] = (new.state = "Auction")],
         UNCHANGED <<loanIdTracker, nftToLoanIds, userNftCollateral,
                     nftTotalCollateral, nftOwner, bnftOwner, bnftMinter>>
  PROVE  LedgerInv'
<1>1. /\ loans'[id] = new
      /\ \A i \in LoanIds \ {id} : loans'[i] = loans[i]
      /\ loans' \in [LoanIds -> LoanData]
      /\ id \in Nat \ {0}
  BY MaxLoansAssumption, SMT DEF LedgerInv, LoanTypeOK, LoanIds
<1>2. /\ loans[id].nft \in Nfts
      /\ nftToLoanIds[loans[id].nft] = id
      /\ id < loanIdTracker
  BY <1>1, MaxLoansAssumption, SMT DEF LedgerInv, LoanTypeOK, LoanBook, OpenLoansNamed, FreshIds,
     IsOpen, EmptyLoan, LoanIds
<1>3. /\ flashLoanLocking' \in [Nfts -> BOOLEAN]
      /\ flashLoanLocking'[new.nft] <=> new.state = "Auction"
      /\ \A n \in Nfts \ {new.nft} : flashLoanLocking'[n] = flashLoanLocking[n]
  BY <1>2, Zenon DEF LedgerInv, LoanTypeOK
<1>4. LoanTypeOK'
  BY <1>1, <1>3 DEF LedgerInv, LoanTypeOK
<1>5. FreshIds'
  BY <1>1, <1>2, SMT DEF LedgerInv, LoanTypeOK, FreshIds, LoanIds
<1>6. OpenLoansNamed'
  BY <1>1 DEF LedgerInv, OpenLoansNamed, IsOpen
<1>7. LoanBook'
  <2>1. ASSUME NEW n \in Nfts, nftToLoanIds'[n] # 0
        PROVE  /\ IsOpen(loans'[nftToLoanIds'[n]])
               /\ loans'[nftToLoanIds'[n]].nft = n
    <3>1. nftToLoanIds[n] \in LoanIds
      BY <2>1, MaxLoansAssumption, SMT DEF LedgerInv, LoanTypeOK, LoanIds
    <3> QED
      BY <2>1, <3>1, <1>1 DEF LedgerInv, LoanBook, IsOpen
  <2>2. ASSUME NEW i \in LoanIds, IsOpen(loans'[i])
        PROVE  nftToLoanIds'[loans'[i].nft] = i
    BY <2>2, <1>1, <1>2 DEF LedgerInv, LoanBook, IsOpen
  <2> QED
    BY <2>1, <2>2 DEF LoanBook, IsOpen
<1>8. Custody'
  <2>1. ASSUME NEW n \in Nfts, nftToLoanIds[n] # 0
        PROVE  loans'[nftToLoanIds[n]].borrower = loans[nftToLoanIds[n]].borrower
    <3>1. nftToLoanIds[n] \in LoanIds
      BY <2>1, MaxLoansAssumption, SMT DEF LedgerInv, LoanTypeOK, LoanIds
    <3> QED
      BY <3>1, <1>1
  <2> QED
    BY <2>1 DEF LedgerInv, Custody
<1>9. AuctionBooks'
  <2>1. ASSUME NEW i \in LoanIds, IsOpen(loans'[i]), i # id
        PROVE  /\ loans'[i] = loans[i]
               /\ IsOpen(loans[i])
               /\ loans[i].nft \in Nfts
               /\ flashLoanLocking'[loans[i].nft] = flashLoanLocking[loans[i].nft]
    <3>1. loans'[i] = loans[i] /\ IsOpen(loans[i])
      BY <2>1, <1>1 DEF IsOpen
    <3>2. loans[i].nft \in Nfts /\ nftToLoanIds[loans[i].nft] = i
      BY <3>1 DEF LedgerInv, LoanBook, OpenLoansNamed
    <3>3. loans[i].nft # new.nft
      BY <3>2, <2>1, <1>2
    <3> QED
      BY <3>1, <3>2, <3>3, <1>3
  <2>2. ASSUME NEW i \in LoanIds, IsOpen(loans'[i]), i # id
        PROVE  /\ loans'[i].bidStartTimestamp # 0 <=> loans'[i].state = "Auction"
               /\ loans'[i].bidderAddress # ZeroAddress <=> loans'[i].state = "Auction"
               /\ loans'[i].firstBidderAddress # ZeroAddress <=> loans'[i].state = "Auction"
               /\ loans'[i].bidPrice > 0 <=> loans'[i].state = "Auction"
               /\ flashLoanLocking'[loans'[i].nft] <=> loans'[i].state = "Auction"
               /\ loans'[i].bidStartTimestamp <= now'
    BY <2>1, <2>2 DEF LedgerInv, AuctionBooks
  <2>3. \A n \in Nfts : flashLoanLocking'[n] => nftToLoanIds'[n] # 0
    BY <1>1, <1>2, <1>3 DEF LedgerInv, AuctionBooks
  <2>4. /\ new.bidStartTimestamp # 0 <=> new.state = "Auction"
        /\ new.bidderAddress # ZeroAddress <=> new.state = "Auction"
        /\ new.firstBidderAddress # ZeroAddress <=> new.state = "Auction"
        /\ new.bidPrice > 0 <=> new.state = "Auction"
        /\ flashLoanLocking'[new.nft] <=> new.state = "Auction"
        /\ new.bidStartTimestamp <= now'
    BY <1>3
  <2>5. ASSUME NEW i \in LoanIds, IsOpen(loans'[i])
        PROVE  /\ loans'[i].bidStartTimestamp # 0 <=> loans'[i].state = "Auction"
               /\ loans'[i].bidderAddress # ZeroAddress <=> loans'[i].state = "Auction"
               /\ loans'[i].firstBidderAddress # ZeroAddress <=> loans'[i].state = "Auction"
               /\ loans'[i].bidPrice > 0 <=> loans'[i].state = "Auction"
               /\ flashLoanLocking'[loans'[i].nft] <=> loans'[i].state = "Auction"
               /\ loans'[i].bidStartTimestamp <= now'
    <3>1. CASE i = id
      BY <3>1, <2>4, <1>1
    <3>2. CASE i # id
      BY <3>2, <2>5, <2>2
    <3> QED
      BY <3>1, <3>2
  <2> QED
    BY <2>3, <2>5 DEF AuctionBooks
<1> QED
  BY <1>4, <1>5, <1>6, <1>7, <1>8, <1>9 DEF LedgerInv

(* An open loan is closed, its bNFT burned and its NFT handed to a user.   *)
LEMMA LoanClosed ==
  ASSUME LedgerInv, now \in Nat \ {0}, now' = now,
         NEW id \in LoanIds, IsOpen(loans[id]),
         NEW finalState \in {"Repaid", "Defaulted"},
         NEW receiver \in Users,
         CloseLoan(id, finalState, receiver),
         flashLoanLocking' = [flashLoanLocking EXCEPT ![loans[id].nft] = FALSE]
  PROVE  LedgerInv'
<1> DEFINE old == loans[id]
           n == loans[id].nft
<1>1. /\ id \in Nat \ {0}
      /\ old \in LoanData
      /\ n \in Nfts
      /\ old.borrower \in Users
      /\ nftToLoanIds[n] = id
      /\ id < loanIdTracker
  BY MaxLoansAssumption, SMT DEF LedgerInv, LoanTypeOK, LoanBook, OpenLoansNamed,
     FreshIds, IsOpen, EmptyLoan, LoanIds
<1>2. /\ loans'[id] = [old EXCEPT !.state = finalState]
      /\ ~IsOpen(loans'[id])
      /\ \A i \in LoanIds \ {id} : loans'[i] = loans[i]
      /\ loans' \in [LoanIds -> LoanData]
  BY <1>1, SMT DEF LedgerInv, LoanTypeOK, CloseLoan, IsOpen, LoanData, LoanStates
<1>3. /\ nftToLoanIds' \in [Nfts -> 0..MaxLoans]
      /\ nftToLoanIds'[n] = 0
      /\ \A m \in Nfts \ {n} : nftToLoanIds'[m] = nftToLoanIds[m]
      /\ loanIdTracker' = loanIdTracker
  BY <1>1, MaxLoansAssumption, SMT DEF LedgerInv, LoanTypeOK, CloseLoan, TokenReleased
<1>4. /\ nftOwner' \in [Nfts -> Users \cup {BnftAddress}]
      /\ bnftOwner' \in [Nfts -> Users \cup {ZeroAddress}]
      /\ bnftMinter' \in [Nfts -> Users \cup {LoanAddress, ZeroAddress}]
      /\ nftOwner'[n] # BnftAddress
      /\ bnftOwner'[n] = ZeroAddress
      /\ bnftMinter'[n] = ZeroAddress
      /\ \A m \in Nfts \ {n} : /\ nftOwner'[m] = nftOwner[m]
                               /\ bnftOwner'[m] = bnftOwner[m]
                               /\ bnftMinter'[m] = bnftMinter[m]
  BY <1>1, AddressAssumption, SMT DEF LedgerInv, LoanTypeOK, CloseLoan, BnftBurn
<1>5. /\ userNftCollateral' \in [Users -> Nat]
      /\ nftTotalCollateral' \in Nat
  BY <1>1, SMT DEF LedgerInv, LoanTypeOK, CloseLoan, CountLoan
<1>6. /\ flashLoanLocking' \in [Nfts -> BOOLEAN]
      /\ ~flashLoanLocking'[n]
      /\ \A m \in Nfts \ {n} : flashLoanLocking'[m] = flashLoanLocking[m]
  BY <1>1, Zenon DEF LedgerInv, LoanTypeOK
<1>7. LoanTypeOK'
  BY <1>2, <1>3, <1>4, <1>5, <1>6 DEF LedgerInv, LoanTypeOK
<1>8. FreshIds'
  BY <1>1, <1>2, <1>3, SMT DEF LedgerInv, LoanTypeOK, FreshIds, LoanIds
<1>9. ASSUME NEW i \in LoanIds, IsOpen(loans'[i])
      PROVE  /\ i # id
             /\ loans'[i] = loans[i]
             /\ IsOpen(loans[i])
             /\ loans[i].nft \in Nfts
             /\ loans[i].nft # n
             /\ nftToLoanIds[loans[i].nft] = i
  <2>1. i # id /\ loans'[i] = loans[i] /\ IsOpen(loans[i])
    BY <1>2, <1>9 DEF IsOpen
  <2>2. loans[i].nft \in Nfts /\ nftToLoanIds[loans[i].nft] = i
    BY <2>1 DEF LedgerInv, LoanBook, OpenLoansNamed
  <2> QED
    BY <2>1, <2>2, <1>1
<1>10. OpenLoansNamed'
  BY <1>9 DEF LedgerInv, OpenLoansNamed, IsOpen
<1>11. ASSUME NEW m \in Nfts, nftToLoanIds'[m] # 0
       PROVE  /\ m # n
              /\ nftToLoanIds'[m] = nftToLoanIds[m]
              /\ nftToLoanIds[m] \in LoanIds
              /\ nftToLoanIds[m] # id
              /\ loans'[nftToLoanIds[m]] = loans[nftToLoanIds[m]]
  <2>1. m # n /\ nftToLoanIds'[m] = nftToLoanIds[m]
    BY <1>3, <1>11
  <2>2. nftToLoanIds[m] \in LoanIds
    BY <2>1, <1>11, MaxLoansAssumption, SMT DEF LedgerInv, LoanTypeOK, LoanIds
  <2>3. nftToLoanIds[m] # id
    BY <2>1, <1>11 DEF LedgerInv, LoanBook
  <2> QED
    BY <2>1, <2>2, <2>3, <1>2
<1>12. LoanBook'
  <2>1. ASSUME NEW m \in Nfts, nftToLoanIds'[m] # 0
        PROVE  /\ IsOpen(loans'[nftToLoanIds'[m]])
               /\ loans'[nftToLoanIds'[m]].nft = m
    BY <2>1, <1>11 DEF LedgerInv, LoanBook, IsOpen
  <2>2. ASSUME NEW i \in LoanIds, IsOpen(loans'[i])
        PROVE  nftToLoanIds'[loans'[i].nft] = i
    BY <2>2, <1>9, <1>3
  <2> QED
    BY <2>1, <2>2 DEF LoanBook, IsOpen
<1>13. Custody'
  BY <1>3, <1>4, <1>11, AddressAssumption DEF LedgerInv, Custody
<1>14. AuctionBooks'
  <2>1. ASSUME NEW i \in LoanIds, IsOpen(loans'[i])
        PROVE  /\ loans'[i].bidStartTimestamp # 0 <=> loans'[i].state = "Auction"
               /\ loans'[i].bidderAddress # ZeroAddress <=> loans'[i].state = "Auction"
               /\ loans'[i].firstBidderAddress # ZeroAddress <=> loans'[i].state = "Auction"
               /\ loans'[i].bidPrice > 0 <=> loans'[i].state = "Auction"
               /\ flashLoanLocking'[loans'[i].nft] <=> loans'[i].state = "Auction"
               /\ loans'[i].bidStartTimestamp <= now'
    BY <2>1, <1>6, <1>9 DEF LedgerInv, AuctionBooks
  <2>2. \A m \in Nfts : flashLoanLocking'[m] => nftToLoanIds'[m] # 0
    BY <1>3, <1>6 DEF LedgerInv, AuctionBooks
  <2> QED
    BY <2>1, <2>2, Zenon DEF AuctionBooks
<1> QED
  BY <1>7, <1>8, <1>10, <1>12, <1>13, <1>14 DEF LedgerInv

-----------------------------------------------------------------------------
(* The loan of a token is an open loan of that token. *)
LEMMA LoanOfToken ==
  ASSUME LedgerInv, NEW n \in Nfts, nftToLoanIds[n] # 0
  PROVE  LET id == nftToLoanIds[n] IN
         /\ id \in LoanIds
         /\ IsOpen(loans[id])
         /\ loans[id] \in LoanData
         /\ loans[id].nft = n
         /\ loans[id].borrower \in Users
         /\ loans[id].reserveAsset \in Reserves
<1>1. nftToLoanIds[n] \in LoanIds
  BY MaxLoansAssumption, SMT DEF LedgerInv, LoanTypeOK, LoanIds
<1> QED
  BY <1>1 DEF LedgerInv, LoanTypeOK, LoanBook, OpenLoansNamed

(* Scaled amounts are natural numbers at every index of at least one ray. *)
LEMMA ScaledType ==
  ASSUME NEW amount \in Nat, NEW index \in Nat, index >= Ray
  PROVE  RayDiv(amount, index) \in Nat
<1>1. index > 0
  BY RayAssumption, SMT
<1> QED
  BY <1>1, RayDivType

(* Borrowing more and repaying in part only change an Active loan's amount. *)
LEMMA ActiveLoanRescaled ==
  ASSUME LedgerInv, now \in Nat \ {0}, now' = now,
         NEW id \in LoanIds, loans[id].state = "Active",
         NEW scaled \in Nat,
         loans' = [loans EXCEPT ![id].scaledAmount = scaled],
         UNCHANGED <<loanIdTracker, nftToLoanIds, userNftCollateral,
                     nftTotalCollateral, nftOwner, bnftOwner, bnftMinter,
                     flashLoanLocking>>
  PROVE  LedgerInv'
<1> DEFINE old == loans[id]
           new == [old EXCEPT !.scaledAmount = scaled]
<1>1. /\ old \in LoanData
      /\ IsOpen(old)
      /\ loans' = [loans EXCEPT ![id] = new]
  BY LoanFields DEF IsOpen
<1>2. /\ new \in LoanData /\ IsOpen(new) /\ new.state = "Active"
      /\ new.nft = old.nft /\ new.borrower = old.borrower
      /\ new.reserveAsset = old.reserveAsset
      /\ new.bidStartTimestamp = old.bidStartTimestamp
      /\ new.bidderAddress = old.bidderAddress
      /\ new.firstBidderAddress = old.firstBidderAddress
      /\ new.bidPrice = old.bidPrice
  BY <1>1 DEF LoanData, IsOpen
<1>3. /\ old.bidStartTimestamp = 0 /\ old.bidderAddress = ZeroAddress
      /\ old.firstBidderAddress = ZeroAddress /\ ~(old.bidPrice > 0)
      /\ old.bidStartTimestamp <= now
      /\ ~flashLoanLocking[old.nft]
      /\ old.nft \in Nfts
  BY <1>1 DEF LedgerInv, AuctionBooks, OpenLoansNamed
<1>4. flashLoanLocking' =
        [flashLoanLocking EXCEPT ![new.nft] = (new.state = "Auction")]
  BY <1>2, <1>3 DEF LedgerInv, LoanTypeOK
<1> QED
  BY <1>1, <1>2, <1>3, <1>4, OpenLoanUpdated

LEMMA TakeFromLoanInv ==
  ASSUME LedgerInv, now \in Nat \ {0}, now' = now,
         NEW id \in LoanIds, NEW amount \in Nat,
         NEW index \in Nat, index >= Ray,
         TakeFromLoan(id, amount, index)
  PROVE  LedgerInv'
<1>1. RayDiv(amount, index) \in Nat
  BY ScaledType
<1>2. loans[id].scaledAmount - RayDiv(amount, index) \in Nat
  BY <1>1, LoanFields, SMT DEF TakeFromLoan, LoanData
<1> QED
  BY <1>2, ActiveLoanRescaled DEF TakeFromLoan

LEMMA AddToLoanInv ==
  ASSUME LedgerInv, now \in Nat \ {0}, now' = now,
         NEW id \in LoanIds, NEW amount \in Nat,
         NEW index \in Nat, index >= Ray,
         AddToLoan(id, amount, index)
  PROVE  LedgerInv'
<1>1. RayDiv(amount, index) \in Nat
  BY ScaledType
<1>2. loans[id].scaledAmount + RayDiv(amount, index) \in Nat
  BY <1>1, LoanFields, SMT DEF LoanData
<1> QED
  BY <1>2, ActiveLoanRescaled DEF AddToLoan

LEMMA AuctionLoanInv ==
  ASSUME LedgerInv, now \in Nat \ {0}, now' = now,
         NEW id \in LoanIds, NEW onBehalfOf \in Users,
         NEW bidPrice \in Nat, bidPrice > 0,
         AuctionLoan(id, onBehalfOf, bidPrice, now)
  PROVE  LedgerInv'
<1> DEFINE old == loans[id]
           first == old.bidStartTimestamp = 0
           new == loans'[id]
<1>1. /\ old \in LoanData
      /\ IsOpen(old)
      /\ first <=> old.state = "Active"
      /\ loans' = [loans EXCEPT ![id] = new]
  <2>1. old \in LoanData
    BY LoanFields
  <2>2. IsOpen(old)
    BY DEF AuctionLoan, IsOpen
  <2>3. first <=> old.state = "Active"
    BY <2>2 DEF LedgerInv, AuctionBooks, IsOpen
  <2>4. loans' = [loans EXCEPT ![id] = new]
    BY LoanFields DEF AuctionLoan
  <2> QED
    BY <2>1, <2>2, <2>3, <2>4
<1>2. /\ old.nft \in Nfts
      /\ flashLoanLocking[old.nft] <=> ~first
      /\ old.bidStartTimestamp <= now
      /\ ~first => old.firstBidderAddress # ZeroAddress
  BY <1>1 DEF LedgerInv, AuctionBooks, OpenLoansNamed, IsOpen
<1>3. /\ new \in LoanData /\ IsOpen(new) /\ new.state = "Auction"
      /\ new.nft = old.nft /\ new.borrower = old.borrower
      /\ new.reserveAsset = old.reserveAsset
      /\ new.bidderAddress = onBehalfOf /\ new.bidPrice = bidPrice
      /\ new.bidStartTimestamp = IF first THEN now ELSE old.bidStartTimestamp
      /\ new.firstBidderAddress =
           IF first THEN onBehalfOf ELSE old.firstBidderAddress
  <2>1. CASE first
    <3>1. new = [old EXCEPT !.state = "Auction", !.bidStartTimestamp = now,
                   !.firstBidderAddress = onBehalfOf,
                   !.bidderAddress = onBehalfOf, !.bidPrice = bidPrice]
      BY <2>1, LoanFields DEF AuctionLoan
    <3> QED
      BY <3>1, <2>1, <1>1 DEF LoanData, LoanStates, IsOpen
  <2>2. CASE ~first
    <3>1. new = [old EXCEPT !.state = "Auction",
                   !.bidStartTimestamp = old.bidStartTimestamp,
                   !.firstBidderAddress = old.firstBidderAddress,
                   !.bidderAddress = onBehalfOf, !.bidPrice = bidPrice]
      BY <2>2, LoanFields DEF AuctionLoan
    <3> QED
      BY <3>1, <2>2, <1>1 DEF LoanData, LoanStates, IsOpen
  <2> QED
    BY <2>1, <2>2
<1>4. /\ new.bidStartTimestamp # 0 /\ new.bidStartTimestamp <= now
      /\ new.firstBidderAddress # ZeroAddress
      /\ new.bidderAddress # ZeroAddress
  BY <1>2, <1>3, AddressAssumption
<1>5. flashLoanLocking' =
        [flashLoanLocking EXCEPT ![new.nft] = (new.state = "Auction")]
  <2>1. flashLoanLocking' = [flashLoanLocking EXCEPT ![old.nft] = TRUE]
    BY <1>2, Zenon DEF AuctionLoan, LedgerInv, LoanTypeOK
  <2> QED
    BY <2>1, <1>3, Zenon
<1>6. UNCHANGED <<loanIdTracker, nftToLoanIds, userNftCollateral,
                  nftTotalCollateral, nftOwner, bnftOwner, bnftMinter>>
  BY DEF AuctionLoan
<1> QED
  BY <1>1, <1>3, <1>4, <1>5, <1>6, OpenLoanUpdated

LEMMA RedeemLoanInv ==
  ASSUME LedgerInv, now \in Nat \ {0}, now' = now,
         NEW id \in LoanIds, NEW amount \in Nat,
         NEW index \in Nat, index >= Ray,
         RedeemLoan(id, amount, index)
  PROVE  LedgerInv'
<1> DEFINE old == loans[id]
           new == loans'[id]
<1>1. /\ old \in LoanData
      /\ IsOpen(old)
      /\ old.nft \in Nfts
      /\ loans' = [loans EXCEPT ![id] = new]
  BY LoanFields DEF RedeemLoan, IsOpen, LedgerInv, OpenLoansNamed
<1>2. old.scaledAmount - RayDiv(amount, index) \in Nat
  BY <1>1, ScaledType, SMT DEF RedeemLoan, LoanData
<1>3. /\ new \in LoanData /\ IsOpen(new) /\ new.state = "Active"
      /\ new.nft = old.nft /\ new.borrower = old.borrower
      /\ new.reserveAsset = old.reserveAsset
      /\ new.bidStartTimestamp = 0 /\ new.bidderAddress = ZeroAddress
      /\ new.firstBidderAddress = ZeroAddress /\ new.bidPrice = 0
  BY <1>1, <1>2, LoanFields
     DEF RedeemLoan, BidCleared, LoanData, LoanStates, IsOpen
<1>4. flashLoanLocking' =
        [flashLoanLocking EXCEPT ![new.nft] = (new.state = "Auction")]
  BY <1>3, Zenon DEF RedeemLoan
<1>5. UNCHANGED <<loanIdTracker, nftToLoanIds, userNftCollateral,
                  nftTotalCollateral, nftOwner, bnftOwner, bnftMinter>>
  BY DEF RedeemLoan
<1>6. new.bidStartTimestamp <= now /\ ~(new.bidPrice > 0)
  BY <1>3
<1> QED
  BY <1>1, <1>3, <1>4, <1>5, <1>6, OpenLoanUpdated

LEMMA RepayLoanInv ==
  ASSUME LedgerInv, now \in Nat \ {0}, now' = now,
         NEW id \in LoanIds, NEW receiver \in Users,
         RepayLoan(id, receiver)
  PROVE  LedgerInv'
<1>1. IsOpen(loans[id]) /\ loans[id].state = "Active"
  BY DEF RepayLoan, IsOpen
<1>2. /\ loans[id].nft \in Nfts
      /\ ~flashLoanLocking[loans[id].nft]
      /\ flashLoanLocking \in [Nfts -> BOOLEAN]
  BY <1>1 DEF LedgerInv, LoanTypeOK, AuctionBooks, OpenLoansNamed
<1>3. flashLoanLocking' = [flashLoanLocking EXCEPT ![loans[id].nft] = FALSE]
  BY <1>2 DEF RepayLoan
<1> QED
  BY <1>1, <1>3, LoanClosed DEF RepayLoan

LEMMA LiquidateLoanInv ==
  ASSUME LedgerInv, now \in Nat \ {0}, now' = now,
         NEW id \in LoanIds, NEW receiver \in Users,
         LiquidateLoan(id, receiver)
  PROVE  LedgerInv'
BY LoanClosed DEF LiquidateLoan, IsOpen

LEMMA CreateLoanInv ==
  ASSUME LedgerInv, now \in Nat \ {0}, now' = now,
         NEW user \in Users, NEW n \in Nfts, NEW reserve \in Reserves,
         NEW amount \in Nat, NEW index \in Nat, index >= Ray,
         CreateLoan(user, n, reserve, amount, index)
  PROVE  LedgerInv'
<1> DEFINE id == loanIdTracker
           new == loans'[id]
<1>1. /\ id \in LoanIds
      /\ id \in Nat \ {0}
      /\ loans[id] = EmptyLoan
      /\ nftToLoanIds[n] = 0
      /\ loanIdTracker' = id + 1
      /\ loanIdTracker' \in 1..(MaxLoans + 1)
  BY MaxLoansAssumption, SMT DEF LedgerInv, LoanTypeOK, FreshIds, LoanIds,
     CreateLoan, NextLoanId
<1>2. /\ new = [EmptyLoan EXCEPT !.state = "Active", !.borrower = user, !.nft = n,
                  !.reserveAsset = reserve, !.scaledAmount = RayDiv(amount, index)]
      /\ loans' = [loans EXCEPT ![id] = new]
  BY <1>1, LoanFields DEF CreateLoan
<1>3. RayDiv(amount, index) \in Nat
  BY ScaledType
<1>4. /\ new \in LoanData /\ IsOpen(new) /\ new.state = "Active"
      /\ new.nft = n /\ new.borrower = user /\ new.reserveAsset = reserve
      /\ new.bidStartTimestamp = 0 /\ new.bidderAddress = ZeroAddress
      /\ new.firstBidderAddress = ZeroAddress /\ new.bidPrice = 0
  <2>1. /\ EmptyLoan \in LoanData
        /\ EmptyLoan.bidStartTimestamp = 0 /\ EmptyLoan.bidPrice = 0
        /\ EmptyLoan.bidderAddress = ZeroAddress
        /\ EmptyLoan.firstBidderAddress = ZeroAddress
    BY DEF EmptyLoan, LoanData, LoanStates
  <2>2. "Active" \in LoanStates
    BY DEF LoanStates
  <2> HIDE DEF new
  <2> QED
    BY <2>1, <2>2, <1>2, <1>3 DEF LoanData, IsOpen
<1>5. /\ \A i \in LoanIds \ {id} : loans'[i] = loans[i]
      /\ loans' \in [LoanIds -> LoanData]
  BY <1>1, <1>2, <1>4 DEF LedgerInv, LoanTypeOK
<1>6. /\ nftToLoanIds' \in [Nfts -> 0..MaxLoans]
      /\ nftToLoanIds'[n] = id
      /\ \A m \in Nfts \ {n} : nftToLoanIds'[m] = nftToLoanIds[m]
  BY <1>1, MaxLoansAssumption, SMT DEF LedgerInv, LoanTypeOK, CreateLoan, LoanIds
<1>7. /\ nftOwner' \in [Nfts -> Users \cup {BnftAddress}]
      /\ bnftOwner' \in [Nfts -> Users \cup {ZeroAddress}]
      /\ bnftMinter' \in [Nfts -> Users \cup {LoanAddress, ZeroAddress}]
      /\ nftOwner'[n] = BnftAddress
      /\ bnftOwner'[n] = user
      /\ bnftMinter'[n] = LoanAddress
      /\ \A m \in Nfts \ {n} : /\ nftOwner'[m] = nftOwner[m]
                               /\ bnftOwner'[m] = bnftOwner[m]
                               /\ bnftMinter'[m] = bnftMinter[m]
  BY SMT DEF LedgerInv, LoanTypeOK, CreateLoan, BnftMint
<1>8. /\ userNftCollateral' \in [Users -> Nat]
      /\ nftTotalCollateral' \in Nat
      /\ flashLoanLocking' = flashLoanLocking
  BY SMT DEF LedgerInv, LoanTypeOK, CreateLoan, CountLoan
<1>9. LoanTypeOK'
  BY <1>1, <1>5, <1>6, <1>7, <1>8 DEF LedgerInv, LoanTypeOK
<1>10. FreshIds'
  BY <1>1, <1>5, SMT DEF LedgerInv, LoanTypeOK, FreshIds, LoanIds
<1>11. OpenLoansNamed'
  BY <1>4, <1>5 DEF LedgerInv, OpenLoansNamed, IsOpen
(* No other open loan is about the token: its index entry was free. *)
<1>12. ASSUME NEW i \in LoanIds, IsOpen(loans'[i]), i # id
       PROVE  /\ loans'[i] = loans[i]
              /\ IsOpen(loans[i])
              /\ loans[i].nft \in Nfts
              /\ loans[i].nft # n
              /\ nftToLoanIds[loans[i].nft] = i
  <2>1. loans'[i] = loans[i] /\ IsOpen(loans[i])
    BY <1>5, <1>12 DEF IsOpen
  <2>2. loans[i].nft \in Nfts /\ nftToLoanIds[loans[i].nft] = i
    BY <2>1 DEF LedgerInv, LoanBook, OpenLoansNamed
  <2>3. i # 0
    BY LoanFields
  <2> QED
    BY <2>1, <2>2, <2>3, <1>1
<1>13. ASSUME NEW m \in Nfts, nftToLoanIds'[m] # 0, m # n
       PROVE  /\ nftToLoanIds'[m] = nftToLoanIds[m]
              /\ nftToLoanIds[m] \in LoanIds
              /\ loans'[nftToLoanIds[m]] = loans[nftToLoanIds[m]]
              /\ IsOpen(loans[nftToLoanIds[m]])
              /\ loans[nftToLoanIds[m]].nft = m
  <2>1. nftToLoanIds'[m] = nftToLoanIds[m] /\ nftToLoanIds[m] # 0
    BY <1>6, <1>13
  <2>2. nftToLoanIds[m] \in LoanIds
    BY <2>1, MaxLoansAssumption, SMT DEF LedgerInv, LoanTypeOK, LoanIds
  <2>3. IsOpen(loans[nftToLoanIds[m]]) /\ loans[nftToLoanIds[m]].nft = m
    BY <2>1 DEF LedgerInv, LoanBook
  <2>4. nftToLoanIds[m] # id
    BY <2>3, <1>1 DEF EmptyLoan, IsOpen
  <2> QED
    BY <2>1, <2>2, <2>3, <2>4, <1>5
<1>14. LoanBook'
  <2>1. ASSUME NEW m \in Nfts, nftToLoanIds'[m] # 0
        PROVE  /\ IsOpen(loans'[nftToLoanIds'[m]])
               /\ loans'[nftToLoanIds'[m]].nft = m
    <3>1. CASE m = n
      BY <3>1, <1>4, <1>6 DEF IsOpen
    <3>2. CASE m # n
      BY <3>2, <2>1, <1>13 DEF IsOpen
    <3> QED
      BY <3>1, <3>2
  <2>2. ASSUME NEW i \in LoanIds, IsOpen(loans'[i])
        PROVE  nftToLoanIds'[loans'[i].nft] = i
    BY <2>2, <1>4, <1>6, <1>12
  <2> QED
    BY <2>1, <2>2 DEF LoanBook, IsOpen
<1>15. Custody'
  <2>1. ASSUME NEW m \in Nfts, m # n
        PROVE  /\ nftToLoanIds'[m] # 0 =>
                    /\ bnftMinter'[m] = LoanAddress
                    /\ bnftOwner'[m] = loans'[nftToLoanIds'[m]].borrower
               /\ nftToLoanIds'[m] = 0 => bnftMinter'[m] # LoanAddress
               /\ nftOwner'[m] = BnftAddress <=> bnftOwner'[m] # ZeroAddress
               /\ bnftOwner'[m] = ZeroAddress <=> bnftMinter'[m] = ZeroAddress
    BY <2>1, <1>6, <1>7, <1>13 DEF LedgerInv, Custody
  <2>2. /\ nftToLoanIds'[n] = id /\ id # 0
        /\ bnftMinter'[n] = LoanAddress
        /\ bnftOwner'[n] = new.borrower
        /\ nftOwner'[n] = BnftAddress /\ bnftOwner'[n] # ZeroAddress
        /\ bnftMinter'[n] # ZeroAddress
    BY <1>1, <1>4, <1>6, <1>7, AddressAssumption
  <2> QED
    BY <2>1, <2>2 DEF Custody
<1>16. AuctionBooks'
  <2>1. ~flashLoanLocking[n]
    BY <1>1 DEF LedgerInv, AuctionBooks
  <2>2. ASSUME NEW i \in LoanIds, IsOpen(loans'[i])
        PROVE  /\ loans'[i].bidStartTimestamp # 0 <=> loans'[i].state = "Auction"
               /\ loans'[i].bidderAddress # ZeroAddress <=> loans'[i].state = "Auction"
               /\ loans'[i].firstBidderAddress # ZeroAddress <=> loans'[i].state = "Auction"
               /\ loans'[i].bidPrice > 0 <=> loans'[i].state = "Auction"
               /\ flashLoanLocking'[loans'[i].nft] <=> loans'[i].state = "Auction"
               /\ loans'[i].bidStartTimestamp <= now'
    <3>1. CASE i = id
      BY <3>1, <2>1, <1>4, <1>8
    <3>2. CASE i # id
      BY <3>2, <2>2, <1>8, <1>12 DEF LedgerInv, AuctionBooks
    <3> QED
      BY <3>1, <3>2
  <2>3. \A m \in Nfts : flashLoanLocking'[m] => nftToLoanIds'[m] # 0
    BY <2>1, <1>6, <1>8 DEF LedgerInv, AuctionBooks
  <2> QED
    BY <2>2, <2>3, Zenon DEF AuctionBooks
<1> QED
  BY <1>9, <1>10, <1>11, <1>14, <1>15, <1>16 DEF LedgerInv

-----------------------------------------------------------------------------
(* The token owners' moves leave the loans and their index alone: they only *)
(* have to keep the types and the custody of the one token they touch.      *)
LEMMA TokenMoved ==
  ASSUME LedgerInv, now' = now,
         UNCHANGED <<loanIdTracker, loans, nftToLoanIds, userNftCollateral,
                     nftTotalCollateral, flashLoanLocking>>,
         nftOwner' \in [Nfts -> Users \cup {BnftAddress}],
         bnftOwner' \in [Nfts -> Users \cup {ZeroAddress}],
         bnftMinter' \in [Nfts -> Users \cup {LoanAddress, ZeroAddress}],
         Custody'
  PROVE  LedgerInv'
<1>1. LoanTypeOK'
  BY DEF LedgerInv, LoanTypeOK
<1>2. FreshIds' /\ OpenLoansNamed' /\ LoanBook' /\ AuctionBooks'
  BY DEF LedgerInv, FreshIds, OpenLoansNamed, LoanBook, AuctionBooks, IsOpen
<1> QED
  BY <1>1, <1>2 DEF LedgerInv

LEMMA NftTransferInv ==
  ASSUME LedgerInv, now' = now,
         NEW n \in Nfts, NEW from \in Users, NEW to \in Users,
         NftTransfer(n, from, to)
  PROVE  LedgerInv'
<1>1. /\ nftOwner' \in [Nfts -> Users \cup {BnftAddress}]
      /\ nftOwner[n] # BnftAddress /\ nftOwner'[n] # BnftAddress
      /\ \A m \in Nfts \ {n} : nftOwner'[m] = nftOwner[m]
  BY AddressAssumption, SMT DEF LedgerInv, LoanTypeOK, NftTransfer
<1>2. UNCHANGED <<loanIdTracker, loans, nftToLoanIds, userNftCollateral,
                  nftTotalCollateral, bnftOwner, bnftMinter, flashLoanLocking>>
  BY DEF NftTransfer
<1>3. Custody'
  BY <1>1, <1>2 DEF LedgerInv, Custody
<1> QED
  BY <1>1, <1>2, <1>3, TokenMoved DEF LedgerInv, LoanTypeOK

(* A user who holds an NFT has no loan on it, so his bNFT is no loan's. *)
LEMMA UserMintsBnftInv ==
  ASSUME LedgerInv, now' = now, NEW u \in Users, NEW n \in Nfts,
         UserMintsBnft(u, n)
  PROVE  LedgerInv'
<1>1. /\ nftOwner' \in [Nfts -> Users \cup {BnftAddress}]
      /\ bnftOwner' \in [Nfts -> Users \cup {ZeroAddress}]
      /\ bnftMinter' \in [Nfts -> Users \cup {LoanAddress, ZeroAddress}]
      /\ nftOwner'[n] = BnftAddress /\ bnftOwner'[n] = u /\ bnftMinter'[n] = u
      /\ \A m \in Nfts \ {n} : /\ nftOwner'[m] = nftOwner[m]
                               /\ bnftOwner'[m] = bnftOwner[m]
                               /\ bnftMinter'[m] = bnftMinter[m]
  BY SMT DEF LedgerInv, LoanTypeOK, UserMintsBnft, BnftMint
<1>2. UNCHANGED <<loanIdTracker, loans, nftToLoanIds, userNftCollateral,
                  nftTotalCollateral, flashLoanLocking>>
  BY DEF UserMintsBnft
<1>3. nftToLoanIds[n] = 0
  <2>1. bnftMinter[n] = ZeroAddress
    BY DEF LedgerInv, Custody, UserMintsBnft, BnftMint
  <2> QED
    BY <2>1, AddressAssumption DEF LedgerInv, Custody
<1>4. Custody'
  BY <1>1, <1>2, <1>3, AddressAssumption DEF LedgerInv, Custody
<1> QED
  BY <1>1, <1>2, <1>4, TokenMoved

LEMMA UserBurnsBnftInv ==
  ASSUME LedgerInv, now' = now, NEW u \in Users, NEW n \in Nfts,
         UserBurnsBnft(u, n)
  PROVE  LedgerInv'
<1>1. /\ nftOwner' \in [Nfts -> Users \cup {BnftAddress}]
      /\ bnftOwner' \in [Nfts -> Users \cup {ZeroAddress}]
      /\ bnftMinter' \in [Nfts -> Users \cup {LoanAddress, ZeroAddress}]
      /\ nftOwner'[n] = u
      /\ bnftOwner'[n] = ZeroAddress /\ bnftMinter'[n] = ZeroAddress
      /\ \A m \in Nfts \ {n} : /\ nftOwner'[m] = nftOwner[m]
                               /\ bnftOwner'[m] = bnftOwner[m]
                               /\ bnftMinter'[m] = bnftMinter[m]
  BY SMT DEF LedgerInv, LoanTypeOK, UserBurnsBnft, BnftBurn
<1>2. UNCHANGED <<loanIdTracker, loans, nftToLoanIds, userNftCollateral,
                  nftTotalCollateral, flashLoanLocking>>
  BY DEF UserBurnsBnft
<1>3. nftToLoanIds[n] = 0
  BY AddressAssumption DEF LedgerInv, Custody, UserBurnsBnft, BnftBurn
<1>4. Custody'
  BY <1>1, <1>2, <1>3, AddressAssumption DEF LedgerInv, Custody
<1> QED
  BY <1>1, <1>2, <1>4, TokenMoved

(* A step that leaves the ledger alone may let time pass. *)
LEMMA LedgerUnchanged ==
  ASSUME LedgerInv, now \in Nat, now' \in Nat, now' >= now, UNCHANGED loanVars
  PROVE  LedgerInv'
<1>1. UNCHANGED <<loanIdTracker, loans, nftToLoanIds, userNftCollateral,
                  nftTotalCollateral, nftOwner, bnftOwner, bnftMinter,
                  flashLoanLocking>>
  BY DEF loanVars
<1>2. LoanTypeOK' /\ FreshIds' /\ OpenLoansNamed' /\ LoanBook' /\ Custody'
  BY <1>1 DEF LedgerInv, LoanTypeOK, FreshIds, OpenLoansNamed, LoanBook, Custody,
     IsOpen
<1>3. AuctionBooks'
  <2>1. ASSUME NEW i \in LoanIds, IsOpen(loans[i])
        PROVE  loans[i].bidStartTimestamp <= now'
    <3>1. loans[i].bidStartTimestamp \in Nat /\ loans[i].bidStartTimestamp <= now
      BY <2>1 DEF LedgerInv, LoanTypeOK, LoanData, AuctionBooks
    <3> QED
      BY <3>1, SMT
  <2> QED
    BY <1>1, <2>1, Zenon DEF LedgerInv, AuctionBooks, IsOpen
<1> QED
  BY <1>2, <1>3 DEF LedgerInv
=============================================================================
