---------------------- MODULE LendPoolRefinementProofs ----------------------
(***************************************************************************)
(* The pool implements the vault, for every value of the constants: its    *)
(* initial states are the vault's, and each transaction is a step of the   *)
(* vault on one token or leaves the vault as it is.                        *)
(***************************************************************************)
EXTENDS LendPoolRefinement, LendPoolProofs

(* What the mapping reads about a token is as before. *)
SameToken(m) ==
  /\ nftToLoanIds'[m] = nftToLoanIds[m]
  /\ nftToLoanIds[m] # 0 => loans'[nftToLoanIds[m]] = loans[nftToLoanIds[m]]
  /\ nftOwner'[m] = nftOwner[m]
  /\ bnftMinter'[m] = bnftMinter[m]

(* Functions that agree everywhere but at n *)
LEMMA FunctionUpdate ==
  ASSUME NEW S, NEW f, NEW g,
         f = [x \in S |-> f[x]], g = [x \in S |-> g[x]],
         NEW n \in S, \A m \in S \ {n} : g[m] = f[m]
  PROVE  g = [f EXCEPT ![n] = g[n]]
BY SMT

LEMMA ViewsAreFunctions ==
  /\ VaultStatus = [m \in Nfts |-> VaultStatus[m]]
  /\ VaultEntitled = [m \in Nfts |-> VaultEntitled[m]]
  /\ VaultBidder = [m \in Nfts |-> VaultBidder[m]]
  /\ VaultBid = [m \in Nfts |-> VaultBid[m]]
  /\ VaultStatus' = [m \in Nfts |-> VaultStatus'[m]]
  /\ VaultEntitled' = [m \in Nfts |-> VaultEntitled'[m]]
  /\ VaultBidder' = [m \in Nfts |-> VaultBidder'[m]]
  /\ VaultBid' = [m \in Nfts |-> VaultBid'[m]]
BY DEF VaultStatus, VaultEntitled, VaultBidder, VaultBid

(* The vault's view of every token but n stays the same. *)
LEMMA OtherTokens ==
  ASSUME NEW n \in Nfts, \A m \in Nfts \ {n} : SameToken(m)
  PROVE  /\ VaultStatus' = [VaultStatus EXCEPT ![n] = VaultStatus'[n]]
         /\ VaultEntitled' = [VaultEntitled EXCEPT ![n] = VaultEntitled'[n]]
         /\ VaultBidder' = [VaultBidder EXCEPT ![n] = VaultBidder'[n]]
         /\ VaultBid' = [VaultBid EXCEPT ![n] = VaultBid'[n]]
<1>1. ASSUME NEW m \in Nfts \ {n}
      PROVE  /\ InAuction(m)' = InAuction(m)
             /\ VaultStatus'[m] = VaultStatus[m]
             /\ VaultEntitled'[m] = VaultEntitled[m]
             /\ VaultBidder'[m] = VaultBidder[m]
             /\ VaultBid'[m] = VaultBid[m]
  <2>1. InAuction(m)' <=> InAuction(m)
    BY SMT DEF SameToken, InAuction
  <2> QED
    BY <2>1, SMT
       DEF SameToken, InAuction, VaultStatus, VaultEntitled, VaultBidder, VaultBid
<1> QED
  BY <1>1, FunctionUpdate, ViewsAreFunctions

(* If the view of n is the same as well, the vault stutters. *)
LEMMA VaultStutters ==
  ASSUME NEW n \in Nfts, \A m \in Nfts \ {n} : SameToken(m),
         VaultStatus'[n] = VaultStatus[n],
         VaultEntitled'[n] = VaultEntitled[n],
         VaultBidder'[n] = VaultBidder[n],
         VaultBid'[n] = VaultBid[n]
  PROVE  UNCHANGED Vault!vars
<1>1. /\ VaultStatus' = VaultStatus /\ VaultEntitled' = VaultEntitled
      /\ VaultBidder' = VaultBidder /\ VaultBid' = VaultBid
  BY OtherTokens, ViewsAreFunctions
<1> QED
  BY <1>1 DEF Vault!vars

(* The vault's view of a token: free, pledged or in auction *)
View(n) ==
  LET loan == loans[nftToLoanIds[n]] IN
  /\ nftToLoanIds[n] = 0 =>
       /\ VaultStatus[n] = "free"
       /\ VaultEntitled[n] =
            IF nftOwner[n] = BnftAddress THEN bnftMinter[n] ELSE nftOwner[n]
       /\ VaultBidder[n] = ZeroAddress
       /\ VaultBid[n] = 0
  /\ nftToLoanIds[n] # 0 /\ loan.state # "Auction" =>
       /\ VaultStatus[n] = "pledged"
       /\ VaultEntitled[n] = loan.borrower
       /\ VaultBidder[n] = ZeroAddress
       /\ VaultBid[n] = 0
  /\ nftToLoanIds[n] # 0 /\ loan.state = "Auction" =>
       /\ VaultStatus[n] = "auctioned"
       /\ VaultEntitled[n] = loan.borrower
       /\ VaultBidder[n] = loan.bidderAddress
       /\ VaultBid[n] = loan.bidPrice

LEMMA Views ==
  ASSUME NEW n \in Nfts
  PROVE  View(n) /\ View(n)'
<1>1. View(n)
  BY DEF View, VaultStatus, VaultEntitled, VaultBidder, VaultBid, InAuction
<1>2. View(n)'
  BY DEF View, VaultStatus, VaultEntitled, VaultBidder, VaultBid, InAuction
<1> QED
  BY <1>1, <1>2

(* A step on the loan of n concerns no other token. *)
LEMMA LoanStepFrame ==
  ASSUME LedgerInv, NEW n \in Nfts, NEW id \in LoanIds,
         IsOpen(loans[id]) => loans[id].nft = n,
         \A i \in LoanIds \ {id} : loans'[i] = loans[i],
         \A m \in Nfts \ {n} : /\ nftToLoanIds'[m] = nftToLoanIds[m]
                               /\ nftOwner'[m] = nftOwner[m]
                               /\ bnftMinter'[m] = bnftMinter[m]
  PROVE  \A m \in Nfts \ {n} : SameToken(m)
<1>1. ASSUME NEW m \in Nfts \ {n}, nftToLoanIds[m] # 0
      PROVE  loans'[nftToLoanIds[m]] = loans[nftToLoanIds[m]]
  BY <1>1, LoanOfToken
<1> QED
  BY <1>1 DEF SameToken

-----------------------------------------------------------------------------
(* Each ledger operation is one action of the vault or a stutter. *)
LEMMA CreateLoanPledges ==
  ASSUME LedgerInv, NEW ob \in Users, NEW n \in Nfts, NEW r, NEW a, NEW index,
         CreateLoan(ob, n, r, a, index)
  PROVE  Vault!Pledge(n, ob)
<1> DEFINE id == loanIdTracker
<1>1. /\ id \in LoanIds
      /\ \A i \in LoanIds \ {id} : loans'[i] = loans[i]
      /\ loans[id] = EmptyLoan
  <2>1. id \in LoanIds /\ \A i \in LoanIds \ {id} : loans'[i] = loans[i]
    BY CreateMoves DEF OneLoanMoves
  <2>2. loans[id] = EmptyLoan
    BY <2>1, SMT DEF LedgerInv, LoanTypeOK, FreshIds, LoanIds
  <2> QED
    BY <2>1, <2>2
<1>2. /\ nftToLoanIds[n] = 0 /\ nftToLoanIds'[n] = id /\ id # 0
      /\ loans'[id].state = "Active" /\ loans'[id].borrower = ob
  BY <1>1, LoanFields DEF CreateLoan, LedgerInv, LoanTypeOK, EmptyLoan
<1>3. \A m \in Nfts \ {n} : SameToken(m)
  BY <1>1, LoanStepFrame
     DEF CreateLoan, BnftMint, LedgerInv, LoanTypeOK, EmptyLoan, IsOpen
<1>4. /\ VaultStatus[n] = "free" /\ VaultStatus'[n] = "pledged"
      /\ VaultEntitled'[n] = ob
      /\ VaultBidder[n] = ZeroAddress /\ VaultBidder'[n] = ZeroAddress
      /\ VaultBid[n] = 0 /\ VaultBid'[n] = 0
  BY <1>2, Views DEF View
<1>5. VaultBidder' = VaultBidder /\ VaultBid' = VaultBid
  BY <1>3, <1>4, OtherTokens, ViewsAreFunctions
<1> QED
  BY <1>3, <1>4, <1>5, OtherTokens DEF Vault!Pledge

LEMMA AmountStutters ==
  ASSUME LedgerInv, NEW n \in Nfts, nftToLoanIds[n] # 0,
         NEW a, NEW index,
         \/ TakeFromLoan(nftToLoanIds[n], a, index)
         \/ AddToLoan(nftToLoanIds[n], a, index)
  PROVE  UNCHANGED Vault!vars
<1> DEFINE id == nftToLoanIds[n]
<1>1. id \in LoanIds /\ loans[id].nft = n /\ loans[id] \in LoanData
  BY LoanOfToken
<1>2. /\ loans[id].state = "Active" /\ loans'[id].state = "Active"
      /\ loans'[id].borrower = loans[id].borrower
      /\ \A i \in LoanIds \ {id} : loans'[i] = loans[i]
      /\ UNCHANGED <<nftToLoanIds, nftOwner, bnftMinter>>
  BY <1>1, LoanFields DEF TakeFromLoan, AddToLoan, LoanData
<1>3. \A m \in Nfts \ {n} : SameToken(m)
  BY <1>1, <1>2, LoanStepFrame
<1>4. /\ VaultStatus'[n] = VaultStatus[n] /\ VaultEntitled'[n] = VaultEntitled[n]
      /\ VaultBidder'[n] = VaultBidder[n] /\ VaultBid'[n] = VaultBid[n]
  BY <1>2, Views DEF View
<1> QED
  BY <1>3, <1>4, VaultStutters

LEMMA CloseLoanFrees ==
  ASSUME LedgerInv, NEW n \in Nfts, nftToLoanIds[n] # 0,
         NEW finalState, NEW receiver \in Users,
         CloseLoan(nftToLoanIds[n], finalState, receiver)
  PROVE  /\ \A m \in Nfts \ {n} : SameToken(m)
         /\ VaultStatus'[n] = "free" /\ VaultEntitled'[n] = receiver
         /\ VaultBidder'[n] = ZeroAddress /\ VaultBid'[n] = 0
<1> DEFINE id == nftToLoanIds[n]
<1>1. id \in LoanIds /\ loans[id].nft = n /\ loans[id] \in LoanData
  BY LoanOfToken
<1>2. /\ \A i \in LoanIds \ {id} : loans'[i] = loans[i]
      /\ nftToLoanIds'[n] = 0 /\ nftOwner'[n] = receiver
      /\ \A m \in Nfts \ {n} : /\ nftToLoanIds'[m] = nftToLoanIds[m]
                               /\ nftOwner'[m] = nftOwner[m]
                               /\ bnftMinter'[m] = bnftMinter[m]
  BY <1>1, LoanFields
     DEF CloseLoan, TokenReleased, BnftBurn, LedgerInv, LoanTypeOK
<1>3. receiver # BnftAddress
  BY AddressAssumption
<1>4. \A m \in Nfts \ {n} : SameToken(m)
  BY <1>1, <1>2, LoanStepFrame
<1> QED
  BY <1>2, <1>3, <1>4, Views DEF View

LEMMA RepayLoanReleases ==
  ASSUME LedgerInv, NEW n \in Nfts, nftToLoanIds[n] # 0,
         RepayLoan(nftToLoanIds[n], loans[nftToLoanIds[n]].borrower)
  PROVE  Vault!Release(n)
<1> DEFINE loan == loans[nftToLoanIds[n]]
<1>1. loan.state = "Active" /\ loan.borrower \in Users
  BY LoanOfToken DEF RepayLoan
<1>2. /\ \A m \in Nfts \ {n} : SameToken(m)
      /\ VaultStatus'[n] = "free" /\ VaultEntitled'[n] = loan.borrower
      /\ VaultBidder'[n] = ZeroAddress /\ VaultBid'[n] = 0
  BY <1>1, CloseLoanFrees DEF RepayLoan
<1>3. /\ VaultStatus[n] = "pledged" /\ VaultEntitled[n] = loan.borrower
      /\ VaultBidder[n] = ZeroAddress /\ VaultBid[n] = 0
  BY <1>1, Views DEF View
<1>4. /\ VaultEntitled' = VaultEntitled
      /\ VaultBidder' = VaultBidder /\ VaultBid' = VaultBid
  BY <1>2, <1>3, OtherTokens, ViewsAreFunctions
<1> QED
  BY <1>2, <1>3, <1>4, OtherTokens DEF Vault!Release

LEMMA LiquidateLoanSells ==
  ASSUME LedgerInv, NEW n \in Nfts, nftToLoanIds[n] # 0,
         loans[nftToLoanIds[n]].bidderAddress \in Users,
         LiquidateLoan(nftToLoanIds[n], loans[nftToLoanIds[n]].bidderAddress)
  PROVE  Vault!Sell(n)
<1> DEFINE loan == loans[nftToLoanIds[n]]
<1>1. loan.state = "Auction"
  BY DEF LiquidateLoan
<1>2. /\ \A m \in Nfts \ {n} : SameToken(m)
      /\ VaultStatus'[n] = "free" /\ VaultEntitled'[n] = loan.bidderAddress
      /\ VaultBidder'[n] = ZeroAddress /\ VaultBid'[n] = 0
  BY <1>1, CloseLoanFrees DEF LiquidateLoan
<1>3. VaultStatus[n] = "auctioned" /\ VaultBidder[n] = loan.bidderAddress
  BY <1>1, Views DEF View
<1> QED
  BY <1>2, <1>3, OtherTokens DEF Vault!Sell

LEMMA AuctionLoanBids ==
  ASSUME LedgerInv, NEW n \in Nfts, nftToLoanIds[n] # 0,
         NEW ob \in Users, NEW b \in Nat, b > 0,
         AuctionLoan(nftToLoanIds[n], ob, b, now)
  PROVE  Vault!Bid(n, ob, b)
<1> DEFINE id == nftToLoanIds[n]
           old == loans[id]
<1>1. id \in LoanIds /\ old.nft = n /\ old \in LoanData
  BY LoanOfToken
<1>2. /\ loans'[id].state = "Auction" /\ loans'[id].borrower = old.borrower
      /\ loans'[id].bidderAddress = ob /\ loans'[id].bidPrice = b
      /\ \A i \in LoanIds \ {id} : loans'[i] = loans[i]
      /\ UNCHANGED <<nftToLoanIds, nftOwner, bnftMinter>>
  BY <1>1, LoanFields DEF AuctionLoan, LoanData
<1>3. /\ old.state \in {"Active", "Auction"}
      /\ old.state = "Auction" => b > old.bidPrice
  <2>1. old.state = "Auction" => old.bidStartTimestamp # 0
    BY <1>1 DEF LedgerInv, AuctionBooks, IsOpen
  <2> QED
    BY <2>1 DEF AuctionLoan, HigherBid
<1>4. \A m \in Nfts \ {n} : SameToken(m)
  BY <1>1, <1>2, LoanStepFrame
<1>5. /\ VaultStatus[n] \in {"pledged", "auctioned"}
      /\ b > VaultBid[n]
      /\ VaultEntitled[n] = old.borrower
  BY <1>3, Views DEF View
<1>6. /\ VaultStatus'[n] = "auctioned" /\ VaultEntitled'[n] = old.borrower
      /\ VaultBidder'[n] = ob /\ VaultBid'[n] = b
  BY <1>2, Views DEF View
<1>7. VaultEntitled' = VaultEntitled
  BY <1>4, <1>5, <1>6, OtherTokens, ViewsAreFunctions
<1> QED
  BY <1>4, <1>5, <1>6, <1>7, OtherTokens DEF Vault!Bid

LEMMA RedeemLoanCallsOff ==
  ASSUME LedgerInv, NEW n \in Nfts, nftToLoanIds[n] # 0, NEW a, NEW index,
         RedeemLoan(nftToLoanIds[n], a, index)
  PROVE  Vault!CallOff(n)
<1> DEFINE id == nftToLoanIds[n]
           old == loans[id]
<1>1. id \in LoanIds /\ old.nft = n /\ old \in LoanData
  BY LoanOfToken
<1>2. /\ old.state = "Auction"
      /\ loans'[id].state = "Active" /\ loans'[id].borrower = old.borrower
      /\ \A i \in LoanIds \ {id} : loans'[i] = loans[i]
      /\ UNCHANGED <<nftToLoanIds, nftOwner, bnftMinter>>
  BY <1>1, LoanFields DEF RedeemLoan, BidCleared, LoanData
<1>3. \A m \in Nfts \ {n} : SameToken(m)
  BY <1>1, <1>2, LoanStepFrame
<1>4. VaultStatus[n] = "auctioned" /\ VaultEntitled[n] = old.borrower
  BY <1>2, Views DEF View
<1>5. /\ VaultStatus'[n] = "pledged" /\ VaultEntitled'[n] = old.borrower
      /\ VaultBidder'[n] = ZeroAddress /\ VaultBid'[n] = 0
  BY <1>2, Views DEF View
<1>6. VaultEntitled' = VaultEntitled
  BY <1>3, <1>4, <1>5, OtherTokens, ViewsAreFunctions
<1> QED
  BY <1>3, <1>4, <1>5, <1>6, OtherTokens DEF Vault!CallOff

LEMMA NftTransferGives ==
  ASSUME LedgerInv, NEW n \in Nfts, NEW from \in Users, NEW to \in Users,
         NftTransfer(n, from, to)
  PROVE  Vault!Give(n, to)
<1>1. nftToLoanIds[n] = 0
  BY AddressAssumption DEF LedgerInv, Custody, NftTransfer
<1>2. /\ nftToLoanIds'[n] = 0 /\ nftOwner'[n] = to /\ to # BnftAddress
      /\ \A m \in Nfts \ {n} : SameToken(m)
  BY <1>1, AddressAssumption
     DEF NftTransfer, SameToken, LedgerInv, LoanTypeOK
<1>3. /\ VaultStatus[n] = "free" /\ VaultBidder[n] = ZeroAddress /\ VaultBid[n] = 0
      /\ VaultStatus'[n] = "free" /\ VaultEntitled'[n] = to
      /\ VaultBidder'[n] = ZeroAddress /\ VaultBid'[n] = 0
  BY <1>1, <1>2, Views DEF View
<1>4. /\ VaultStatus' = VaultStatus
      /\ VaultBidder' = VaultBidder /\ VaultBid' = VaultBid
  BY <1>2, <1>3, OtherTokens, ViewsAreFunctions
<1> QED
  BY <1>2, <1>3, <1>4, OtherTokens DEF Vault!Give

(* Wrapping and unwrapping an NFT of one's own does not change the title. *)
LEMMA UserBnftStutters ==
  ASSUME LedgerInv, NEW n \in Nfts, NEW u \in Users,
         UserMintsBnft(u, n) \/ UserBurnsBnft(u, n)
  PROVE  UNCHANGED Vault!vars
<1>1. /\ nftToLoanIds[n] = 0 /\ nftToLoanIds'[n] = 0
      /\ IF nftOwner[n] = BnftAddress THEN bnftMinter[n] = u ELSE nftOwner[n] = u
      /\ IF nftOwner'[n] = BnftAddress THEN bnftMinter'[n] = u ELSE nftOwner'[n] = u
  <2>1. CASE UserMintsBnft(u, n)
    BY <2>1, AddressAssumption
       DEF UserMintsBnft, BnftMint, LedgerInv, LoanTypeOK, Custody
  <2>2. CASE UserBurnsBnft(u, n)
    BY <2>2, AddressAssumption
       DEF UserBurnsBnft, BnftBurn, LedgerInv, LoanTypeOK, Custody
  <2> QED
    BY <2>1, <2>2
<1>2. \A m \in Nfts \ {n} : SameToken(m)
  BY DEF UserMintsBnft, UserBurnsBnft, BnftMint, BnftBurn, SameToken, LedgerInv,
     LoanTypeOK
<1>3. /\ VaultStatus'[n] = VaultStatus[n] /\ VaultEntitled'[n] = VaultEntitled[n]
      /\ VaultBidder'[n] = VaultBidder[n] /\ VaultBid'[n] = VaultBid[n]
  BY <1>1, Views DEF View
<1> QED
  BY <1>2, <1>3, VaultStutters

LEMMA LedgerStutters ==
  ASSUME UNCHANGED loanVars
  PROVE  UNCHANGED Vault!vars
<1>1. UNCHANGED <<loans, nftToLoanIds, nftOwner, bnftMinter>>
  BY DEF loanVars
<1>2. /\ VaultStatus' = VaultStatus /\ VaultEntitled' = VaultEntitled
      /\ VaultBidder' = VaultBidder /\ VaultBid' = VaultBid
  BY <1>1 DEF VaultStatus, VaultEntitled, VaultBidder, VaultBid, InAuction
<1> QED
  BY <1>2 DEF Vault!vars

-----------------------------------------------------------------------------
LEMMA VaultInit == Init => Vault!Init
<1> SUFFICES ASSUME Init PROVE Vault!Init
  OBVIOUS
<1>1. ASSUME NEW n \in Nfts
      PROVE  /\ VaultStatus[n] = "free" /\ VaultEntitled[n] \in Users
             /\ VaultBidder[n] = ZeroAddress /\ VaultBid[n] = 0
  <2>1. nftToLoanIds[n] = 0 /\ nftOwner[n] \in Users /\ nftOwner[n] # BnftAddress
    BY AddressAssumption DEF Init, LoanInit
  <2> QED
    BY <2>1, Views DEF View
<1>2. /\ VaultStatus = [n \in Nfts |-> "free"]
      /\ VaultEntitled \in [Nfts -> Users]
      /\ VaultBidder = [n \in Nfts |-> ZeroAddress]
      /\ VaultBid = [n \in Nfts |-> 0]
  BY <1>1, ViewsAreFunctions
<1> QED
  BY <1>2 DEF Vault!Init

LEMMA VaultStep ==
  ASSUME Inv, [Next]_vars
  PROVE  [Vault!Next]_(Vault!vars)
<1>1. LedgerInv
  BY DEF Inv
<1>2. CASE PoolStep
  <2>1. ASSUME NEW u \in Users, NEW ob \in Users, NEW r \in Reserves,
               NEW n \in Nfts, NEW a \in Amounts, Borrow(u, ob, r, n, a)
        PROVE  Vault!Pledge(n, ob) \/ UNCHANGED Vault!vars
    <3>1. PICK index \in Ray..MaxIndex :
            \/ CreateLoan(ob, n, r, a, index)
            \/ nftToLoanIds[n] # 0 /\ AddToLoan(nftToLoanIds[n], a, index)
      BY <2>1 DEF Borrow
    <3> QED
      BY <1>1, <3>1, CreateLoanPledges, AmountStutters
  <2>2. ASSUME NEW n \in Nfts, NEW a \in Amounts, Repay(n, a)
        PROVE  Vault!Release(n) \/ UNCHANGED Vault!vars
    <3>1. nftToLoanIds[n] # 0
      BY <2>2 DEF Repay
    <3>2. PICK index \in Ray..MaxIndex :
            \/ TakeFromLoan(nftToLoanIds[n], a, index)
            \/ RepayLoan(nftToLoanIds[n], loans[nftToLoanIds[n]].borrower)
      BY <2>2 DEF Repay
    <3> QED
      BY <1>1, <3>1, <3>2, AmountStutters, RepayLoanReleases
  <2>3. ASSUME NEW n \in Nfts, NEW ob \in Users, NEW b \in BidPrices,
               Auction(n, ob, b)
        PROVE  Vault!Bid(n, ob, b)
    <3>1. b \in Nat /\ b > 0 /\ nftToLoanIds[n] # 0
      BY <2>3, InputAssumption DEF Auction
    <3> QED
      BY <1>1, <2>3, <3>1, AuctionLoanBids DEF Auction
  <2>4. ASSUME NEW n \in Nfts, NEW a \in Amounts, Redeem(n, a)
        PROVE  Vault!CallOff(n)
    BY <1>1, <2>4, RedeemLoanCallsOff DEF Redeem
  <2>5. ASSUME NEW n \in Nfts, NEW a \in Amounts \cup {0}, Liquidate(n, a)
        PROVE  Vault!Sell(n)
    <3>1. /\ nftToLoanIds[n] # 0
          /\ loans[nftToLoanIds[n]].bidderAddress # ZeroAddress
          /\ LiquidateLoan(nftToLoanIds[n], loans[nftToLoanIds[n]].bidderAddress)
      BY <2>5 DEF Liquidate
    <3>2. loans[nftToLoanIds[n]].bidderAddress \in Users
      BY <1>1, <3>1, LoanOfToken DEF LoanData
    <3> QED
      BY <1>1, <3>1, <3>2, LiquidateLoanSells
  <2> QED
    BY <1>2, <2>1, <2>2, <2>3, <2>4, <2>5 DEF PoolStep, Vault!Next
<1>3. CASE TokenStep
  <2>1. ASSUME NEW n \in Nfts, NEW u \in Users, NEW v \in Users,
               NftTransfer(n, u, v)
        PROVE  Vault!Give(n, v)
    BY <1>1, <2>1, NftTransferGives
  <2>2. ASSUME NEW n \in Nfts, NEW u \in Users,
               UserMintsBnft(u, n) \/ UserBurnsBnft(u, n)
        PROVE  UNCHANGED Vault!vars
    BY <1>1, <2>2, UserBnftStutters
  <2>3. ASSUME NEW r \in Reserves, NEW u \in Users, NEW v \in Users,
               NEW a \in Delegations, ApproveDelegation(r, u, v, a)
        PROVE  UNCHANGED Vault!vars
    BY <2>3, LedgerStutters DEF ApproveDelegation
  <2> QED
    BY <1>3, <2>1, <2>2, <2>3 DEF TokenStep, Vault!Next
<1>4. CASE AdminStep
  BY <1>4, LedgerStutters DEF AdminStep, SetPause, SetPausedTime,
     ConfigureNftAsCollateral, ConfigureNftAsAuction, BatchConfigNft,
     SetActiveFlagOnNft, SetFreezeFlagOnNft, SetReserveFlag
<1>5. CASE OracleStep \/ Tick \/ UNCHANGED vars
  BY <1>5, LedgerStutters DEF OracleStep, SetNftPrice, SetPriceStale, Tick, vars
<1> QED
  BY <1>2, <1>3, <1>4, <1>5 DEF Next

(***************************************************************************)
(* Collateral only moves as the vault allows: back to the borrower it was  *)
(* pledged for, or to the highest bidder of an auction.                    *)
(***************************************************************************)
THEOREM VaultImplemented == Spec => ImplementsVault
BY VaultInit, VaultStep, InvCorrect, PTL DEF Spec, ImplementsVault, Vault!Spec
=============================================================================
