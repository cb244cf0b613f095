------------------------- MODULE LendPoolRefinement -------------------------
(***************************************************************************)
(* The pool implements the vault of CollateralVault.  The refinement       *)
(* mapping reads the promise off the ledger and the two tokens: a token    *)
(* with an open loan is pledged or auctioned and its borrower is entitled  *)
(* to it; otherwise whoever holds the NFT is, or, if he wrapped it into a  *)
(* bNFT himself, the minter of that bNFT.                                  *)
(***************************************************************************)
EXTENDS LendPool

InAuction(n) == nftToLoanIds[n] # 0 /\ loans[nftToLoanIds[n]].state = "Auction"

VaultStatus == [n \in Nfts |->
  IF nftToLoanIds[n] = 0 THEN "free"
  ELSE IF InAuction(n) THEN "auctioned" ELSE "pledged"]

VaultEntitled == [n \in Nfts |->
  IF nftToLoanIds[n] # 0 THEN loans[nftToLoanIds[n]].borrower
  ELSE IF nftOwner[n] = BnftAddress THEN bnftMinter[n] ELSE nftOwner[n]]

VaultBidder == [n \in Nfts |->
  IF InAuction(n) THEN loans[nftToLoanIds[n]].bidderAddress ELSE ZeroAddress]

VaultBid == [n \in Nfts |->
  IF InAuction(n) THEN loans[nftToLoanIds[n]].bidPrice ELSE 0]

Vault == INSTANCE CollateralVault WITH
  Prices <- BidPrices, NoBidder <- ZeroAddress,
  status <- VaultStatus, entitled <- VaultEntitled,
  bidder <- VaultBidder, bid <- VaultBid

(***************************************************************************)
(* Every behaviour of the pool is one of the vault: collateral goes back   *)
(* only to the borrower it was pledged for, or to the highest bidder of an *)
(* auction that was neither redeemed nor outbid.                           *)
(***************************************************************************)
ImplementsVault == Vault!Spec
=============================================================================
