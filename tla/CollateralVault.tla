--------------------------- MODULE CollateralVault ---------------------------
(***************************************************************************)
(* What the lending protocol promises the owner of an NFT, whatever the    *)
(* debts, prices and times are.  An NFT is free, pledged or auctioned.     *)
(* There is always one user entitled to it: its owner while it is free,    *)
(* the borrower while it backs a loan.  Only an auction can transfer the   *)
(* title, to the bidder who holds the highest bid, and bids only rise.     *)
(***************************************************************************)
EXTENDS Naturals

CONSTANTS
  Users,
  Nfts,
  Prices,     \* the bids that can be made, natural numbers
  NoBidder    \* not a user: there is no bid

VARIABLES
  status,     \* "free", "pledged" or "auctioned"
  entitled,   \* who gets the NFT if the loan is repaid
  bidder,     \* who gets the NFT if the auction is concluded
  bid         \* what that bidder offered

vars == <<status, entitled, bidder, bid>>

Init ==
  /\ status = [n \in Nfts |-> "free"]
  /\ entitled \in [Nfts -> Users]
  /\ bidder = [n \in Nfts |-> NoBidder]
  /\ bid = [n \in Nfts |-> 0]

(* The owner of a free NFT hands it to someone else. *)
Give(n, to) ==
  /\ status[n] = "free"
  /\ entitled' = [entitled EXCEPT ![n] = to]
  /\ UNCHANGED <<status, bidder, bid>>

(* A free NFT becomes the collateral of a borrower's loan. *)
Pledge(n, borrower) ==
  /\ status[n] = "free"
  /\ status' = [status EXCEPT ![n] = "pledged"]
  /\ entitled' = [entitled EXCEPT ![n] = borrower]
  /\ UNCHANGED <<bidder, bid>>

(* The debt is settled: the borrower has his NFT back. *)
Release(n) ==
  /\ status[n] = "pledged"
  /\ status' = [status EXCEPT ![n] = "free"]
  /\ UNCHANGED <<entitled, bidder, bid>>

(* The first bid of an auction, or one that beats the standing bid *)
Bid(n, u, price) ==
  /\ status[n] \in {"pledged", "auctioned"}
  /\ price > bid[n]
  /\ status' = [status EXCEPT ![n] = "auctioned"]
  /\ bidder' = [bidder EXCEPT ![n] = u]
  /\ bid' = [bid EXCEPT ![n] = price]
  /\ UNCHANGED entitled

(* The borrower's loan is made good, the auction is off. *)
CallOff(n) ==
  /\ status[n] = "auctioned"
  /\ status' = [status EXCEPT ![n] = "pledged"]
  /\ bidder' = [bidder EXCEPT ![n] = NoBidder]
  /\ bid' = [bid EXCEPT ![n] = 0]
  /\ UNCHANGED entitled

(* The auction is concluded: the title passes to the highest bidder. *)
Sell(n) ==
  /\ status[n] = "auctioned"
  /\ status' = [status EXCEPT ![n] = "free"]
  /\ entitled' = [entitled EXCEPT ![n] = bidder[n]]
  /\ bidder' = [bidder EXCEPT ![n] = NoBidder]
  /\ bid' = [bid EXCEPT ![n] = 0]

Next ==
  \E n \in Nfts :
    \/ \E u \in Users : Give(n, u) \/ Pledge(n, u)
    \/ \E u \in Users, price \in Prices : Bid(n, u, price)
    \/ Release(n)
    \/ CallOff(n)
    \/ Sell(n)

Spec == Init /\ [][Next]_vars
=============================================================================
