------------------------- MODULE LendPoolAccounting -------------------------
(***************************************************************************)
(* The two ledgers of the pool that only a sum can relate to the loans:    *)
(* the debt tokens and the escrowed bids.                                  *)
(***************************************************************************)
EXTENDS LendPool, Functions

ScaledAmounts == [id \in LoanIds |-> loans[id].scaledAmount]

StandingBids == [id \in LoanIds |-> loans[id].bidPrice]

OpenLoansOf(reserve, user) ==
  {id \in LoanIds : /\ IsOpen(loans[id])
                    /\ loans[id].reserveAsset = reserve
                    /\ loans[id].borrower = user}

AuctionsIn(reserve) ==
  {id \in LoanIds : /\ loans[id].state = "Auction"
                    /\ loans[id].reserveAsset = reserve}

(***************************************************************************)
(* Each user's scaled debt-token balance is the sum of the scaled amounts  *)
(* of his open loans in that reserve.  DebtToken and LendPoolLoan round    *)
(* the same amounts separately: a difference would leave debt that no loan *)
(* owes, or a loan whose repayment cannot burn its debt.                   *)
(***************************************************************************)
DebtMatchesLoans ==
  \A r \in Reserves, u \in Users :
    debtBalance[r][u] = SumFunctionOnSet(ScaledAmounts, OpenLoansOf(r, u))

(***************************************************************************)
(* The pool holds exactly the standing bids of the running auctions, each  *)
(* in its loan's asset: it can refund or spend every one of them, and      *)
(* nothing is left behind by a refund, a redemption or a liquidation.      *)
(***************************************************************************)
EscrowMatchesBids ==
  \A r \in Reserves :
    poolBalance[r] = SumFunctionOnSet(StandingBids, AuctionsIn(r))
=============================================================================
