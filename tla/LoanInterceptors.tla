--------------------------- MODULE LoanInterceptors ---------------------------
(***************************************************************************)
(* The two doors the loan ledger opens to other contracts while a loan     *)
(* runs, contracts/protocol/LendPoolLoan.sol with contracts/mock/BNFT:     *)
(*   - loan-repaid interceptors are called before and after the bNFT of a  *)
(*     loan is burnt, and whatever they call in turn happens in the middle *)
(*     of the repayment or the liquidation;                                *)
(*   - the holder of a bNFT takes its NFT out of the vault on a flash      *)
(*     loan, unless it is locked, and his code runs while the NFT is away. *)
(* The calls are cut where foreign code gets control: "walk" is the pool's *)
(* call that is under way, "flash" the vault's.  A call that reverts has   *)
(* no effect, and is modelled by not being made.  Debts, bids and times    *)
(* are those of LendPool, and are left out.                                *)
(***************************************************************************)
EXTENDS Naturals, Sequences

CONSTANTS
  Tokens,     \* the tokens of one collection
  Users,      \* accounts that borrow
  Agents,     \* contracts that may become interceptors
  Lockers,    \* contracts that may become lockers
  Ledger,     \* the address of LendPoolLoan
  Vault,      \* the address of the bNFT contract
  Pool,       \* the address of LendPool
  Receiver,   \* a contract that receives flash loans
  Nobody      \* address(0)

ASSUME AddressAssumption ==
  /\ Nobody \notin Users \cup Tokens
  /\ Vault \notin Users /\ Pool \notin Users /\ Receiver \notin Users
  /\ Vault # Pool /\ Vault # Receiver /\ Pool # Receiver
  /\ Ledger \notin Users \cup Lockers

VARIABLES
  loanState,             \* the state of the open loan of a token, or "None"
  bnftOwner,             \* BNFT: who holds the bNFT
  holder,                \* ERC721: who holds the NFT
  locks,                 \* _flashLoanOperatorLockings[ledger]
  interceptors,          \* _loanRepaidInterceptors
  interceptorWhitelist,  \* _loanRepaidInterceptorWhitelist
  lockerWhitelist,       \* _flashLoanLockerWhitelist
  walk,                  \* the repayment or liquidation under way
  flash,                 \* the flash loan under way
  enrolled               \* history: who asked to be called and did not leave

loanVars == <<loanState, bnftOwner>>
adminVars == <<interceptorWhitelist, lockerWhitelist>>
listVars == <<interceptors, enrolled>>
vars == <<loanState, bnftOwner, holder, locks, interceptors,
          interceptorWhitelist, lockerWhitelist, walk, flash, enrolled>>

Listed(s) == {s[i] : i \in DOMAIN s}
Distinct(s) == \A i, j \in DOMAIN s : s[i] = s[j] => i = j

(***************************************************************************)
(* The frame of a pool call: the token, the state of its loan when it was  *)
(* checked, who gets the NFT, the copy of the list, the position in it,    *)
(* and whether a callee has control.  "due" and "heard" are history: who   *)
(* was enrolled when the walk over the list began, who was called in it.   *)
(***************************************************************************)
NoWalk == [phase |-> "idle", token |-> Nobody, from |-> "None", to |-> Nobody,
           list |-> <<>>, next |-> 1, running |-> FALSE,
           due |-> {}, heard |-> <<>>]

Walks ==
  [phase: {"before", "after"}, token: Tokens, from: {"Active", "Auction"},
   to: Users, list: Seq(Agents), next: Nat \ {0}, running: BOOLEAN,
   due: SUBSET Agents, heard: Seq(Agents)]

NoFlash == [by |-> Nobody, tokens |-> {}, inner |-> FALSE]

Init ==
  /\ loanState = [n \in Tokens |-> "None"]
  /\ bnftOwner = [n \in Tokens |-> Nobody]
  /\ holder \in [Tokens -> Users]
  /\ locks = [n \in Tokens |-> {}]
  /\ interceptors = [n \in Tokens |-> <<>>]
  /\ interceptorWhitelist = {}
  /\ lockerWhitelist = {}
  /\ walk = NoWalk
  /\ flash = NoFlash
  /\ enrolled = [n \in Tokens |-> {}]

(* The nonReentrant modifiers of LendPool and of BNFT *)
PoolNotEntered == walk.phase = "idle"
BnftNotEntered == flash.tokens = {}

(* Somebody else's code has control: no pool call, or a callee of it *)
CodeRuns == PoolNotEntered \/ walk.running

-----------------------------------------------------------------------------
(* BNFT.setFlashLoanLocking, called by the ledger *)
SetLocking(n, operator, locked) ==
  locks' = [locks EXCEPT ![n] =
              IF locked THEN @ \cup {operator} ELSE @ \ {operator}]

(* LendPool.borrow with a token that backs no loan: createLoan *)
CreateLoan(owner, onBehalfOf, n) ==
  /\ PoolNotEntered /\ BnftNotEntered
  /\ loanState[n] = "None"
  /\ holder[n] = owner
  /\ loanState' = [loanState EXCEPT ![n] = "Active"]
  /\ bnftOwner' = [bnftOwner EXCEPT ![n] = onBehalfOf]
  /\ holder' = [holder EXCEPT ![n] = Vault]
  /\ UNCHANGED <<locks, walk, flash, adminVars, listVars>>

(* LendPool.auction, the first bid: later ones change nothing here *)
AuctionLoan(n) ==
  /\ PoolNotEntered
  /\ loanState[n] = "Active"
  /\ loanState' = [loanState EXCEPT ![n] = "Auction"]
  /\ SetLocking(n, Ledger, TRUE)
  /\ UNCHANGED <<bnftOwner, holder, walk, flash, adminVars, listVars>>

RedeemLoan_Reentrant(n) ==  \* mutant: the pool may be entered again
  /\ loanState[n] = "Auction"
  /\ loanState' = [loanState EXCEPT ![n] = "Active"]
  /\ SetLocking(n, Ledger, FALSE)
  /\ UNCHANGED <<bnftOwner, holder, walk, flash, adminVars, listVars>>

(* LendPool.redeem *)
RedeemLoan(n) ==
  /\ PoolNotEntered
  /\ loanState[n] = "Auction"
  /\ loanState' = [loanState EXCEPT ![n] = "Active"]
  /\ SetLocking(n, Ledger, FALSE)
  /\ UNCHANGED <<bnftOwner, holder, walk, flash, adminVars, listVars>>

-----------------------------------------------------------------------------
(***************************************************************************)
(* repayLoan and liquidateLoan.  The state of the loan is checked, the     *)
(* interceptors are called with a copy of their list, then the loan is     *)
(* closed, the bNFT burnt and the NFT handed to the pool, and they are     *)
(* called again, from a new copy.  Last, the pool pays out the NFT.        *)
(***************************************************************************)
StartWalk(phase, n, from, to) ==
  walk' = [phase |-> phase, token |-> n, from |-> from, to |-> to,
           list |-> interceptors[n], next |-> 1, running |-> FALSE,
           due |-> enrolled[n], heard |-> <<>>]

RepayLoan(n) ==
  /\ PoolNotEntered
  /\ loanState[n] = "Active"
  /\ StartWalk("before", n, "Active", bnftOwner[n])
  /\ UNCHANGED <<loanVars, holder, locks, flash, adminVars, listVars>>

LiquidateLoan(n, bidder) ==
  /\ PoolNotEntered
  /\ loanState[n] = "Auction"
  /\ StartWalk("before", n, "Auction", bidder)
  /\ UNCHANGED <<loanVars, holder, locks, flash, adminVars, listVars>>

WalkedList_Live == interceptors[walk.token]  \* mutant: the list, not its copy

(* The list the loop of the two handlers runs over *)
WalkedList == walk.list

WalkDone == ~PoolNotEntered /\ ~walk.running /\ walk.next > Len(WalkedList)

CallInterceptor ==
  /\ ~PoolNotEntered /\ ~walk.running
  /\ walk.next <= Len(WalkedList)
  /\ walk' = [walk EXCEPT !.running = TRUE,
                          !.heard = Append(@, WalkedList[walk.next])]
  /\ UNCHANGED <<loanVars, holder, locks, flash, adminVars, listVars>>

(* The callee returns true; a flash loan it began is over by then. *)
InterceptorReturns ==
  /\ walk.running
  /\ ~flash.inner
  /\ walk' = [walk EXCEPT !.running = FALSE, !.next = @ + 1]
  /\ UNCHANGED <<loanVars, holder, locks, flash, adminVars, listVars>>

BnftMayBurn_Reentrant(n) == holder[n] = Vault  \* mutant: no guard

(* BNFT.burn is nonReentrant and sends the NFT back to the ledger. *)
BnftMayBurn(n) == BnftNotEntered /\ holder[n] = Vault

(* "clear flash loan lock when exit auction", in liquidateLoan *)
ClearLock(n) ==
  IF walk.from = "Auction" THEN SetLocking(n, Ledger, FALSE)
                           ELSE UNCHANGED locks

(* The loan is closed without a second look at its state. *)
CloseLoan ==
  LET n == walk.token IN
  /\ walk.phase = "before" /\ WalkDone
  /\ BnftMayBurn(n)
  /\ loanState' = [loanState EXCEPT ![n] = "None"]
  /\ bnftOwner' = [bnftOwner EXCEPT ![n] = Nobody]
  /\ holder' = [holder EXCEPT ![n] = Pool]
  /\ ClearLock(n)
  /\ StartWalk("after", n, walk.from, walk.to)
  /\ UNCHANGED <<flash, adminVars, listVars>>

Payee_LateOwner == bnftOwner[walk.token]  \* mutant: looked up after the burn

(* The borrower of the loan, or the bidder, read before it was closed *)
Payee == walk.to

(* The pool sends the NFT to the borrower, or to the highest bidder. *)
PayOutNft ==
  /\ walk.phase = "after" /\ WalkDone
  /\ holder' = [holder EXCEPT ![walk.token] = Payee]
  /\ walk' = NoWalk
  /\ UNCHANGED <<loanVars, locks, flash, adminVars, listVars>>

-----------------------------------------------------------------------------
(***************************************************************************)
(* What interceptors and lockers call, in transactions of their own or     *)
(* while a callee has control, and what the configurator calls.            *)
(***************************************************************************)
IndexOf(s, a) == CHOOSE i \in DOMAIN s : s[i] = a

(* _deleteLoanRepaidInterceptor: the last one takes the place that is free *)
SwapAndPop(s, k) ==
  [i \in 1..(Len(s) - 1) |-> IF i = k THEN s[Len(s)] ELSE s[i]]

Without(s, a) == IF a \in Listed(s) THEN SwapAndPop(s, IndexOf(s, a)) ELSE s

AddLoanRepaidInterceptor(a, n) ==
  /\ CodeRuns
  /\ a \in interceptorWhitelist
  /\ interceptors' = [interceptors EXCEPT ![n] =
                        IF a \in Listed(@) THEN @ ELSE Append(@, a)]
  /\ enrolled' = [enrolled EXCEPT ![n] = @ \cup {a}]
  /\ UNCHANGED <<loanVars, holder, locks, walk, flash, adminVars>>

DeleteLoanRepaidInterceptor(a, n) ==
  /\ CodeRuns
  /\ a \in interceptorWhitelist
  /\ interceptors' = [interceptors EXCEPT ![n] = Without(@, a)]
  /\ enrolled' = [enrolled EXCEPT ![n] = @ \ {a}]
  /\ UNCHANGED <<loanVars, holder, locks, walk, flash, adminVars>>

PurgeLoanRepaidInterceptor(tokenIds, a) ==
  /\ CodeRuns
  /\ interceptors' = [n \in Tokens |->
       IF n \in tokenIds THEN Without(interceptors[n], a) ELSE interceptors[n]]
  /\ enrolled' = [n \in Tokens |->
       IF n \in tokenIds THEN enrolled[n] \ {a} ELSE enrolled[n]]
  /\ UNCHANGED <<loanVars, holder, locks, walk, flash, adminVars>>

SetFlashLoanLocking(a, n, locked) ==
  /\ CodeRuns
  /\ a \in lockerWhitelist
  /\ SetLocking(n, a, locked)
  /\ UNCHANGED <<loanVars, holder, walk, flash, adminVars, listVars>>

(***************************************************************************)
(* The configurator passes any address on, the ledger's own too, and would *)
(* so unlock a token in auction: the administrator names lockers only.     *)
(***************************************************************************)
PurgeFlashLoanLocking(tokenIds, a) ==
  /\ CodeRuns
  /\ locks' = [n \in Tokens |->
       IF n \in tokenIds THEN locks[n] \ {a} ELSE locks[n]]
  /\ UNCHANGED <<loanVars, holder, walk, flash, adminVars, listVars>>

ApproveLoanRepaidInterceptor(a, approved) ==
  /\ CodeRuns
  /\ interceptorWhitelist' = IF approved THEN interceptorWhitelist \cup {a}
                                         ELSE interceptorWhitelist \ {a}
  /\ UNCHANGED <<loanVars, holder, locks, lockerWhitelist, walk, flash,
                 listVars>>

ApproveFlashLoanLocker(a, approved) ==
  /\ CodeRuns
  /\ lockerWhitelist' = IF approved THEN lockerWhitelist \cup {a}
                                    ELSE lockerWhitelist \ {a}
  /\ UNCHANGED <<loanVars, holder, locks, interceptorWhitelist, walk, flash,
                 listVars>>

-----------------------------------------------------------------------------
(***************************************************************************)
(* BNFT.flashLoan.  A locked token is lent to its lockers only, one that   *)
(* is not to the holder of the bNFT: the ledger, its minter, approves no   *)
(* operators.  The receiver's code runs until the NFTs are taken back.     *)
(***************************************************************************)
MayFlash_OwnerToo(by, n) ==  \* mutant: a lock does not keep the owner out
  by \in locks[n] \/ by = bnftOwner[n]

MayFlash(by, n) ==
  IF locks[n] # {} THEN by \in locks[n] ELSE by = bnftOwner[n]

FlashLoan(by, nftTokenIds) ==
  /\ CodeRuns /\ BnftNotEntered
  /\ nftTokenIds # {}
  /\ \A n \in nftTokenIds :
       bnftOwner[n] # Nobody /\ holder[n] = Vault /\ MayFlash(by, n)
  /\ flash' = [by |-> by, tokens |-> nftTokenIds, inner |-> walk.running]
  /\ holder' = [n \in Tokens |->
                  IF n \in nftTokenIds THEN Receiver ELSE holder[n]]
  /\ UNCHANGED <<loanVars, locks, walk, adminVars, listVars>>

FlashLoanReturns ==
  /\ ~BnftNotEntered
  /\ flash.inner \/ PoolNotEntered
  /\ \A n \in flash.tokens : holder[n] = Receiver
  /\ flash' = NoFlash
  /\ holder' = [n \in Tokens |->
                  IF n \in flash.tokens THEN Vault ELSE holder[n]]
  /\ UNCHANGED <<loanVars, locks, walk, adminVars, listVars>>

(* Who holds an NFT sends it on; the receiver may also send a borrowed one *)
(* straight to the vault.                                                  *)
TransferNft(n, to) ==
  /\ CodeRuns
  /\ holder[n] \in Users \cup {Receiver}
  /\ \/ to \in Users \cup {Receiver}
     \/ to = Vault /\ n \in flash.tokens
  /\ holder' = [holder EXCEPT ![n] = to]
  /\ UNCHANGED <<loanVars, locks, walk, flash, adminVars, listVars>>

-----------------------------------------------------------------------------
PoolStep ==
  \/ \E n \in Tokens, u, b \in Users : CreateLoan(u, b, n)
  \/ \E n \in Tokens : AuctionLoan(n)
  \/ \E n \in Tokens : RedeemLoan(n)
  \/ \E n \in Tokens : RepayLoan(n)
  \/ \E n \in Tokens, u \in Users : LiquidateLoan(n, u)
  \/ CallInterceptor
  \/ InterceptorReturns
  \/ CloseLoan
  \/ PayOutNft

AgentStep ==
  \/ \E n \in Tokens, a \in Agents : AddLoanRepaidInterceptor(a, n)
  \/ \E n \in Tokens, a \in Agents : DeleteLoanRepaidInterceptor(a, n)
  \/ \E n \in Tokens, a \in Lockers, b \in BOOLEAN :
       SetFlashLoanLocking(a, n, b)

AdminStep ==
  \/ \E T \in SUBSET Tokens, a \in Agents : PurgeLoanRepaidInterceptor(T, a)
  \/ \E T \in SUBSET Tokens, a \in Lockers : PurgeFlashLoanLocking(T, a)
  \/ \E a \in Agents, b \in BOOLEAN : ApproveLoanRepaidInterceptor(a, b)
  \/ \E a \in Lockers, b \in BOOLEAN : ApproveFlashLoanLocker(a, b)

VaultStep ==
  \/ \E T \in SUBSET Tokens, by \in Users \cup Lockers : FlashLoan(by, T)
  \/ FlashLoanReturns
  \/ \E n \in Tokens, to \in Users \cup {Receiver, Vault} : TransferNft(n, to)

Next == PoolStep \/ AgentStep \/ AdminStep \/ VaultStep

Spec == Init /\ [][Next]_vars
-----------------------------------------------------------------------------
Accounts == Users \cup {Vault, Pool, Receiver}

(* Type invariant: the values the contracts' slots and frames can hold *)
TypeOK ==
  /\ loanState \in [Tokens -> {"None", "Active", "Auction"}]
  /\ bnftOwner \in [Tokens -> Users \cup {Nobody}]
  /\ holder \in [Tokens -> Accounts]
  /\ locks \in [Tokens -> SUBSET (Lockers \cup {Ledger})]
  /\ interceptors \in [Tokens -> Seq(Agents)]
  /\ enrolled \in [Tokens -> SUBSET Agents]
  /\ interceptorWhitelist \subseteq Agents /\ lockerWhitelist \subseteq Lockers
  /\ walk \in Walks \cup {NoWalk}
  /\ flash \in [by: Users \cup Lockers \cup {Nobody}, tokens: SUBSET Tokens,
                inner: BOOLEAN]

(***************************************************************************)
(* The vault holds exactly the NFTs of the bNFTs there are, except those   *)
(* that are out on a flash loan, and those have a bNFT all the while: no   *)
(* loan is closed under a flash loan, whose end would otherwise take an    *)
(* NFT into the vault that nobody can take out again.                      *)
(***************************************************************************)
Custody ==
  \A n \in Tokens :
    /\ bnftOwner[n] # Nobody <=> loanState[n] # "None"
    /\ n \in flash.tokens => bnftOwner[n] # Nobody
    /\ n \notin flash.tokens => (holder[n] = Vault <=> bnftOwner[n] # Nobody)

(***************************************************************************)
(* The ledger's own lock is on a token exactly while it is auctioned,      *)
(* whatever interceptors, lockers and flash loans do in between.           *)
(***************************************************************************)
AuctionedIsLocked ==
  \A n \in Tokens : Ledger \in locks[n] <=> loanState[n] = "Auction"

(***************************************************************************)
(* repayLoan and liquidateLoan check the state of the loan, let foreign    *)
(* contracts run, and then overwrite it: what was checked still holds when *)
(* it is overwritten, so that no bid or redemption is lost and the NFT     *)
(* goes to the holder of the bNFT; after it the pool still has the NFT.    *)
(***************************************************************************)
CheckedStateHolds ==
  LET n == walk.token IN
  /\ walk.phase = "before" =>
       /\ loanState[n] = walk.from
       /\ walk.from = "Active" => walk.to = bnftOwner[n]
  /\ walk.phase = "after" => loanState[n] = "None" /\ holder[n] = Pool

(***************************************************************************)
(* The list of a token names, each once, those who asked to be called and  *)
(* neither left nor were purged: a deletion, which moves the last one to   *)
(* the place that is free, costs nobody else his place.                    *)
(***************************************************************************)
ListsAreEnrolments ==
  \A n \in Tokens : /\ Listed(interceptors[n]) = enrolled[n]
                    /\ Distinct(interceptors[n])

(***************************************************************************)
(* What the walk rests on: the copy of the list names those who are due,   *)
(* each once, and those who were called are its beginning.                 *)
(***************************************************************************)
WalkInStep ==
  walk.phase # "idle" =>
    /\ Listed(walk.list) = walk.due /\ Distinct(walk.list)
    /\ walk.next <= Len(walk.list) + 1
    /\ walk.running => walk.next <= Len(walk.list)
    /\ Len(walk.heard) = IF walk.running THEN walk.next ELSE walk.next - 1
    /\ \A i \in DOMAIN walk.heard : walk.heard[i] = walk.list[i]

(* The inductive invariant *)
InterceptorInv ==
  /\ TypeOK /\ Custody /\ AuctionedIsLocked /\ CheckedStateHolds
  /\ ListsAreEnrolments /\ WalkInStep

(***************************************************************************)
(* A token in auction leaves the vault for the sake of a locker only,      *)
(* never of the borrower who may lose it.                                  *)
(***************************************************************************)
AuctionedForLockersOnly ==
  [][\A n \in flash'.tokens \ flash.tokens :
       loanState[n] = "Auction" => flash'.by \in Lockers]_vars

(***************************************************************************)
(* No repayment or liquidation gets past its interceptors: when a round of *)
(* calls is over, everybody who was enrolled at its beginning was called   *)
(* once and nobody else, although callees change the list they are on.     *)
(***************************************************************************)
RoundEnds ==
  \/ walk.phase = "before" /\ walk'.phase = "after"
  \/ walk.phase = "after" /\ walk'.phase = "idle"

EveryInterceptorIsAsked ==
  [][RoundEnds => Listed(walk.heard) = walk.due /\ Distinct(walk.heard)]_vars
=============================================================================
