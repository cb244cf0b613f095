# BendDAO lending protocol: TLA+ models and proofs

BendDAO lends ERC20 tokens against single NFTs. A borrower pledges an NFT, gets
a bNFT in its place and draws a loan; anyone may repay it; a loan whose health
factor has fallen to one is auctioned, and is then either redeemed by its
borrower or liquidated to the highest bidder. Depositors supply the reserves
the loans are paid from. This directory models the contracts that decide
who owns what (`contracts/protocol`, `contracts/libraries`) and the TypeScript
that puts them on a network and looks after them there (`tasks`, `helpers`,
`markets`). Paths of `.sol` files below are relative to `src/contracts`, those
of `.ts` files to `src`.

* [1 The system](#1-the-system)
* [2 Modules](#2-modules)
* [3 How the models correspond to the code](#3-how-the-models-correspond-to-the-code)
* [4 Runs](#4-runs)
* [5 Where code and documentation part](#5-where-code-and-documentation-part)
* [6 Proofs](#6-proofs)
* [7 What is not modelled](#7-what-is-not-modelled)
* [8 Plan](#8-plan)

## 1 The system

### Components

| Component | State | Operations | Correct when |
|---|---|---|---|
| `LendPool` with `BorrowLogic`, `LiquidateLogic`, `SupplyLogic`, `ValidationLogic`, `GenericLogic` | reserves and NFT data by address, `_paused`, pause start and length | deposit, withdraw, borrow, repay, auction, redeem, liquidate, batch forms | no operation leaves a loan without exit; escrowed bids match auctions; redemption and liquidation never compete |
| `LendPoolLoan` (the ledger) | `_loans`, `_nftToLoanIds`, collateral counters, flash-loan locks, interceptors | create, update, repay, auction, redeem, liquidate, purge | the two indexes agree; a loan lives once; auction fields agree with the state |
| bNFT (`mock/BNFT`, boundNFT) | owner, minter per token | mint, burn, flashLoan | the NFT is in the vault exactly while a bNFT exists; only the minter burns |
| `DebtToken` | scaled balances, supply, allowances | mint, burn, approveDelegation | balances are the sums of the loans' scaled amounts |
| `BToken` | scaled balances, supply | mint, burn, transfer, mintToTreasury | claims are backed by cash and debt |
| `ReserveLogic`, `InterestRate` | indexes, rates, timestamp | updateState, updateInterestRates | indexes never fall; rates are those of the state left behind |
| `NFTOracle` | price history, TWAP, asset mapping, pause and stale marks | reports, registration, mapping | the TWAP is the average over time; mappings are consistent |
| `ReserveOracle` | Chainlink aggregators | price, TWAP over rounds | the TWAP survives stale and equal timestamps |
| `LendPoolConfigurator`, `ConfiguratorLogic` | configuration bitmaps | flags, parameters, batch configuration, pause | parameters keep the order the pool relies on; nothing in use is switched off |
| `WETHGateway`, `PunkGateway`, `WrapperGateway` | whitelists | wrap, then call the pool | what is left over goes back to the caller |
| `UniswapV3DebtSwapAdapter` | none between calls | repay with a flash loan, borrow again | the debt is replaced, the NFT comes back |
| addresses provider, proxies | address by id, implementation by proxy | set, upgrade | a published proxy keeps its address |
| views, incentives | none the protocol reads | | no protocol rule of their own |
| deployment scripts (`tasks/full`, `tasks/migrations`, `tasks/dev`) | the position in the migration | deploy, save, publish, initialise, list, configure | an interrupted migration can be finished; no half-built market is open |
| the book (`helpers/contracts-helpers.ts`: a JSON file) | address by contract id and network | insert, look up | it names contracts that exist, and those of the market |
| maintenance tasks (`tasks/misc`, `tasks/helpers`) | none | upgrade, configure, unpause, feed | what was replaced is no longer used by anybody |

### Interactions

The pool calls the ledger for every loan operation and the ledger calls the
bNFT vault, which holds the NFT. The pool mints and burns debt tokens
and bTokens; both read the indexes of the reserve back from the pool. Prices
come from the two oracles. Ledger and vault also call out: to
interceptors before and after mint and burn, and to flash-loan receivers.
`LendPoolConfigurator` writes the pool's configuration; the pool never writes
its own.

A deployment is a sequence of tasks, each a fresh node process. They share
nothing but the chain and the book: what one task saved under a contract's id
the next one reads there, or asks the addresses provider for.

### What is hard

* **Long sequences of legal calls.** Twelve fields of a loan and five
  mappings are updated by six handlers, each of which decides on another field
  (`bidStartTimestamp`, `state`, `bidderAddress`). What one leaves behind shows
  when the *next* loan on the same token takes a wrong branch.
* **Interleaving of people.** Repayers, bidders, borrowers, depositors and
  administrators act in any order, one transaction at a time. (Reentrancy is
  closed by `nonReentrant` except through the interceptors.)
* **Rounding.** Amount, index, scaled amount, ltv, threshold and minimum bid
  are each rounded half up in their own place.
* **Stale state.** Interest accrues only when someone calls; durations are
  read when an auction is judged and not when it starts; the oracle's average is
  that of the last report; a pause length is one number for all auctions.
* **Time windows** that meet at a boundary, and pauses that shift them.
* **Administration during operation**: flags and parameters change under
  loans that are open.
* **Callbacks.** Interceptors and flash-loan receivers run in the middle of a
  transaction; they may change the list they were called from, and the locks, or call
  the vault again.
* **Interruptions.** A deployment takes hundreds of transactions in a dozen
  processes. Any of them may end between a transaction and the line of the book
  about it, and is then run again from its start.

There is no liveness in the contracts: nothing in one has to happen,
since no scheduler calls it. What corresponds to it is *possibility* (a loan can
be repaid, a deposit withdrawn); the models state it as `ENABLED` in every
reachable state and use no fairness. The deployment has something that must
happen, the end of the migration, and its specification states fairness: see
section 3.

The hazards with their lines are in `PROJECT.json`.

## 2 Modules

| Module | Models | Extends |
|---|---|---|
| `FixedPointMath` | `WadRayMath`, `PercentageMath` | |
| `LendPoolLoan` | the ledger, the bNFT vault and the NFT | `FixedPointMath` |
| `LendPool` | borrow, repay, auction, redeem, liquidate, debt token, configurator, the oracle as the pool sees it | `LendPoolLoan` |
| `LendPoolAccounting` | the two properties that are sums | `LendPool` |
| `CollateralVault` | abstract: what the owner of an NFT is promised | |
| `LendPoolRefinement` | the refinement mapping from pool to vault | `LendPool` |
| `Reserve` | one reserve: indexes, rates, bToken, debt supply, treasury | `FixedPointMath` |
| `NFTOracle` | reports, TWAP, validity limits, asset mapping | |
| `LoanInterceptors` | interceptors, flash-loan locks and flash loans: what happens while foreign code runs | |
| `ContractBook` | chain, book and addresses provider; what each statement of a script does to them | |
| `DeployScripts` | the tasks and their helpers as sequences of statements, the market configuration of four networks | |
| `Deployment` | the process that runs the scripts: interruption, repetition, a new start, upkeep | `ContractBook` |
| `MCLendPool`, `MCReserve`, `MCNFTOracle`, `MCLoanInterceptors` | constants for TLC | |
| `MCDeployment` | joins `Deployment` with the `DeployScripts` it runs | both |
| `MathLemmas` | lemmas on rounded division and on sums over finite sets | `FixedPointMath` |
| `…Proofs` | theorems and proofs of the module they are named after | |

`LendPool` composes ledger, vault, NFT, debt token and pool: its actions are
whole transactions that conjoin the operators of `LendPoolLoan` with the pool's
own guards and updates. `Reserve` is a separate view of the same contracts from
the depositors' side. The two are joined by one assumption, which is proved:
`LendPool` lets every transaction find a borrow index at least as high as the
last one, and `Reserve` proves that indexes never fall (`IndexesGrowCorrect`).
`NFTOracle` and `LendPool` are joined in the same way: the pool takes any price
at any time, which includes what the oracle can say. `LoanInterceptors` takes
the transactions of `LendPoolLoan` apart at the places where foreign code gets
control and keeps of them what foreign code can disturb; that the loan a
transaction closes is the one it checked, whatever ran in between
(`CheckedStateHolds`), is what lets `LendPool` treat the transaction as one step.

## 3 How the models correspond to the code

`PROJECT.json` maps each definition to its lines. The decisions behind it:

**A transaction is an action.** The pool's entry points are `nonReentrant`, and
a failed `require` reverts everything, so an operation happens as a whole or not
at all. A guard of an action is the conjunction of the requires on all levels
(pool, validation, ledger, vault, debt token). The batch forms
(`batchBorrow`, `batchRepay`, `setAssets`, `setMultipleAssetsData`, ...)
are loops over the single operation; the sequences of
single actions include what they do.

**LendPoolLoan.** A loan is a record with the fields of `DataTypes.LoanData`
that the code reads. Ids are slots `1..MaxLoans`. `nftOwner`, `bnftOwner` and
`bnftMinter` are the two tokens; the vault's address owns wrapped NFTs.
Users may also transfer free NFTs and wrap them on their own, since `burn` checks the
minter. NFT holders are externally owned accounts, so a user mints a bNFT to himself only.
Third-party interceptors are taken to succeed, and `flashLoanLocking` is the
ledger's own lock, which it sets in an auction; the locks of others, the
interceptors and the flash loans are in `LoanInterceptors`.

**LendPool.** One collection with its configuration, several tokens, users and
reserves. Interest is an index that a transaction may find raised
(`UpdateState`). The reserve's cash and the utilization check can make a
borrowing revert but change none of this module's state; they are in `Reserve`.
What payers hold in their wallets, the bid fine and `bidBorrowAmount` are left
out: they move money between accounts outside the protocol. `poolBalance` is
the escrow of the bids. Administration consists of actions enabled at any time:
the two configuration calls with their validation, `batchConfigNft`
with the weaker validation it has, flags, pause and unpause. `AdminSwitches`
and the input sets only choose which of them a run includes. A reserve's own
deactivation guard is in `Reserve`, and `LendPool` leaves it open, which only
adds behaviours. Hours are the unit of time.

**Reserve.** Every transaction accrues (`UpdateIndexes` with the treasury's
mint), sets the rates from the amounts the code passes, and moves tokens and
cash, in the arguments' old and new values as in the code. Linear
interest for depositors, the three-term compound for borrowers, the kinked
curve, the reserve factor, the zero checks of `mint` and `burn` are kept. Each
borrower has one loan, whose collateral conditions are `LendPool`'s. Underlying
tokens sent directly to the bToken contract, allowances and the pause are left
out. `transactions` is only a bound.

**NFTOracle.** The loop of `calculateTwapPrice` is written as what it computes:
the record at which it stops (`RoundAtBase`) and the sum of the prices weighted by
the time from where each came to count (`BeginOf`) to where the next did (`EndOf`), cut at the beginning of the interval. A report
appends to the asset and then to the assets mapped to it; a removal leaves the
average and the marks behind. `updateDecimals` and the admin's address are
constants. `ownerCalls` is only a bound.

**LoanInterceptors.** The transactions of `LendPool` that call out are cut at
the calls. `walk` is the frame of the repayment or liquidation under way: what
it read before the first call (state, payee), the copy of the list, the position
in it, and whether a callee has control. `flash` is the frame of the flash loan
under way; `inner` tells whether it was begun inside a pool call and must end
before it. `CodeRuns` is the guard of everything foreign code, and the
administrator, may do: between transactions, and while a callee has control.
The `nonReentrant` modifiers of pool and vault are the guards `PoolNotEntered`
and `BnftNotEntered`. There is no rollback: a step that would revert is not
enabled, and a call that cannot be completed stays where it is. Those prefixes
of reverted calls are states too, so that the properties hold inside them as well;
it is also why the run does not check for deadlock. As in the code, the whitelist guards
entering and leaving a list but not being called, so that an interceptor taken
off the whitelist is called until an administrator purges it; lists and foreign locks
outlive the loan. `enrolled`, `due` and `heard` are history variables: who asked
to be called and has not left, who was enrolled when a round of calls began, who was called
in it. Debts, bids and times are left out, and so are bNFTs that users mint to
themselves (in `LendPoolLoan`).

**ContractBook and DeployScripts.** A script is the sequence of the statements
the TypeScript awaits, an instruction each: deploy, save in the book, look up,
publish at the provider, upgrade a proxy, initialise, list, and so on. What depends on
the market configuration alone is decided when the sequence is built, per network
(`Named`, `Place`); what depends on what a lookup found is the instruction's
`when` ("found", "fresh"). `Accepts` says when the statement throws or reverts
and `Execute` what it does. An address is an index into `chain`; of a contract
the model keeps its id, whether it is plain, an implementation or a proxy, its
implementation and admin, the addresses its constructor, linker or initialiser
fixed in it (`uses`) and those setters added (`holds`). `Note` and `Save` are the two
ways into the book: `insertContractAddressInDb` of the "Impl" key before
the creation is mined, `withSaveAndVerify` after it. Four configurations stand for the networks:
`main` names the external tokens only and deploys everything, `reuse` also names
oracles, proxy admins and the registry, `skip` is `reuse` with `--skip-oracle`
and `--skip-registry`, `dev` names nothing and runs `bend:dev`. Signers, gas,
verification and the values of parameters are left out.

**Deployment.** `Step` executes one statement, so that an interruption (`Crash`)
can come between any two; a creation that was sent but not awaited may or may not
be mined. What a process remembers (`new`, `found`, the rest of the script) is
lost, book and chain remain. `Retry` runs the interrupted task from its start,
`Redeploy` the whole migration with the book of the first attempt. On a finished
market an operator runs maintenance tasks by hand (`StartUpkeep`), which may be
interrupted as well. *Fairness*: `WF_vars(ScriptStep)`, because a running
process goes on and its transactions are mined or rejected in the end, and
`WF_vars(Operator)`, because somebody who deploys a market does not leave it
half deployed: `MigrationFinishes` rests on exactly these two. Nothing obliges
anybody to run upkeep.

**Integers** are natural numbers: the `uint256` overflow requires of the math
libraries are unreachable with protocol amounts. `Ray`, `Wad` and
`PercentFactor` are constants; the proofs hold for all values, the runs use
small ones so that rounding happens on small amounts.

## 4 Runs

State counts are those of `tlc -workers 2`.

| Run | Question | Bounds | States |
|---|---|---|---|
| `lifecycle` | whole loan lives, several per token: books, custody, counters, refinement | 2 users, 2 NFTs, 1 reserve, 3 loans, 3 hours, bids 2-3, prices 1/4, amounts 1-2 | 319 k |
| `accounting` | do debt tokens and escrow match the loans; ltv against threshold | 2 users, 1 NFT, 2 reserves, 2 loans, index 1 to 2 ray in half rays, amounts 1/3/4, bids 5-6, prices 2/6, three collateral configurations | 506 k |
| `windows` | redeem and liquidation windows under pause and reconfiguration | 1 NFT, redeem 1 h and auction 2 h, two reconfigurations and a batch one, 6 hours, 2 loans | 935 k |
| `unstuck` | can every live loan be repaid or liquidated, under any flags | 1 NFT, all flags, delegation, 3 hours, 2 loans, index 1 to 1.5 ray | 1.2 M |
| `reserve` | interest, rates, withdrawals, deactivation | 2 users and the treasury, ray 1000, wad 100, 4 ticks a year, kink at 60%, base 10%, slopes 40% and 120%, cap 75%, factor 30%, amounts 60/100, 5 transactions, 3 ticks | 109 k |
| `nft_oracle` | average, publication, mapping | 2 assets, prices 0/8/10, intervals 0/2, two sets of limits, 4 timestamps, 3 records per asset, 5 changes by the owner | 1.6 M |
| `interceptors` | do callbacks, lists, locks and flash loans disturb a loan that is being closed | 2 tokens, 1 user, 2 interceptors, 1 locker | 1.2 M |
| `deployment` | does an interrupted migration end, and in a coherent market that upkeep leaves coherent | 4 networks, 2 reserves, 2 collections, 1 interruption, 1 new start, 1 maintenance task of 34 | 211 k |

Four runs must find a violation (section 5): `batch_config`, `zombie_loan`,
`factor_change`, `lost_proxy`.

**Why these bounds are enough.** *Loans*: a defect in the reset of a token needs
a second loan on it, and a mix-up needs a second token; `lifecycle` has three
loans for two tokens. With two users a bidder may be the borrower, the other
user or the one who bid before; no definition compares three users. *Amounts*: with a ray of 2 and an index up to 4 (`accounting`), the values 1, 3 and 4
round in both directions. *Prices*: one makes every loan
auctionable, the other none. *Time*: `windows` runs past both windows,
a pause before, inside and across them, and a second auction. *Reserve*: three
ticks are nine months at rates of up to 170% a year, so interest exceeds
every rounding; five transactions suffice for deposit, borrow, accrual, repay and
withdrawal with one more in any place; amounts put utilization on both sides of the kink and the cap.
*Oracle*: with three records and interval 2 the base of the interval falls before, on,
between and after records; five owner calls are enough to register two assets, map them, unmap them
wrongly and remove one. *Interceptors*: a deletion from a list of two moves its last entry, and a walk over a live
list of two would skip one; a second token lets a call on one token meet a walk or a
flash loan of the other. One user is enough, since no definition compares two:
what it must not be able to do (a flash loan of a token in auction, payment to nobody) it could do alone;
the theorems hold for any number. *Deployment*: the statements of a task run in order, so what an
interruption can spoil is what the next attempt finds; a second interruption of the same task meets a state of the
same kind. One maintenance task runs after every path of the migration. `DeploymentProofs` covers any
number of interruptions, new starts and maintenance tasks.
Symmetry is used on users, tokens, reserves, assets and interceptors,
which no definition tells apart, and not in the run with a liveness property.

**What the properties say**

* `LoanBook`, `AuctionBooks`, `Custody`, `CollateralCounters`: the redundant parts of the
  ledger agree with each other and with the two tokens.
* `LoanLife`, `AuctionProgress`: what no step may do to a loan.
* `ImplementsVault`: collateral goes back to whom it was pledged for, or to the
  highest bidder of an auction that was neither redeemed nor outbid.
* `DebtMatchesLoans`, `EscrowMatchesBids`: exact sums, in every asset.
* `NoInstantLiquidation`: a borrowing never yields a loan that could be
  auctioned at the same prices. `IndexUnit` is what rounding to a whole scaled
  unit may add: with an index above one ray one scaled unit is worth more than one.
* `WindowsDisjoint`: no moment at which an auction can be both redeemed and
  liquidated. `PauseProlongsAuctions`: an unpause prolongs all running auctions
  by the length of that pause and no later auction at all. A second pause replaces the
  prolongation of the first, in the model as in the code; the property says nothing about sums.
* `NoCollateralStuck`: while the pool is not paused and the reserve is active, an
  Active loan with debt can be repaid and an ended auction liquidated. It excludes
  loans with a scaled amount of zero, see below.
* `RatesCurrent`, `NoUnbackedClaims`, `IndexesGrow`: interest. `Roundings` is
  the sum of the roundings of one transaction and grows with the amounts and the time; with 27 decimals and a
  million units of an 18-decimal asset in the reserve it comes to about a hundred thousand wei a year.
  `InterestOnUnbacked` is the interest on claims that earlier roundings have left without assets. With the
  amounts of the run (600 and 1000) the interest of a tick is far above both. `NoUnbackedClaims` is checked
  with one factor; `factor_change` shows why.
* `SuppliesAreSums`: interest, rates and the treasury's share are computed from the supplies, users are paid and charged by
  the balances; the mint for the treasury in the middle of a transaction is where the two could part, above all when the treasury
  itself is the account that deposits, withdraws or is paid. It is proved for every instance (section 6) and no run
  repeats it.
* `WithdrawAllEmpties`, `DepositorsCanLeave`, `InactiveReserveOwedNothing`: leaving the reserve. The
  last one is checked for a factor below 100%. At 100% it fails: the liquidity rate is zero
  whatever is lent, and a reserve that is lent out entirely passes the guard of the
  deactivation; its loans cannot be repaid until it is activated again.
* `TwapIsAverage`: against a definition of its own, which sums the price in force over every unit of time.
  `OnlyPastPricesCount`: the price the pool reads after a report lies within the prices reported earlier.
  `MappingsKnown`: an original lists what names it, both are registered, no chains.
* `CheckedStateHolds`: `repayLoan` and `liquidateLoan` check a loan, let others run, and overwrite it;
  what they checked still holds then. `EveryInterceptorIsAsked`: in each round of calls everybody
  enrolled at its beginning is called once, though callees change the list.
* `Custody` (of `LoanInterceptors`): the vault holds the NFTs of its bNFTs except those out on a flash loan, and none
  of these loses its bNFT meanwhile. `AuctionedForLockersOnly`: who may lose an NFT in
  an auction cannot borrow it. `AuctionedIsLocked` and `ListsAreEnrolments`, which the two action properties rest on,
  are not checked by a run of their own but proved (section 6).
* `BookNamesMinedContracts`, `PublishedIsInitialised`: what a later script or a user can look up exists, and is never a bare
  implementation. `ScriptsAreResumable`: no task throws unless it was interrupted, and then only the six that
  send a transaction the contracts accept once (a second `initReserve`, `createBNFT` and the like). `MigrationFinishes`: even then
  the migration ends, by a new start.
* `ListedAssetsArePriced`, `OpenMarketsAreComplete`: what users reach. An asset is listed after the published oracle
  knows it; a market that is not paused has all its assets configured and its gateways connected, and is the one in the book.
* `FinishedBookIsTheMarket`, `LinksAreCurrent`: neither the book nor the pool, the views or the punk gateway point at what was
  replaced. `PublishedProxiesStay`: no maintenance replaces a proxy users have approved.

## 5 Where code and documentation part

Each of the first four has a run that must find the violation.

* `batch_config`: `batchConfigNft` does not compare redeem and auction duration
  (`ConfiguratorLogic.sol:211`), which `configureNftAsAuction` insists on. With
  the longer redeem duration an auction can be liquidated while it can still be redeemed.
* `zombie_loan`: a partial repayment may round up to the whole scaled amount
  (`LendPoolLoan.sol:158`). The loan stays Active and owes nothing, so that
  it can be neither repaid nor auctioned until its borrower borrows on it again.
* `factor_change`: `setReserveFactor` (`LendPoolConfigurator.sol:164`) does
  not accrue first; the treasury's new share is taken of interest that depositors have been credited.
  `NoUnbackedClaimsCorrect` (section 6) shows that raising the factor is the only way to it.
* `lost_proxy`: four tasks save the new implementation under the key of the
  proxy (`helpers/contracts-deployments.ts:694` is one of the places). One interrupted before the proxy exists finds the
  implementation "existing" when it is run again (`tasks/full/swap-adapter.ts:41`) and tries to upgrade it.

The following were met while modelling and have no run:

* `validateBorrow` (`ValidationLogic.sol:137`) counts the amount both as debt
  and as liquidity and lets utilization exceed the cap.
* With a liquidity rate of zero (factor 100%) `getNormalizedDebt` grows and
  the next transaction drops it (`ReserveLogic.sol:286`).
* Unmapping under a wrong origin (`NFTOracle.sol:179-180`) leaves half a mapping, and the asset
  can be removed while its origin still feeds it.
* `purgeFlashLoanLocking` (`LendPoolLoan.sol:427`) takes any address, the ledger's own as well, and would then
  unlock a token in auction. The model's administrator names lockers only; `AuctionedIsLocked` holds under that condition.
* `helpers:add-nft-to-pool` (`tasks/helpers/add-nft-to-pool.ts:74`) lists a collection and then
  calls `configureNftAsCollateral` with arguments of another signature, which throws: the collection stays listed and unconfigured.
* The flag tasks of `tasks/misc/pool-admin.ts` (from line 119 on) call functions the configurator does not have (`activateReserve` and the like).

Three more are comments the code does not follow, without consequence for the
properties: the flash loan of the vault warns that the receiver "may reentry mint, burn, flashloan
again" (`mock/BNFT/BNFT.sol:221`), which its own `nonReentrant` rules out; the state diagram at `DataTypes.sol:64-67` knows no way back from
Auction to Active, which `redeem` takes; and the comment on the first bid at
`LiquidateLogic.sol:163` speaks of burning the debt, which happens at liquidation.

## 6 Proofs

All for every value of the constants, under the named assumptions of the modules
(units positive, special addresses distinct from users, inputs natural numbers,
a listing that satisfies the configurator's own validation).

**Arithmetic and sums** (`MathLemmas`). Bounds of rounded division;
`ScaledRoundTrip`: with an index of at least one ray, scaling an amount up and down
returns it exactly. Closing a loan therefore burns its whole debt. The lemmas on sums
(`SumFunctionOnSet` of the community modules) say what adding an element, changing one
and comparing two functions do to a sum. They are proved without the library's induction theorems,
from the definition of the fold and the least counterexample in a set of naturals.

**Ledger and pool** (`LendPoolLoanProofs`, `LendPoolProofs`). The invariant is
`Inv == TypeOK /\ LedgerInv`, where `LedgerInv` joins `LoanBook`, `Custody` and
`AuctionBooks` with two parts that make it inductive: `FreshIds` (slots from the
tracker on are untouched, or creating a loan could overwrite an open one) and
`OpenLoansNamed` (an open loan names a real user, token and reserve, or the zero
address could be a token's loan holder). `LendPoolLoanProofs` has one lemma per handler,
resting on `OpenLoanUpdated` (one open loan changes and stays open) and
`LoanClosed` (one loan is closed and its token released). `LendPoolProofs` has one
per transaction and puts them together in `NextInv`. `TypeCorrect` (no balance or
allowance below zero: the subtractions of `BurnDebt`, `TakeFromLoan` and the
escrow are guarded), `LoanBookCorrect`, `CustodyCorrect`,
`AuctionBooksCorrect` follow; `LoanLifeCorrect` and `AuctionProgressCorrect` are action
properties from the same invariant. `WindowsCorrect` proves `WindowsDisjoint` if
every batch configuration is ordered: exactly the hypothesis `batch_config` refutes.

`DebtMatchesLoansCorrect` and `EscrowMatchesBidsCorrect` carry the two sums through
every transaction: each changes one loan and one balance by the same number, so the sums over all other
loans, users and assets stay. `DebtMatchesLoans` needs that `BurnDebt` and the ledger
round the same amount with the same index, `EscrowMatchesBids` that the bid refunded is the one in the loan's record (`AuctionBooks`).
`CollateralCountersCorrect` is inductive with `Inv`: a transaction adds or removes
one token, and `Custody` tells whose bNFT it is, so that the counter of the right borrower moves.

`NoInstantLiquidationCorrect` follows the code's chain of roundings (ltv, collateral
needed, scaled amount, amount) from the check of the borrowing to the comparison an auction makes. Its hypothesis
`SoundLtv` is an ltv of at most 100% in every configuration: above it the rounding of the ratio
alone can exceed `IndexUnit`. Neither configuration call demands it (they demand that the threshold is
no lower than the ltv, whatever its size): it is an assumption on the administrator, which all configurations of the runs meet.
`PauseProlongsAuctionsCorrect` assumes `PausedTimes = {}`, that is, that nobody calls `setPausedTime`: it takes
any start and duration, and so may undo or invent a pause. The run that checks the property has the same value.

`NothingHindersRepayment` and `NothingHindersLiquidation` are what `NoCollateralStuck` says, without `ENABLED`: `RepayEffect`
and `LiquidateEffect` are the assignments of the two transactions without their conditions, and in every state of `WayOut` a step
that makes them satisfies the conditions too, at every index from the stored one on. `WayOutInvariant` proves that `WayOut` holds always. It joins `Inv`, the
two sums and the counters, since each protects one of the subtractions, with `CollectionOpen` (the collection
cannot be deactivated while a token is pledged) and `AuctionsOwe` (the first bid needs a debt above the threshold, and nothing takes from a loan in auction,
so that its liquidation has something to burn).

**Refinement** (`LendPoolRefinementProofs`). `VaultImplemented`: initial states
map to initial states and every transaction maps to one vault step or a stutter:
create pledges, repay releases, a bid bids, redeem calls off, liquidate sells, a
transfer gives, everything else stutters. It uses `Inv`: without `LoanBook` the loan behind a token could be another token's.

**Reserve** (`ReserveProofs`). `TypeOK` is inductive as it stands once the
products and quotients are bounded; the hard part is that every rate is natural
(`UtilizationType`: a utilization of at most one ray). `IndexesGrowCorrect`: multiplying
by a factor of at least one ray never rounds below the old index
(`RayMulGrows`). `WithdrawAllCorrect`: the view the amount is read from equals
the index after the accrual (`ViewIsAccrued`), and the round trip does the rest.
`RatesCurrentCorrect`: the amounts the code adds and takes before the transfer are those the
transfer moves, in each of the transactions; any change of the reserve factor is allowed, which the borrow rate does not depend on.
`InactiveOwedNothingCorrect` needs `RatesInForce` (the liquidity rate is that of the state and of some
factor, perhaps an earlier one) and two hypotheses: `RatesAreVisible`, that the rate at full utilization is at
least two wads and one percentage unit (with 27 and 18 decimals, 0.0000002% a year), since rounding may swallow a lower one; and
that no reserve factor is 100%, the case section 4 describes.

`SuppliesCorrect` carries `SuppliesAreSums` through every transaction by `SumChange`, twice where the treasury and a user
change in one. It is also what `NothingHindersLeaving` needs, the content of `DepositorsCanLeave` without `ENABLED`: `WithdrawEffect` is the
assignments of a withdrawal, and with the whole balance as its amount every check passes; no balance exceeds the supply
(`BalanceWithinSupply`), the round trip burns exactly the balance, and the rates can be computed. Its one hypothesis on the
configuration is a reserve factor of at most 100%, without which `updateInterestRates` reverts.

`NoUnbackedClaimsCorrect` has one hypothesis, `FactorNeverRaised`, which `factor_change` refutes the property without. The invariant is
`RatesShared`: the liquidity rate is that of the assets and the debt as they are, at a factor no lower than today's. The argument
follows one accrual. `InterestCharged`: the compounded factor is at least the simple one (`CompoundedInterestBound`), so the debt grows by the
simple interest at least. `OverallRateBelow`: the rate over all borrowers, computed in rays of a debt in wads, is theirs but for two roundings.
`InterestCredited`: that rate times the utilization, on all the assets, is the borrowers' interest, however long the time.
`InterestShared`: the depositors' part and the treasury's are at most the whole. `AccrualBacked` puts these together, `ClaimsAfter` and
`DebtAfter` carry claims and debt through the indexes and the tokens minted, and `TransactionBacked` is the statement about any
transaction, of which the five kinds are instances. All inequalities keep both roundings of each operation: the bound `Roundings` is
what they add up to, and no more than twice that.

**Oracle** (`NFTOracleProofs`). `MappingsKnown` together with the types of the mapping is inductive.
The proof shows why a wrong unmapping does not break it: it spoils only the side of the origin's list.
`TypeOKCorrect` adds that histories run forward in time and never beyond the present, which
is why no report divides by zero. `TwapIsAverageCorrect` compares two sums over different sets: one term per record of
the walk, and one term per unit of time in the definition. The records cut the interval into runs on which
the price in force is constant (`EndsInRun`, `SumRun`), and `StepSum` adds the runs up.
`OnlyPastPricesCountCorrect`: the record a report appends is of this very time and so the last, with weight zero, and
an average with weights that add up to the divisor lies between the least and the greatest price (`StepBounds`).
None of the four has a hypothesis.

**Interceptors** (`LoanInterceptorsProofs`). The invariant `InterceptorInv` joins `TypeOK`, `Custody`,
`AuctionedIsLocked`, `CheckedStateHolds` and `ListsAreEnrolments` with `WalkInStep`: the copy of the list names exactly those who are due,
each once, and those who were called are its beginning. Without `WalkInStep` the end of a round says nothing of who was called;
without `ListsAreEnrolments` the copy taken at its beginning need not be who is due; `Custody` needs `CheckedStateHolds` to know
that the bNFT to be burnt is there. `WithoutOne` is the lemma on deletion: for a list of any length without repetitions, swapping with
the last entry and dropping it leaves the others, each once. There is one lemma per action. The address assumption
that matters is that the ledger is neither a user nor a locker.

**Deployment** (`DeploymentProofs`). The scripts are a constant, any sequences of typed instructions.
`DeploymentTypeOK` and `BookIsMined` therefore speak of the statements and not of one migration: whatever is run, interrupted
and repeated, the book and the providers name contracts that were mined. The invariant adds `GenesisMined` and `FoundIsMined`, the
other two sources of the addresses a statement writes; each statement has a lemma that it only adds
contracts and mines them.

`PublishedIsInitialisedCorrect` and `PublishedProxiesStayCorrect` hold for all scripts of a discipline that is read off
each script alone (`Disciplined`, `UpkeepReplaces` in `Deployment`): a script that publishes an entry has itself made a
contract of that id, last and without a search before (`MadeHere`), or looked it up in the configuration
(`FoundInConfig`); maintenance publishes view contracts only, which no script puts behind a proxy. The invariant `FitInv` says of a
running script that each publication still ahead will find what it needs (`Ready`), and follows it statement by
statement (`ReadyAdvances`); interruptions and new starts forget what was deployed and found, and the script that is started
has the discipline again. `MCDeployment` states as an assumption that the scripts of `DeployScripts` have it, and TLC evaluates
that on every run. For the development network it is stated of the view contracts only: `dev:deploy-lend-pool` publishes the
registry the book names, and the oracles are initialised without a proxy, so that `PublishedIsInitialised` rests there on the
order of the tasks and is model-checked.

**Only model-checked.**

* `NoCollateralStuck` and `DepositorsCanLeave` use `ENABLED`, which the provers do not handle: the theorems `NothingHinders...` prove
  their content as implications from the assignments to the action. `MigrationFinishes` is liveness under fairness.
* `ScriptsAreResumable`, `ListedAssetsArePriced`, `OpenMarketsAreComplete`, `FinishedBookIsTheMarket`, `LinksAreCurrent`
  are about the particular scripts, which TLC executes: their proof would be that execution again.

## 7 What is not modelled

* Composition of oracle and pool: a collection without a price blocks redeem and liquidate; the pool's
  model always has a price.
* `ReserveOracle`, the gateways, the debt-swap adapter: planned.
* The registries of the pool (at most 256 collections, ids `uint8`) and the bit packing of the configuration:
  the models name assets and parameters directly.
* The vault's airdrop claims, its claim administrator's `executeAirdrop` and operator approvals: the
  ledger, the minter of every pledged token, gives none of the latter.
* Of the tasks: `add-nft-to-pool` and the flag tasks (section 5), the whitelist of the wrapper gateway,
  `full:new-wrapper-gateway-impl` (it passes names its callee does not have and stops after the first
  deployment), `oracle-admin:set-oracle-proxy` (publishes an address that is typed in),
  tasks that only print or encode calls, and the tasks by which developers call the pool
  (`custom-task`, `liquidate-task`, `recycle-task`): the calls themselves are actions of `LendPool`.
* The "Impl" keys of the book are written (`Note`) but no property speaks of them: an interruption can leave one that
  names no contract, and only verification tasks read them. On the development network
  `getWrappedNativeTokenAddress` deploys another WETH each time it is asked
  (`helpers/configuration.ts:105`), so that `ListedAssetsArePriced` is stated for production networks.
* Incentives, views, the collector, mocks, tests: no rule the protocol depends on.

## 8 Plan

Done: the core (ledger, pool, vault, refinement), one reserve, the NFT oracle, interceptors and flash
loans, the deployment. Next, in this order:

1. `ReserveOracle`: the TWAP over Chainlink rounds with equal and falling timestamps.
2. That `LoanInterceptors` implements the ledger of `LendPoolLoan`, its walks mapped to one step at `CloseLoan`.
3. The gateways and the debt-swap adapter over `Reserve`.

The number of runs is kept small: a new module brings one run, and `windows` and `unstuck` can be joined when room is needed.
