------------------------ MODULE LoanInterceptorsProofs ------------------------
(***************************************************************************)
(* For any number of tokens, interceptors and lockers, and whatever they   *)
(* do when they are called: the lists stay whole, everybody on them is     *)
(* called, the state that was checked is the state that is overwritten,    *)
(* and flash loans neither strand an NFT nor take it out of an auction.    *)
(***************************************************************************)
EXTENDS LoanInterceptors, TLAPS

-----------------------------------------------------------------------------
(* Lists: what appending and deleting do to the names on a list.           *)
LEMMA AppendedList ==
  ASSUME NEW s \in Seq(Agents), NEW a \in Agents,
         a \notin Listed(s), Distinct(s)
  PROVE  /\ Append(s, a) \in Seq(Agents)
         /\ Listed(Append(s, a)) = Listed(s) \cup {a}
         /\ Distinct(Append(s, a))
<1> DEFINE t == Append(s, a)
<1>1. /\ t \in Seq(Agents) /\ Len(t) = Len(s) + 1
      /\ DOMAIN t = 1..(Len(s) + 1) /\ DOMAIN s = 1..Len(s)
  OBVIOUS
<1>2. \A i \in DOMAIN t : t[i] = IF i = Len(s) + 1 THEN a ELSE s[i]
  OBVIOUS
<1>3. Listed(t) = Listed(s) \cup {a}
  <2>1. ASSUME NEW x \in Listed(t) PROVE x \in Listed(s) \cup {a}
    BY <1>1, <1>2 DEF Listed
  <2>2. a \in Listed(t)
    <3>1. Len(s) + 1 \in DOMAIN t /\ t[Len(s) + 1] = a BY <1>1, <1>2
    <3> QED BY <3>1 DEF Listed
  <2>3. ASSUME NEW x \in Listed(s) PROVE x \in Listed(t)
    <3>1. PICK i \in 1..Len(s) : x = s[i] BY <1>1 DEF Listed
    <3>2. i \in DOMAIN t /\ t[i] = x BY <1>1, <1>2, <3>1
    <3> QED BY <3>2 DEF Listed
  <2> QED BY <2>1, <2>2, <2>3
<1>4. Distinct(t)
  BY <1>1, <1>2 DEF Distinct, Listed
<1> QED BY <1>1, <1>3, <1>4

LEMMA ShorterList ==
  ASSUME NEW s \in Seq(Agents), Distinct(s), NEW k \in DOMAIN s
  PROVE  /\ SwapAndPop(s, k) \in Seq(Agents)
         /\ Listed(SwapAndPop(s, k)) = Listed(s) \ {s[k]}
         /\ Distinct(SwapAndPop(s, k))
<1> DEFINE t == SwapAndPop(s, k)
<1>1. /\ Len(s) \in Nat \ {0} /\ DOMAIN s = 1..Len(s) /\ k \in 1..Len(s)
      /\ \A i \in 1..Len(s) : s[i] \in Agents
  OBVIOUS
<1>2. t = [i \in 1..(Len(s) - 1) |-> IF i = k THEN s[Len(s)] ELSE s[i]]
  BY DEF SwapAndPop
<1> HIDE DEF t
<1>3. t \in Seq(Agents) /\ Len(t) = Len(s) - 1 /\ DOMAIN t = 1..(Len(s) - 1)
  <2>1. Len(s) - 1 \in Nat BY <1>1
  <2>2. t \in [1..(Len(s) - 1) -> Agents] BY <1>1, <1>2
  <2> QED BY <2>1, <2>2
<1>4. \A i \in 1..(Len(s) - 1) : t[i] = IF i = k THEN s[Len(s)] ELSE s[i]
  BY <1>2
<1>5. ASSUME NEW x \in Listed(t) PROVE x \in Listed(s) \ {s[k]}
  <2>1. PICK i \in 1..(Len(s) - 1) : x = t[i] BY <1>3 DEF Listed
  <2>2. CASE i = k
    BY <1>1, <1>4, <2>1, <2>2 DEF Listed, Distinct
  <2>3. CASE i # k
    BY <1>1, <1>4, <2>1, <2>3 DEF Listed, Distinct
  <2> QED BY <2>2, <2>3
<1>6. ASSUME NEW x \in Listed(s), x # s[k] PROVE x \in Listed(t)
  <2>1. PICK i \in 1..Len(s) : x = s[i] BY <1>1 DEF Listed
  <2>2. CASE i = Len(s)
    <3>1. k \in DOMAIN t /\ t[k] = x BY <1>1, <1>3, <1>4, <1>6, <2>1, <2>2
    <3> QED BY <3>1 DEF Listed
  <2>3. CASE i # Len(s)
    <3>1. i \in DOMAIN t /\ t[i] = x BY <1>1, <1>3, <1>4, <1>6, <2>1, <2>3
    <3> QED BY <3>1 DEF Listed
  <2> QED BY <2>2, <2>3
<1>7. Distinct(t)
  <2>1. SUFFICES ASSUME NEW i \in DOMAIN t, NEW j \in DOMAIN t, t[i] = t[j]
                 PROVE  i = j
    BY DEF Distinct
  <2> QED BY <1>1, <1>3, <1>4, <2>1 DEF Distinct
<1>8. Listed(t) = Listed(s) \ {s[k]}
  BY <1>5, <1>6
<1> QED BY <1>3, <1>7, <1>8 DEF t

LEMMA WithoutOne ==
  ASSUME NEW s \in Seq(Agents), Distinct(s), NEW a
  PROVE  /\ Without(s, a) \in Seq(Agents)
         /\ Listed(Without(s, a)) = Listed(s) \ {a}
         /\ Distinct(Without(s, a))
<1>1. CASE a \notin Listed(s)
  BY <1>1 DEF Without
<1>2. CASE a \in Listed(s)
  <2>1. IndexOf(s, a) \in DOMAIN s /\ s[IndexOf(s, a)] = a
    BY <1>2 DEF Listed, IndexOf
  <2>2. Without(s, a) = SwapAndPop(s, IndexOf(s, a))
    BY <1>2 DEF Without
  <2> QED BY <2>1, <2>2, ShorterList
<1> QED BY <1>1, <1>2
-----------------------------------------------------------------------------
(* A call that is under way has a frame. *)
LEMMA WalkTyped ==
  ASSUME TypeOK, walk.phase # "idle"
  PROVE  walk \in Walks
  BY DEF TypeOK, NoWalk

(* The steps, one lemma per action that changes the books *)
LEMMA CreateLoanKeeps ==
  ASSUME InterceptorInv, NEW n \in Tokens, NEW u \in Users, NEW b \in Users,
         CreateLoan(u, b, n)
  PROVE  InterceptorInv'
<1> USE AddressAssumption DEF InterceptorInv,
        CreateLoan, adminVars, listVars, PoolNotEntered,
        BnftNotEntered
<1>1. TypeOK' BY DEF TypeOK, Accounts
<1>2. Custody' BY DEF TypeOK, Custody
<1>3. (/\ AuctionedIsLocked /\ CheckedStateHolds
      /\ ListsAreEnrolments /\ WalkInStep)'
  BY DEF AuctionedIsLocked, CheckedStateHolds, ListsAreEnrolments, WalkInStep
<1> QED BY <1>1, <1>2, <1>3

LEMMA AuctionLoanKeeps ==
  ASSUME InterceptorInv, NEW n \in Tokens,
         AuctionLoan(n)
  PROVE  InterceptorInv'
<1> USE AddressAssumption DEF InterceptorInv,
        AuctionLoan, adminVars, listVars, SetLocking,
        PoolNotEntered
<1>1. AuctionedIsLocked' BY DEF TypeOK, AuctionedIsLocked
<1>2. (/\ TypeOK /\ Custody /\ CheckedStateHolds
      /\ ListsAreEnrolments /\ WalkInStep)'
  BY DEF TypeOK, Custody, CheckedStateHolds, ListsAreEnrolments, WalkInStep
<1> QED BY <1>1, <1>2

LEMMA RedeemLoanKeeps ==
  ASSUME InterceptorInv, NEW n \in Tokens,
         RedeemLoan(n)
  PROVE  InterceptorInv'
<1> USE AddressAssumption DEF InterceptorInv,
        RedeemLoan, adminVars, listVars, SetLocking,
        PoolNotEntered
<1>1. AuctionedIsLocked' BY DEF TypeOK, AuctionedIsLocked
<1>2. (/\ TypeOK /\ Custody /\ CheckedStateHolds
      /\ ListsAreEnrolments /\ WalkInStep)'
  BY DEF TypeOK, Custody, CheckedStateHolds, ListsAreEnrolments, WalkInStep
<1> QED BY <1>1, <1>2

LEMMA RepayLoanKeeps ==
  ASSUME InterceptorInv, NEW n \in Tokens,
         RepayLoan(n)
  PROVE  InterceptorInv'
<1> USE AddressAssumption DEF InterceptorInv,
        RepayLoan, loanVars, adminVars, listVars, StartWalk,
        PoolNotEntered
<1>1. TypeOK' BY DEF TypeOK, Walks, Custody
<1>2. WalkInStep' BY DEF WalkInStep, ListsAreEnrolments
<1>3. (/\ Custody /\ AuctionedIsLocked
      /\ CheckedStateHolds /\ ListsAreEnrolments)'
  BY DEF Custody, AuctionedIsLocked, CheckedStateHolds, ListsAreEnrolments
<1> QED BY <1>1, <1>2, <1>3

LEMMA LiquidateLoanKeeps ==
  ASSUME InterceptorInv, NEW n \in Tokens, NEW u \in Users,
         LiquidateLoan(n, u)
  PROVE  InterceptorInv'
<1> USE AddressAssumption DEF InterceptorInv,
        LiquidateLoan, loanVars, adminVars, listVars, StartWalk,
        PoolNotEntered
<1>1. TypeOK' BY DEF TypeOK, Walks
<1>2. WalkInStep' BY DEF WalkInStep, ListsAreEnrolments
<1>3. (/\ Custody /\ AuctionedIsLocked
      /\ CheckedStateHolds /\ ListsAreEnrolments)'
  BY DEF Custody, AuctionedIsLocked, CheckedStateHolds, ListsAreEnrolments
<1> QED BY <1>1, <1>2, <1>3

LEMMA CallInterceptorKeeps ==
  ASSUME InterceptorInv, CallInterceptor
  PROVE  InterceptorInv'
<1> USE AddressAssumption DEF InterceptorInv,
        CallInterceptor, loanVars, adminVars, listVars,
        PoolNotEntered, WalkedList
<1>a. walk \in Walks BY WalkTyped
<1>b. walk.list[walk.next] \in Agents
  BY <1>a DEF Walks, TypeOK
<1>c. walk' \in Walks
  <2>1. walk' = [walk EXCEPT !.running = TRUE,
                             !.heard = Append(walk.heard, walk.list[walk.next])]
    OBVIOUS
  <2>2. Append(walk.heard, walk.list[walk.next]) \in Seq(Agents)
    BY <1>a, <1>b DEF Walks
  <2> QED BY <1>a, <2>1, <2>2 DEF Walks
<1>1. TypeOK' BY <1>c DEF TypeOK
<1>2. WalkInStep' BY DEF TypeOK, WalkInStep, NoWalk, Walks
<1>3. (/\ Custody /\ AuctionedIsLocked
      /\ CheckedStateHolds /\ ListsAreEnrolments)'
  BY DEF Custody, AuctionedIsLocked, CheckedStateHolds, ListsAreEnrolments
<1> QED BY <1>1, <1>2, <1>3

LEMMA InterceptorReturnsKeeps ==
  ASSUME InterceptorInv, InterceptorReturns
  PROVE  InterceptorInv'
<1> USE AddressAssumption DEF InterceptorInv,
        InterceptorReturns, loanVars, adminVars, listVars
<1>a. walk \in Walks BY DEF TypeOK, NoWalk
<1>b. walk' \in Walks
  <2>1. walk.next + 1 \in Nat \ {0} BY <1>a DEF Walks
  <2>2. walk' = [walk EXCEPT !.running = FALSE, !.next = walk.next + 1]
    OBVIOUS
  <2> QED BY <1>a, <2>1, <2>2 DEF Walks
<1>1. TypeOK' BY <1>b DEF TypeOK
<1>2. (/\ Custody /\ AuctionedIsLocked /\ CheckedStateHolds
      /\ ListsAreEnrolments /\ WalkInStep)'
  BY DEF Custody, AuctionedIsLocked, CheckedStateHolds, ListsAreEnrolments,
         WalkInStep
<1> QED BY <1>1, <1>2

LEMMA CloseLoanKeeps ==
  ASSUME InterceptorInv, CloseLoan
  PROVE  InterceptorInv'
<1> USE AddressAssumption DEF InterceptorInv,
        CloseLoan, adminVars, listVars, StartWalk, WalkDone,
        BnftMayBurn, ClearLock, PoolNotEntered, WalkedList, BnftNotEntered,
        SetLocking
<1>a. walk \in Walks BY WalkTyped
<1>b. /\ walk.token \in Tokens /\ walk.to \in Users
      /\ walk.from \in {"Active", "Auction"}
  BY <1>a DEF Walks
<1>c. walk' \in Walks BY <1>b DEF TypeOK, Walks
<1>d. locks' \in [Tokens -> SUBSET (Lockers \cup {Ledger})]
  <2>1. CASE walk.from = "Auction"
    <3>1. locks' = [locks EXCEPT ![walk.token] = locks[walk.token] \ {Ledger}]
      BY <2>1
    <3>2. locks[walk.token] \ {Ledger} \in SUBSET (Lockers \cup {Ledger})
      BY <1>b DEF TypeOK
    <3> QED BY <3>1, <3>2 DEF TypeOK
  <2>2. CASE walk.from # "Auction" BY <2>2 DEF TypeOK
  <2> QED BY <2>1, <2>2
<1>e. /\ loanState' \in [Tokens -> {"None", "Active", "Auction"}]
      /\ bnftOwner' \in [Tokens -> Users \cup {Nobody}]
      /\ holder' \in [Tokens -> Accounts]
  BY <1>b DEF TypeOK, Accounts
<1>1. TypeOK' BY <1>c, <1>d, <1>e DEF TypeOK
<1>2. Custody' BY DEF TypeOK, Custody
<1>3. AuctionedIsLocked' BY DEF TypeOK, AuctionedIsLocked, CheckedStateHolds
<1>4. CheckedStateHolds'
  BY <1>b DEF TypeOK, CheckedStateHolds
<1>5. ListsAreEnrolments' BY DEF ListsAreEnrolments
<1>6. WalkInStep' BY DEF TypeOK, WalkInStep, NoWalk, Walks, ListsAreEnrolments
<1> QED BY <1>1, <1>2, <1>3, <1>4, <1>5, <1>6

LEMMA PayOutNftKeeps ==
  ASSUME InterceptorInv, PayOutNft
  PROVE  InterceptorInv'
<1> USE AddressAssumption DEF InterceptorInv,
        PayOutNft, loanVars, adminVars, listVars, WalkDone,
        Payee, PoolNotEntered, WalkedList
<1>a. walk \in Walks BY WalkTyped
<1>1. TypeOK' BY DEF TypeOK, Walks, NoWalk, Accounts
<1>b. walk.token \in Tokens /\ walk.to \in Users /\ walk.to # Vault
  BY <1>a DEF Walks
<1>c. loanState[walk.token] = "None" /\ bnftOwner[walk.token] = Nobody
  BY <1>b DEF CheckedStateHolds, Custody
<1>2. Custody' BY <1>b, <1>c DEF Custody
<1>3. CheckedStateHolds' BY DEF CheckedStateHolds, NoWalk
<1>4. WalkInStep' BY DEF WalkInStep, NoWalk
<1>5. (AuctionedIsLocked /\ ListsAreEnrolments)'
  BY DEF AuctionedIsLocked, ListsAreEnrolments
<1> QED BY <1>1, <1>2, <1>3, <1>4, <1>5

LEMMA AddLoanRepaidInterceptorKeeps ==
  ASSUME InterceptorInv, NEW n \in Tokens, NEW a \in Agents,
         AddLoanRepaidInterceptor(a, n)
  PROVE  InterceptorInv'
<1> USE AddressAssumption DEF InterceptorInv,
        AddLoanRepaidInterceptor, loanVars, adminVars, CodeRuns,
        PoolNotEntered
<1>1. ListsAreEnrolments'
  <2>1. ASSUME NEW m \in Tokens
        PROVE  /\ Listed(interceptors'[m]) = enrolled'[m]
               /\ Distinct(interceptors'[m])
    <3>1. /\ interceptors[m] \in Seq(Agents)
          /\ Listed(interceptors[m]) = enrolled[m]
          /\ Distinct(interceptors[m])
      BY DEF TypeOK, ListsAreEnrolments
    <3>2. CASE m = n /\ a \notin Listed(interceptors[n])
      <4>1. /\ interceptors'[m] = Append(interceptors[m], a)
            /\ enrolled'[m] = enrolled[m] \cup {a}
        BY <3>2 DEF TypeOK
      <4>2. a \in Agents /\ a \notin Listed(interceptors[m])
        BY <3>2 DEF TypeOK
      <4> QED BY <3>1, <4>1, <4>2, AppendedList
    <3>3. CASE m # n \/ a \in Listed(interceptors[n])
      <4>1. interceptors'[m] = interceptors[m] /\ enrolled'[m] = enrolled[m]
        BY <3>1, <3>3 DEF TypeOK
      <4> QED BY <3>1, <4>1
    <3> QED BY <3>2, <3>3
  <2> QED BY <2>1 DEF ListsAreEnrolments
<1>2. (/\ TypeOK /\ Custody /\ AuctionedIsLocked
      /\ CheckedStateHolds /\ WalkInStep)'
  BY DEF TypeOK, Custody, AuctionedIsLocked, CheckedStateHolds, WalkInStep
<1> QED BY <1>1, <1>2

LEMMA DeleteLoanRepaidInterceptorKeeps ==
  ASSUME InterceptorInv, NEW n \in Tokens, NEW a \in Agents,
         DeleteLoanRepaidInterceptor(a, n)
  PROVE  InterceptorInv'
<1> USE AddressAssumption DEF InterceptorInv,
        DeleteLoanRepaidInterceptor, loanVars, adminVars,
        CodeRuns, PoolNotEntered
<1>a. ASSUME NEW m \in Tokens
      PROVE  /\ interceptors'[m] \in Seq(Agents)
             /\ Listed(interceptors'[m]) = enrolled'[m]
             /\ Distinct(interceptors'[m])
  <2>1. interceptors[m] \in Seq(Agents) /\ Listed(interceptors[m]) = enrolled[m]
        /\ Distinct(interceptors[m])
    BY DEF TypeOK, ListsAreEnrolments
  <2>2. CASE m = n
    <3>1. /\ interceptors'[m] = Without(interceptors[m], a)
          /\ enrolled'[m] = enrolled[m] \ {a}
      BY <2>2 DEF TypeOK
    <3>2. /\ Without(interceptors[m], a) \in Seq(Agents)
          /\ Listed(Without(interceptors[m], a)) = Listed(interceptors[m]) \ {a}
          /\ Distinct(Without(interceptors[m], a))
      BY <2>1, WithoutOne
    <3> QED BY <2>1, <3>1, <3>2
  <2>3. CASE m # n
    BY <2>1, <2>3 DEF TypeOK
  <2> QED BY <2>2, <2>3
<1>b. interceptors' \in [Tokens -> Seq(Agents)]
  <2>1. interceptors' = [m \in Tokens |-> interceptors'[m]]
    BY DEF TypeOK
  <2> QED BY <1>a, <2>1
<1>1. TypeOK' BY <1>b DEF TypeOK
<1>2. ListsAreEnrolments' BY <1>a DEF ListsAreEnrolments
<1>3. (/\ Custody /\ AuctionedIsLocked
      /\ CheckedStateHolds /\ WalkInStep)'
  BY DEF Custody, AuctionedIsLocked, CheckedStateHolds, WalkInStep
<1> QED BY <1>1, <1>2, <1>3

LEMMA PurgeLoanRepaidInterceptorKeeps ==
  ASSUME InterceptorInv, NEW T \in SUBSET Tokens, NEW a \in Agents,
         PurgeLoanRepaidInterceptor(T, a)
  PROVE  InterceptorInv'
<1> USE AddressAssumption DEF InterceptorInv,
        PurgeLoanRepaidInterceptor, loanVars, adminVars,
        CodeRuns, PoolNotEntered
<1>a. ASSUME NEW m \in Tokens
      PROVE  /\ interceptors'[m] \in Seq(Agents)
             /\ Listed(interceptors'[m]) = enrolled'[m]
             /\ Distinct(interceptors'[m])
  <2>1. interceptors[m] \in Seq(Agents) /\ Listed(interceptors[m]) = enrolled[m]
        /\ Distinct(interceptors[m])
    BY DEF TypeOK, ListsAreEnrolments
  <2>2. CASE m \in T
    <3>1. /\ interceptors'[m] = Without(interceptors[m], a)
          /\ enrolled'[m] = enrolled[m] \ {a}
      BY <2>2
    <3> QED BY <2>1, <3>1, WithoutOne
  <2>3. CASE m \notin T
    BY <2>1, <2>3
  <2> QED BY <2>2, <2>3
<1>b. interceptors' \in [Tokens -> Seq(Agents)]
  <2>1. interceptors' = [m \in Tokens |-> interceptors'[m]]
    OBVIOUS
  <2> QED BY <1>a, <2>1
<1>1. TypeOK' BY <1>b DEF TypeOK
<1>2. ListsAreEnrolments' BY <1>a DEF ListsAreEnrolments
<1>3. (/\ Custody /\ AuctionedIsLocked
      /\ CheckedStateHolds /\ WalkInStep)'
  BY DEF Custody, AuctionedIsLocked, CheckedStateHolds, WalkInStep
<1> QED BY <1>1, <1>2, <1>3

LEMMA SetFlashLoanLockingKeeps ==
  ASSUME InterceptorInv, NEW n \in Tokens, NEW a \in Lockers, NEW b \in BOOLEAN,
         SetFlashLoanLocking(a, n, b)
  PROVE  InterceptorInv'
<1> USE AddressAssumption DEF InterceptorInv,
        SetFlashLoanLocking, loanVars, adminVars, listVars,
        SetLocking, CodeRuns, PoolNotEntered
<1>1. (/\ TypeOK /\ Custody /\ AuctionedIsLocked
      /\ CheckedStateHolds /\ ListsAreEnrolments /\ WalkInStep)'
  BY DEF TypeOK, Custody, AuctionedIsLocked, CheckedStateHolds,
         ListsAreEnrolments, WalkInStep
<1> QED BY <1>1

LEMMA PurgeFlashLoanLockingKeeps ==
  ASSUME InterceptorInv, NEW T \in SUBSET Tokens, NEW a \in Lockers,
         PurgeFlashLoanLocking(T, a)
  PROVE  InterceptorInv'
<1> USE AddressAssumption DEF InterceptorInv,
        PurgeFlashLoanLocking, loanVars, adminVars, listVars,
        CodeRuns, PoolNotEntered
<1>1. (/\ TypeOK /\ Custody /\ AuctionedIsLocked
      /\ CheckedStateHolds /\ ListsAreEnrolments /\ WalkInStep)'
  BY DEF TypeOK, Custody, AuctionedIsLocked, CheckedStateHolds,
         ListsAreEnrolments, WalkInStep
<1> QED BY <1>1

LEMMA FlashLoanKeeps ==
  ASSUME InterceptorInv, NEW T \in SUBSET Tokens, NEW by \in Users \cup Lockers,
         FlashLoan(by, T)
  PROVE  InterceptorInv'
<1> USE AddressAssumption DEF InterceptorInv,
        FlashLoan, loanVars, adminVars, listVars, BnftNotEntered,
        CodeRuns, PoolNotEntered
<1>a. walk.running \in BOOLEAN
  <2>1. CASE walk = NoWalk BY <2>1 DEF NoWalk
  <2>2. CASE walk \in Walks BY <2>2 DEF Walks
  <2> QED BY <2>1, <2>2 DEF TypeOK
<1>b. flash' \in [by: Users \cup Lockers \cup {Nobody}, tokens: SUBSET Tokens,
                  inner: BOOLEAN]
  BY <1>a
<1>1. TypeOK' BY <1>b DEF TypeOK, Accounts
<1>2. CheckedStateHolds'
  <2>1. walk.phase = "after" => walk.token \in Tokens /\ walk.token \notin T
    BY WalkTyped DEF CheckedStateHolds, Walks
  <2> QED BY <2>1 DEF CheckedStateHolds
<1>3. (/\ Custody /\ AuctionedIsLocked
      /\ ListsAreEnrolments /\ WalkInStep)'
  BY DEF Custody, AuctionedIsLocked, ListsAreEnrolments, WalkInStep
<1> QED BY <1>1, <1>2, <1>3

LEMMA FlashLoanReturnsKeeps ==
  ASSUME InterceptorInv, FlashLoanReturns
  PROVE  InterceptorInv'
<1> USE AddressAssumption DEF InterceptorInv,
        FlashLoanReturns, loanVars, adminVars, listVars,
        PoolNotEntered, BnftNotEntered
<1>1. TypeOK' BY DEF TypeOK, NoFlash, Accounts
<1>2. Custody' BY DEF Custody, NoFlash
<1>3. CheckedStateHolds'
  <2>1. walk.phase = "after" =>
          walk.token \in Tokens /\ walk.token \notin flash.tokens
    BY WalkTyped DEF CheckedStateHolds, Walks, Custody
  <2> QED BY <2>1 DEF CheckedStateHolds
<1>4. (AuctionedIsLocked /\ ListsAreEnrolments /\ WalkInStep)'
  BY DEF AuctionedIsLocked, ListsAreEnrolments, WalkInStep
<1> QED BY <1>1, <1>2, <1>3, <1>4

LEMMA TransferNftKeeps ==
  ASSUME InterceptorInv, NEW n \in Tokens,
         NEW to \in Users \cup {Receiver, Vault},
         TransferNft(n, to)
  PROVE  InterceptorInv'
<1> USE AddressAssumption DEF InterceptorInv,
        TransferNft, loanVars, adminVars, listVars, CodeRuns,
        PoolNotEntered
<1>1. TypeOK' BY DEF TypeOK, Accounts
<1>2. (/\ Custody /\ AuctionedIsLocked /\ CheckedStateHolds
      /\ ListsAreEnrolments /\ WalkInStep)'
  BY DEF Custody, AuctionedIsLocked, CheckedStateHolds, ListsAreEnrolments,
         WalkInStep
<1> QED BY <1>1, <1>2
-----------------------------------------------------------------------------
LEMMA InterceptorInvInit == Init => InterceptorInv
<1> SUFFICES ASSUME Init PROVE InterceptorInv
  OBVIOUS
<1> USE AddressAssumption DEF Init
<1>1. TypeOK
  BY DEF TypeOK, Accounts, NoFlash
<1>2. Custody
  BY DEF Custody, NoFlash
<1>3. AuctionedIsLocked
  BY DEF AuctionedIsLocked
<1>4. CheckedStateHolds /\ WalkInStep
  BY DEF CheckedStateHolds, WalkInStep, NoWalk
<1>5. ListsAreEnrolments
  <2>1. Listed(<<>>) = {} /\ Distinct(<<>>)
    BY DEF Listed, Distinct
  <2> QED BY <2>1 DEF ListsAreEnrolments
<1> QED BY <1>1, <1>2, <1>3, <1>4, <1>5 DEF InterceptorInv

(* The whitelists alone change, or nothing does. *)
LEMMA WhitelistsKeep ==
  ASSUME InterceptorInv,
         UNCHANGED <<loanVars, holder, locks, listVars, walk, flash>>,
         interceptorWhitelist' \subseteq Agents,
         lockerWhitelist' \subseteq Lockers
  PROVE  InterceptorInv'
  BY DEF InterceptorInv, TypeOK, Custody, AuctionedIsLocked, CheckedStateHolds,
         ListsAreEnrolments, WalkInStep, loanVars, listVars

LEMMA InterceptorInvNext == InterceptorInv /\ [Next]_vars => InterceptorInv'
<1> SUFFICES ASSUME InterceptorInv, [Next]_vars PROVE InterceptorInv'
  OBVIOUS
<1>1. CASE UNCHANGED vars
  BY <1>1, WhitelistsKeep DEF vars, loanVars, listVars, InterceptorInv, TypeOK
<1>2. CASE PoolStep
  BY <1>2, CreateLoanKeeps, AuctionLoanKeeps, RedeemLoanKeeps, RepayLoanKeeps,
     LiquidateLoanKeeps, CallInterceptorKeeps, InterceptorReturnsKeeps,
     CloseLoanKeeps, PayOutNftKeeps DEF PoolStep
<1>3. CASE AgentStep
  BY <1>3, AddLoanRepaidInterceptorKeeps, DeleteLoanRepaidInterceptorKeeps,
     SetFlashLoanLockingKeeps DEF AgentStep
<1>4. CASE AdminStep
  <2>1. ASSUME NEW T \in SUBSET Tokens, NEW a \in Agents,
               PurgeLoanRepaidInterceptor(T, a)
        PROVE  InterceptorInv'
    BY <2>1, PurgeLoanRepaidInterceptorKeeps
  <2>2. ASSUME NEW T \in SUBSET Tokens, NEW a \in Lockers,
               PurgeFlashLoanLocking(T, a)
        PROVE  InterceptorInv'
    BY <2>2, PurgeFlashLoanLockingKeeps
  <2>3. ASSUME NEW a \in Agents, NEW b \in BOOLEAN,
               ApproveLoanRepaidInterceptor(a, b)
        PROVE  InterceptorInv'
    BY <2>3, WhitelistsKeep
       DEF ApproveLoanRepaidInterceptor, InterceptorInv, TypeOK, loanVars,
           listVars
  <2>4. ASSUME NEW a \in Lockers, NEW b \in BOOLEAN,
               ApproveFlashLoanLocker(a, b)
        PROVE  InterceptorInv'
    BY <2>4, WhitelistsKeep
       DEF ApproveFlashLoanLocker, InterceptorInv, TypeOK, loanVars, listVars
  <2> QED BY <1>4, <2>1, <2>2, <2>3, <2>4 DEF AdminStep
<1>5. CASE VaultStep
  BY <1>5, FlashLoanKeeps, FlashLoanReturnsKeeps, TransferNftKeeps DEF VaultStep
<1> QED BY <1>1, <1>2, <1>3, <1>4, <1>5 DEF Next

(* The inductive invariant of the module *)
THEOREM InterceptorInvariant == Spec => []InterceptorInv
  BY InterceptorInvInit, InterceptorInvNext, PTL DEF Spec

(* Type correctness of the ledger's doors, for all constants *)
THEOREM InterceptorsTypeOK == Spec => []TypeOK
  BY InterceptorInvariant, PTL DEF InterceptorInv

(* Flash loans and closings never get in each other's way: no NFT is left  *)
(* in the vault without its bNFT.                                          *)
THEOREM VaultKeepsCustody == Spec => []Custody
  BY InterceptorInvariant, PTL DEF InterceptorInv

(* A token is locked by the ledger exactly while it is auctioned, provided *)
(* the administrator's purges name lockers and not the ledger.             *)
THEOREM AuctionsAreLocked == Spec => []AuctionedIsLocked
  BY InterceptorInvariant, PTL DEF InterceptorInv

(* What repayLoan and liquidateLoan check before the callbacks holds when  *)
(* they overwrite it, whatever the callbacks do.                           *)
THEOREM CheckedStateStays == Spec => []CheckedStateHolds
  BY InterceptorInvariant, PTL DEF InterceptorInv

(* The swap and pop of a deletion loses and duplicates nobody.             *)
THEOREM ListsStayWhole == Spec => []ListsAreEnrolments
  BY InterceptorInvariant, PTL DEF InterceptorInv

-----------------------------------------------------------------------------
(* Every interceptor enrolled when a round began is called in it, once,    *)
(* although the list may change under the loop.                            *)
THEOREM AllInterceptorsAsked == Spec => EveryInterceptorIsAsked
<1>1. ASSUME InterceptorInv, [Next]_vars, RoundEnds
      PROVE  Listed(walk.heard) = walk.due /\ Distinct(walk.heard)
  <2>1. walk.phase # "idle"
    BY <1>1 DEF RoundEnds
  <2>2. walk \in Walks
    BY <1>1, <2>1, WalkTyped DEF InterceptorInv
  <2>3. CloseLoan \/ PayOutNft
    <3>1. walk'.phase # walk.phase
      BY <1>1 DEF RoundEnds
    <3>2. \/ UNCHANGED walk \/ CallInterceptor \/ InterceptorReturns
          \/ CloseLoan \/ PayOutNft
      BY <1>1, <2>1 DEF Next, PoolStep, AgentStep, AdminStep, VaultStep, vars,
         CreateLoan, AuctionLoan, RedeemLoan, RepayLoan, LiquidateLoan,
         AddLoanRepaidInterceptor, DeleteLoanRepaidInterceptor,
         PurgeLoanRepaidInterceptor, SetFlashLoanLocking, PurgeFlashLoanLocking,
         ApproveLoanRepaidInterceptor, ApproveFlashLoanLocker, FlashLoan,
         FlashLoanReturns, TransferNft, PoolNotEntered
    <3>3. ~CallInterceptor /\ ~InterceptorReturns
      BY <2>2, <3>1 DEF CallInterceptor, InterceptorReturns, Walks
    <3> QED BY <3>1, <3>2, <3>3
  <2>4. ~walk.running /\ walk.next > Len(walk.list)
    BY <2>3 DEF CloseLoan, PayOutNft, WalkDone, WalkedList
  <2>5. /\ Len(walk.heard) = Len(walk.list)
        /\ \A i \in DOMAIN walk.heard : walk.heard[i] = walk.list[i]
        /\ Listed(walk.list) = walk.due /\ Distinct(walk.list)
    BY <1>1, <2>1, <2>2, <2>4 DEF InterceptorInv, WalkInStep, Walks
  <2>6. DOMAIN walk.heard = DOMAIN walk.list
    BY <2>2, <2>5 DEF Walks
  <2> QED BY <2>5, <2>6 DEF Listed, Distinct
<1>2. InterceptorInv /\ [Next]_vars
        => [RoundEnds => /\ Listed(walk.heard) = walk.due
                         /\ Distinct(walk.heard)]_vars
  BY <1>1
<1> QED BY InterceptorInvariant, <1>2, PTL DEF Spec, EveryInterceptorIsAsked

(* Nobody but a locker takes a token out of the vault while it is          *)
(* auctioned.                                                              *)
THEOREM AuctionedStayInVault == Spec => AuctionedForLockersOnly
<1> DEFINE Kept == \A n \in flash'.tokens \ flash.tokens :
                     loanState[n] = "Auction" => flash'.by \in Lockers
<1>1. ASSUME InterceptorInv, Next PROVE Kept
  <2>1. ASSUME NEW T \in SUBSET Tokens, NEW by \in Users \cup Lockers,
               FlashLoan(by, T)
        PROVE  Kept
    <3>1. SUFFICES ASSUME NEW n \in T, loanState[n] = "Auction"
                   PROVE  by \in Lockers
      BY <2>1 DEF FlashLoan
    <3>2. Ledger \in locks[n] /\ locks[n] \subseteq Lockers \cup {Ledger}
      BY <1>1, <3>1 DEF InterceptorInv, AuctionedIsLocked, TypeOK
    <3>3. by \in locks[n]
      BY <2>1, <3>1, <3>2 DEF FlashLoan, MayFlash
    <3> QED BY <3>2, <3>3, AddressAssumption
  <2>2. flash' = NoFlash \/ UNCHANGED flash => Kept
    BY DEF NoFlash
  <2> QED
    BY <1>1, <2>1, <2>2 DEF Next, PoolStep, AgentStep, AdminStep, VaultStep,
       CreateLoan, AuctionLoan, RedeemLoan, RepayLoan, LiquidateLoan,
       CallInterceptor, InterceptorReturns, CloseLoan, PayOutNft,
       AddLoanRepaidInterceptor, DeleteLoanRepaidInterceptor,
       PurgeLoanRepaidInterceptor, SetFlashLoanLocking, PurgeFlashLoanLocking,
       ApproveLoanRepaidInterceptor, ApproveFlashLoanLocker,
       FlashLoanReturns, TransferNft
<1>2. InterceptorInv /\ [Next]_vars => [Kept]_vars
  BY <1>1
<1> QED BY InterceptorInvariant, <1>2, PTL DEF Spec, AuctionedForLockersOnly
=============================================================================
