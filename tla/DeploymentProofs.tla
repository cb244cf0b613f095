--------------------------- MODULE DeploymentProofs ---------------------------
(***************************************************************************)
(* Whatever the scripts are, and wherever they are interrupted: the        *)
(* variables keep their types, and every address in the book or published  *)
(* by a provider is a contract that was mined.  For every set of scripts   *)
(* of the discipline Deployment defines (the scripts of DeployScripts have *)
(* it: MCDeployment), what a provider publishes under an id is a contract  *)
(* of that id, never a bare implementation, and maintenance replaces no    *)
(* proxy a finished market publishes.                                      *)
(***************************************************************************)
EXTENDS Deployment, TLAPS

(* The parts of TypeOK that speak of the chain and the book.               *)
BookTypeOK ==
  /\ net \in Nets
  /\ chain \in Seq(Contract)
  /\ DOMAIN market \subseteq Nat
  /\ \A p \in DOMAIN market : market[p] \in Market
  /\ book \in [Keys -> Nat] /\ implBook \in [Keys -> Nat]
  /\ new \in 0..Len(chain) /\ found \in Nat

(* What was on the chain before the first script is still there, and what  *)
(* a script found exists: the two sources of addresses BookNamesMined-     *)
(* Contracts does not speak of.                                            *)
GenesisMined == \A a \in 1..Len(Genesis[net]) : Mined(a)
FoundIsMined == found # 0 => Mined(found)

BookInv == BookTypeOK /\ BookNamesMinedContracts /\ GenesisMined /\ FoundIsMined

(* A step only adds contracts and mines them.                              *)
MinedNext(a) == a \in 1..Len(chain') /\ chain'[a].mined
ChainGrows == /\ chain' \in Seq(Contract)
              /\ Len(chain) <= Len(chain')
              /\ \A a \in Nat : Mined(a) => MinedNext(a)

-----------------------------------------------------------------------------
(* A chain with one contract more, or with one contract changed and not    *)
(* unmined, has grown.                                                     *)
LEMMA Appended ==
  ASSUME BookTypeOK, NEW c \in Contract, chain' = Append(chain, c)
  PROVE  ChainGrows /\ Len(chain') = Len(chain) + 1 /\ chain'[Len(chain')] = c
  BY DEF BookTypeOK, ChainGrows, Mined, MinedNext

LEMMA Changed ==
  ASSUME BookTypeOK, NEW a \in 1..Len(chain), NEW c \in Contract,
         chain[a].mined => c.mined, chain' = [chain EXCEPT ![a] = c]
  PROVE  ChainGrows /\ Len(chain') = Len(chain) /\ chain'[a] = c
<1>1. chain' \in Seq(Contract) /\ Len(chain') = Len(chain)
  BY DEF BookTypeOK
<1>2. \A b \in 1..Len(chain) : chain'[b] = IF b = a THEN c ELSE chain[b]
  BY DEF BookTypeOK
<1> QED BY <1>1, <1>2 DEF BookTypeOK, ChainGrows, Mined, MinedNext

LEMMA Unchanged ==
  ASSUME BookTypeOK, chain' = chain
  PROVE  ChainGrows /\ Len(chain') = Len(chain)
  BY DEF BookTypeOK, ChainGrows, Mined, MinedNext

(* What a step may write: addresses it read before, or mined contracts.    *)
EntriesKept ==
  \A p \in DOMAIN market' : \A e \in Entries :
    \/ market'[p].entry[e] = 0
    \/ p \in DOMAIN market /\ market'[p].entry[e] = market[p].entry[e]
    \/ MinedNext(market'[p].entry[e])
BookKept ==
  \A k \in Keys : book'[k] = 0 \/ book'[k] = book[k] \/ MinedNext(book'[k])
FoundKept == found' = 0 \/ found' = found \/ MinedNext(found')

LEMMA Kept ==
  ASSUME BookInv, ChainGrows, BookTypeOK', net' = net,
         EntriesKept, BookKept, FoundKept
  PROVE  BookInv'
<1>1. \A a : MinedNext(a) <=> Mined(a)'
  BY DEF MinedNext, Mined
<1>2. BookNamesMinedContracts'
  <2>1. ASSUME NEW k \in Keys, book'[k] # 0 PROVE MinedNext(book'[k])
    <3>1. book[k] \in Nat /\ (book[k] # 0 => Mined(book[k]))
      BY DEF BookInv, BookTypeOK, BookNamesMinedContracts
    <3> QED BY <2>1, <3>1 DEF BookKept, ChainGrows
  <2>2. ASSUME NEW p \in DOMAIN market', NEW e \in Entries,
               market'[p].entry[e] # 0
        PROVE  MinedNext(market'[p].entry[e])
    <3>1. CASE p \in DOMAIN market /\ market'[p].entry[e] = market[p].entry[e]
      <4>1. Mined(market[p].entry[e])
        BY <2>2, <3>1 DEF BookInv, BookNamesMinedContracts
      <4>2. market[p].entry[e] \in Nat
        BY <3>1 DEF BookInv, BookTypeOK, Market
      <4> QED BY <3>1, <4>1, <4>2 DEF ChainGrows
    <3> QED BY <2>2, <3>1 DEF EntriesKept
  <2> QED BY <2>1, <2>2 DEF BookNamesMinedContracts, Mined, MinedNext
<1>3. GenesisMined'
  <2>1. \A a \in 1..Len(Genesis[net]) : a \in Nat /\ Mined(a)
    BY BookAssumption DEF BookInv, GenesisMined, BookTypeOK, Mined
  <2> QED BY <2>1 DEF GenesisMined, ChainGrows, Mined, MinedNext
<1>4. FoundIsMined'
  BY DEF FoundIsMined, FoundKept, ChainGrows, BookInv, BookTypeOK, Mined, MinedNext
<1> QED BY <1>2, <1>3, <1>4 DEF BookInv

-----------------------------------------------------------------------------
(* What an instruction's arguments resolve to are addresses.               *)
LEMMA Reads ==
  ASSUME BookTypeOK, NEW i \in Instruction
  PROVE  /\ i.key \in Keys
         /\ i.op \in EntryOps => i.key \in Entries
         /\ \A e \in Entries : Entry(e) \in Nat
         /\ \A k \in Keys : Config[net][k] \in Nat
         /\ Assets(i) \in SUBSET Nat /\ Arguments(i) \in SUBSET Nat
<1>1. i.key \in Keys /\ i.uses \subseteq Keys /\ i.assets \subseteq Keys
        /\ i.reads \subseteq Entries /\ (i.op \in EntryOps => i.key \in Entries)
  BY DEF Instruction
<1>2. \A e \in Entries : Entry(e) \in Nat
  BY DEF BookTypeOK, Entry, Market
<1>3. \A k \in Keys : Config[net][k] \in Nat
  BY BookAssumption DEF BookTypeOK
<1>4. \A k \in Keys : Located(k) \in Nat
  BY <1>3 DEF BookTypeOK, Located
<1>5. Assets(i) \in SUBSET Nat
  BY <1>1, <1>4 DEF Assets
<1>6. Arguments(i) \in SUBSET Nat
  BY <1>1, <1>2, <1>4 DEF Arguments, BookTypeOK
<1> QED BY <1>1, <1>2, <1>3, <1>5, <1>6

LEMMA CreatedType ==
  ASSUME BookTypeOK, NEW i \in Instruction, NEW kind \in Kinds,
         NEW code \in Nat, NEW admin \in Nat
  PROVE  Created(i, kind, code, admin) \in Contract
  BY Reads DEF Created, Contract

(* Creations.                                                              *)
LEMMA DeployStep ==
  ASSUME BookInv, NEW i \in Instruction, Accepts(i), Deploy(i), net' = net
  PROVE  BookInv'
<1> DEFINE c == Created(i, IF i.op = "deploy" THEN "plain"
                           ELSE "implementation", 0, 0)
<1> BookTypeOK BY DEF BookInv
<1>1. c \in Contract
  BY CreatedType DEF Kinds
<1>2. chain' = Append(chain, c) BY DEF Deploy
<1> HIDE DEF c
<1>3. ChainGrows /\ Len(chain') = Len(chain) + 1
  BY <1>1, <1>2, Appended
<1>4. NewMarket \in Market /\ \A e \in Entries : NewMarket.entry[e] = 0
  BY DEF NewMarket, Market, Roles
<1>5. /\ DOMAIN market' \subseteq Nat
      /\ \A p \in DOMAIN market' : \/ p \in DOMAIN market /\ market'[p] = market[p]
                                   \/ market'[p] = NewMarket
  BY <1>3 DEF Deploy, BookTypeOK
<1>6. BookTypeOK'
  BY <1>3, <1>4, <1>5 DEF BookTypeOK, ChainGrows, Deploy
<1>7. EntriesKept
  BY <1>4, <1>5 DEF EntriesKept
<1> QED BY <1>3, <1>6, <1>7, Kept DEF Deploy, BookKept, FoundKept

LEMMA DeployProxyStep ==
  ASSUME BookInv, NEW i \in Instruction, Accepts(i), DeployProxy(i), net' = net
  PROVE  BookInv'
<1> DEFINE admin == IF i.by = "none" THEN 0 ELSE book[i.by]
           c == Created(i, "proxy", new, admin)
<1> BookTypeOK BY DEF BookInv
<1>1. admin \in Nat /\ new \in Nat
  BY DEF BookTypeOK, Instruction
<1>2. c \in Contract
  BY <1>1, CreatedType DEF Kinds
<1>3. chain' = Append(chain, c) BY DEF DeployProxy
<1> HIDE DEF c
<1>4. ChainGrows /\ Len(chain') = Len(chain) + 1
  BY <1>2, <1>3, Appended
<1>5. BookTypeOK'
  BY <1>4 DEF BookTypeOK, ChainGrows, DeployProxy
<1> QED BY <1>4, <1>5, Kept DEF DeployProxy, EntriesKept, BookKept, FoundKept

-----------------------------------------------------------------------------
(* Writing the book.                                                       *)
LEMMA NoteStep ==
  ASSUME BookInv, NEW i \in Instruction, Note(i), net' = net
  PROVE  BookInv'
<1> BookTypeOK BY DEF BookInv
<1>1. ChainGrows /\ Len(chain') = Len(chain) BY Unchanged DEF Note
<1>2. implBook' \in [Keys -> Nat]
  <2>1. new \in Nat /\ implBook \in [Keys -> Nat] BY DEF BookTypeOK
  <2>2. implBook' = [implBook EXCEPT ![i.key] = new] BY DEF Note
  <2> QED BY <2>1, <2>2
<1>3. BookTypeOK' BY <1>1, <1>2 DEF BookTypeOK, Note
<1> QED BY <1>1, <1>3, Kept DEF Note, EntriesKept, BookKept, FoundKept

(* A contract that is mined keeps its type.                                *)
LEMMA MinedType ==
  ASSUME BookTypeOK, NEW a \in 1..Len(chain),
         chain' = [chain EXCEPT ![a].mined = TRUE]
  PROVE  /\ ChainGrows /\ Len(chain') = Len(chain) /\ MinedNext(a)
         /\ chain'[a] \in Contract
<1> DEFINE c == [chain[a] EXCEPT !.mined = TRUE]
<1>0. chain[a] \in Contract BY DEF BookTypeOK
<1>1. c \in Contract /\ c.mined
  BY <1>0 DEF Contract
<1>2. chain' = [chain EXCEPT ![a] = c] BY DEF BookTypeOK
<1> HIDE DEF c
<1>3. ChainGrows /\ Len(chain') = Len(chain) /\ chain'[a] = c
  BY <1>1, <1>2, Changed
<1> QED BY <1>1, <1>3 DEF MinedNext

LEMMA SaveStep ==
  ASSUME BookInv, NEW i \in Instruction, Accepts(i), Save(i), net' = net
  PROVE  BookInv'
<1> BookTypeOK BY DEF BookInv
<1>1. new \in 1..Len(chain)
  BY DEF BookTypeOK, Save, Accepts
<1>2. ChainGrows /\ Len(chain') = Len(chain) /\ MinedNext(new)
  BY <1>1, MinedType DEF Save
<1>3. BookTypeOK' BY <1>1, <1>2, Reads DEF BookTypeOK, Save, ChainGrows
<1>4. BookKept BY <1>2, Reads DEF Save, BookKept, BookTypeOK
<1> QED BY <1>2, <1>3, <1>4, Kept DEF Save, EntriesKept, FoundKept

LEMMA SaveImplStep ==
  ASSUME BookInv, NEW i \in Instruction, Accepts(i), SaveImpl(i), net' = net
  PROVE  BookInv'
<1> BookTypeOK BY DEF BookInv
<1>1. new \in 1..Len(chain)
  BY DEF BookTypeOK, SaveImpl, Accepts
<1>2. ChainGrows /\ Len(chain') = Len(chain) /\ MinedNext(new)
  BY <1>1, MinedType DEF SaveImpl
<1>3. BookTypeOK' BY <1>1, <1>2, Reads DEF BookTypeOK, SaveImpl, ChainGrows
<1> QED BY <1>2, <1>3, Kept DEF SaveImpl, EntriesKept, BookKept, FoundKept

LEMMA RecallStep ==
  ASSUME BookInv, NEW i \in Instruction, Accepts(i), Recall(i), net' = net
  PROVE  BookInv'
<1> BookTypeOK BY DEF BookInv
<1>1. ChainGrows /\ Len(chain') = Len(chain) BY Unchanged DEF Recall
<1>2. found \in Nat /\ Mined(found)
  BY DEF BookInv, FoundIsMined, BookTypeOK, Recall, Accepts
<1>3. BookTypeOK' BY <1>2, Reads DEF BookTypeOK, Recall
<1>4. BookKept BY <1>1, <1>2, Reads DEF Recall, BookKept, BookTypeOK, ChainGrows
<1> QED BY <1>1, <1>3, <1>4, Kept DEF Recall, EntriesKept, FoundKept

LEMMA SaveEntryStep ==
  ASSUME BookInv, NEW i \in Instruction, Accepts(i), SaveEntry(i), net' = net
  PROVE  BookInv'
<1> BookTypeOK BY DEF BookInv
<1>1. ChainGrows /\ Len(chain') = Len(chain) BY Unchanged DEF SaveEntry
<1>2. i.key \in Entries BY Reads DEF SaveEntry, EntryOps
<1>3. Entry(i.key) \in Nat BY <1>2, Reads
<1>4. Entry(i.key) # 0 => Mined(Entry(i.key))
  BY <1>2 DEF BookInv, BookNamesMinedContracts, Entry
<1>5. BookTypeOK' BY <1>3 DEF BookTypeOK, SaveEntry
<1>6. BookKept
  BY <1>1, <1>3, <1>4, Reads DEF SaveEntry, BookKept, BookTypeOK, ChainGrows
<1> QED BY <1>1, <1>5, <1>6, Kept DEF SaveEntry, EntriesKept, FoundKept

LEMMA FindStep ==
  ASSUME BookInv, NEW i \in Instruction, Accepts(i), Find(i), net' = net
  PROVE  BookInv'
<1> BookTypeOK BY DEF BookInv
<1>1. ChainGrows /\ Len(chain') = Len(chain) BY Unchanged DEF Find
<1>2. found' \in Nat /\ (found' # 0 => Mined(found'))
  <2>1. CASE i.op = "find"
    <3>1. found' = book[i.key] BY <2>1 DEF Find
    <3> QED BY <3>1, Reads DEF BookInv, BookTypeOK, BookNamesMinedContracts
  <2>2. CASE i.op = "findConfig"
    <3>1. found' = Config[net][i.key] BY <2>2 DEF Find
    <3>2. Config[net][i.key] \in 0..Len(Genesis[net])
      BY BookAssumption, Reads DEF BookTypeOK
    <3> QED BY <3>1, <3>2 DEF BookInv, GenesisMined
  <2>3. CASE i.op = "findEntry"
    <3>1. found' = Entry(i.key) BY <2>3 DEF Find
    <3>2. i.key \in Entries BY <2>3, Reads DEF EntryOps
    <3>3. Entry(i.key) \in Nat BY <3>2, Reads
    <3> QED BY <3>1, <3>2, <3>3 DEF BookInv, BookNamesMinedContracts, Entry
  <2>4. CASE i.op = "given"
    BY <2>4 DEF Find, Proxies, IsProxy
  <2> QED BY <2>1, <2>2, <2>3, <2>4 DEF Find
<1>3. BookTypeOK' BY <1>2 DEF BookTypeOK, Find
<1>4. FoundKept BY <1>2 DEF FoundKept, Mined, MinedNext, Find
<1> QED BY <1>1, <1>3, <1>4, Kept DEF Find, EntriesKept, BookKept

-----------------------------------------------------------------------------
(* Writing the provider.                                                   *)

(* An entry is set to an address that is mined afterwards.                 *)
LEMMA EntrySet ==
  ASSUME BookTypeOK, NEW e, NEW a \in Nat, MinedNext(a), SetEntry(e, a)
  PROVE  /\ DOMAIN market' \subseteq Nat
         /\ \A p \in DOMAIN market' : market'[p] \in Market
         /\ EntriesKept
<1>1. DOMAIN market' = DOMAIN market BY DEF SetEntry
<1>2. ASSUME NEW p \in DOMAIN market'
      PROVE  /\ market'[p] \in Market
             /\ \A f \in Entries : \/ market'[p].entry[f] = market[p].entry[f]
                                   \/ market'[p].entry[f] = a
  <2>1. market[p] \in Market BY <1>1 DEF BookTypeOK
  <2>2. CASE p # Provider
    BY <1>1, <2>1, <2>2 DEF SetEntry
  <2>3. CASE p = Provider
    <3>1. market'[p] = [market[p] EXCEPT !.entry = [@ EXCEPT ![e] = a]]
      BY <1>1, <2>3 DEF SetEntry
    <3> QED BY <2>1, <3>1 DEF Market
  <2> QED BY <2>2, <2>3
<1> QED BY <1>1, <1>2 DEF EntriesKept, BookTypeOK

LEMMA PublishStep ==
  ASSUME BookInv, NEW i \in Instruction, Accepts(i), Publish(i), net' = net
  PROVE  BookInv'
<1> BookTypeOK BY DEF BookInv
<1>1. Target \in 1..Len(chain)
  BY DEF BookInv, BookTypeOK, FoundIsMined, Mined, Target, Publish, Accepts
<1>2. ChainGrows /\ Len(chain') = Len(chain) /\ MinedNext(Target)
  BY <1>1, MinedType DEF Publish
<1>3. /\ DOMAIN market' \subseteq Nat
      /\ \A p \in DOMAIN market' : market'[p] \in Market
      /\ EntriesKept
  BY <1>1, <1>2, EntrySet DEF Publish
<1>4. BookTypeOK' BY <1>2, <1>3 DEF BookTypeOK, Publish, ChainGrows
<1> QED BY <1>2, <1>3, <1>4, Kept DEF Publish, BookKept, FoundKept

LEMMA PublishConfigStep ==
  ASSUME BookInv, NEW i \in Instruction, Accepts(i), PublishConfig(i), net' = net
  PROVE  BookInv'
<1> BookTypeOK BY DEF BookInv
<1> DEFINE a == Config[net][i.key]
<1>1. ChainGrows /\ Len(chain') = Len(chain) BY Unchanged DEF PublishConfig
<1>2. a \in 1..Len(Genesis[net])
  BY BookAssumption, Reads DEF BookTypeOK, Accepts, PublishConfig
<1>3. a \in Nat /\ MinedNext(a)
  BY <1>1, <1>2, BookAssumption DEF BookInv, GenesisMined, ChainGrows
<1> SetEntry(i.key, a) BY DEF PublishConfig
<1> HIDE DEF a
<1>4. /\ DOMAIN market' \subseteq Nat
      /\ \A p \in DOMAIN market' : market'[p] \in Market
      /\ EntriesKept
  BY <1>3, EntrySet
<1>5. BookTypeOK' BY <1>4 DEF BookTypeOK, PublishConfig
<1> QED BY <1>1, <1>4, <1>5, Kept DEF PublishConfig, BookKept, FoundKept

(* A contract whose `code` or set of addresses changes keeps its type.     *)
LEMMA CodeType ==
  ASSUME BookTypeOK, NEW a \in 1..Len(chain), NEW code \in Nat,
         chain' = [chain EXCEPT ![a].code = code]
  PROVE  ChainGrows /\ Len(chain') = Len(chain)
<1> DEFINE c == [chain[a] EXCEPT !.code = code]
<1>0. chain[a] \in Contract BY DEF BookTypeOK
<1>1. c \in Contract /\ (chain[a].mined => c.mined) BY <1>0 DEF Contract
<1>2. chain' = [chain EXCEPT ![a] = c] BY DEF BookTypeOK
<1> HIDE DEF c
<1> QED BY <1>1, <1>2, Changed

LEMMA SetImplStep ==
  ASSUME BookInv, NEW i \in Instruction, Accepts(i), SetImpl(i), net' = net
  PROVE  BookInv'
<1> BookTypeOK BY DEF BookInv
<1>1. i.key \in Entries /\ Entry(i.key) \in Nat /\ i.key \in Keys
  BY Reads DEF SetImpl, EntryOps
<1>2. new \in Nat /\ Provider \in Nat
  BY BookAssumption DEF BookTypeOK, Provider
<1>3. CASE Entry(i.key) = 0
  <2> DEFINE c == [id |-> i.key, kind |-> "proxy", code |-> new,
                   admin |-> Provider, mined |-> TRUE, uses |-> {Provider},
                   holds |-> {}]
  <2>1. c \in Contract /\ c.mined BY <1>1, <1>2 DEF Contract, Kinds
  <2>2. chain' = Append(chain, c) BY <1>3 DEF SetImpl
  <2> HIDE DEF c
  <2>3. /\ ChainGrows /\ Len(chain') = Len(chain) + 1
        /\ chain'[Len(chain')] = c
    BY <2>1, <2>2, Appended
  <2>4. Len(chain) + 1 \in Nat /\ MinedNext(Len(chain) + 1)
    BY <2>1, <2>3 DEF BookTypeOK, MinedNext
  <2>5. SetEntry(i.key, Len(chain) + 1) BY <1>3 DEF SetImpl
  <2>6. /\ DOMAIN market' \subseteq Nat
        /\ \A p \in DOMAIN market' : market'[p] \in Market
        /\ EntriesKept
    BY <2>4, <2>5, EntrySet
  <2>7. BookTypeOK' BY <2>3, <2>6 DEF BookTypeOK, SetImpl, ChainGrows
  <2> QED BY <2>3, <2>6, <2>7, Kept DEF SetImpl, BookKept, FoundKept
<1>4. CASE Entry(i.key) # 0
  <2>1. Mined(Entry(i.key))
    BY <1>1, <1>4 DEF BookInv, BookNamesMinedContracts, Entry
  <2>2. chain' = [chain EXCEPT ![Entry(i.key)].code = new] /\ market' = market
    BY <1>4 DEF SetImpl
  <2>3. ChainGrows /\ Len(chain') = Len(chain)
    BY <1>2, <2>1, <2>2, CodeType DEF Mined
  <2>4. BookTypeOK' BY <2>2, <2>3 DEF BookTypeOK, SetImpl, ChainGrows
  <2> QED BY <2>2, <2>3, <2>4, Kept DEF SetImpl, EntriesKept, BookKept, FoundKept
<1> QED BY <1>3, <1>4

LEMMA UpgradeStep ==
  ASSUME BookInv, NEW i \in Instruction, Accepts(i), Upgrade(i), net' = net
  PROVE  BookInv'
<1> BookTypeOK BY DEF BookInv
<1>1. found \in 1..Len(chain) /\ new \in Nat
  BY DEF Upgrade, Accepts, IsProxy, Mined, BookTypeOK
<1>2. ChainGrows /\ Len(chain') = Len(chain) BY <1>1, CodeType DEF Upgrade
<1>3. BookTypeOK' BY <1>2 DEF BookTypeOK, Upgrade, ChainGrows
<1> QED BY <1>2, <1>3, Kept DEF Upgrade, EntriesKept, BookKept, FoundKept

-----------------------------------------------------------------------------
(* Setters of the contracts deployed.                                      *)
LEMMA InitializeStep ==
  ASSUME BookInv, NEW i \in Instruction, Accepts(i), Initialize(i), net' = net
  PROVE  BookInv'
<1> BookTypeOK BY DEF BookInv
<1> DEFINE c == [chain[new] EXCEPT !.kind = "plain",
                                   !.uses = chain[new].uses \cup Assets(i)]
<1>1. new \in 1..Len(chain) BY DEF Initialize, Accepts, Mined
<1>2. chain[new] \in Contract /\ Assets(i) \subseteq Nat
  BY <1>1, Reads DEF BookTypeOK
<1>3. c \in Contract /\ (chain[new].mined => c.mined)
  BY <1>2 DEF Contract, Kinds
<1>4. chain' = [chain EXCEPT ![new] = c] BY DEF Initialize
<1> HIDE DEF c
<1>5. ChainGrows /\ Len(chain') = Len(chain) BY <1>1, <1>3, <1>4, Changed
<1>6. BookTypeOK' BY <1>5 DEF BookTypeOK, Initialize, ChainGrows
<1> QED BY <1>5, <1>6, Kept DEF Initialize, EntriesKept, BookKept, FoundKept

LEMMA AddsStep ==
  ASSUME BookInv, NEW a \in 1..Len(chain), NEW S \in SUBSET Nat, Adds(a, S),
         UNCHANGED <<net, market, book, implBook, new, found>>
  PROVE  BookInv'
<1> BookTypeOK BY DEF BookInv
<1> DEFINE c == [chain[a] EXCEPT !.holds = chain[a].holds \cup S]
<1>0. chain[a] \in Contract BY DEF BookTypeOK
<1>1. c \in Contract /\ (chain[a].mined => c.mined) BY <1>0 DEF Contract
<1>2. chain' = [chain EXCEPT ![a] = c] BY DEF Adds
<1> HIDE DEF c
<1>3. ChainGrows /\ Len(chain') = Len(chain) BY <1>1, <1>2, Changed
<1>4. BookTypeOK' BY <1>3 DEF BookTypeOK, ChainGrows
<1> QED BY <1>3, <1>4, Kept DEF EntriesKept, BookKept, FoundKept

LEMMA SettersStep ==
  ASSUME BookInv, NEW i \in Instruction, Accepts(i), net' = net,
         Fill(i) \/ Register(i) \/ CreateBNFT(i) \/ AddAsset(i) \/ Approve(i)
  PROVE  BookInv'
<1> BookTypeOK BY DEF BookInv
<1>1. Assets(i) \in SUBSET Nat BY Reads
<1>2. CASE Fill(i)
  <2>1. new \in 1..Len(chain) BY <1>2 DEF Fill, Accepts, Mined
  <2> QED BY <1>1, <1>2, <2>1, AddsStep DEF Fill
<1>3. CASE Register(i)
  <2>1. Target \in 1..Len(chain) BY <1>3 DEF Register, Accepts, Mined
  <2>2. {Provider} \in SUBSET Nat BY BookAssumption DEF Provider, BookTypeOK
  <2> QED BY <1>3, <2>1, <2>2, AddsStep DEF Register
<1>4. CASE CreateBNFT(i)
  <2>1. book[i.key] \in 1..Len(chain)
    BY <1>4 DEF CreateBNFT, Accepts, IsProxy, Mined
  <2> QED BY <1>1, <1>4, <2>1, AddsStep DEF CreateBNFT
<1>5. CASE Approve(i)
  <2>1. book[i.key] \in 1..Len(chain)
    BY <1>5 DEF Approve, Accepts, IsProxy, Mined
  <2> QED BY <1>1, <1>5, <2>1, AddsStep DEF Approve
<1>6. CASE AddAsset(i)
  <2>1. Oracle(i) \in 1..Len(chain)
    BY <1>6 DEF AddAsset, Accepts, Mined
  <2> QED BY <1>1, <1>6, <2>1, AddsStep DEF AddAsset
<1> QED BY <1>2, <1>3, <1>4, <1>5, <1>6

-----------------------------------------------------------------------------
(* The pool: entries stay as they are.                                     *)
LEMMA MarketStep ==
  ASSUME BookInv, UNCHANGED <<net, chain, book, implBook, new, found>>,
         DOMAIN market' = DOMAIN market,
         \A p \in DOMAIN market :
           market'[p] \in Market /\ market'[p].entry = market[p].entry
  PROVE  BookInv'
<1> BookTypeOK BY DEF BookInv
<1>1. ChainGrows BY Unchanged
<1>2. BookTypeOK' BY DEF BookTypeOK
<1> QED BY <1>1, <1>2, Kept DEF EntriesKept, BookKept, FoundKept

LEMMA PoolStep ==
  ASSUME BookInv, NEW i \in Instruction, net' = net,
         Admit(i) \/ Pause(i) \/ List(i) \/ Configure(i) \/ Enable(i)
  PROVE  BookInv'
<1> BookTypeOK BY DEF BookInv
<1>1. Assets(i) \in SUBSET Nat BY Reads
<1>2. \A p \in DOMAIN market : market[p] \in Market BY DEF BookTypeOK
<1>3. UNCHANGED <<net, chain, book, implBook, new, found>>
  BY DEF Admit, Pause, List, Configure, Enable
<1>4. /\ DOMAIN market' = DOMAIN market
      /\ \A p \in DOMAIN market :
           market'[p] \in Market /\ market'[p].entry = market[p].entry
  <2>1. CASE Admit(i)
    <3>1. market' = [market EXCEPT ![Provider] = [market[Provider] EXCEPT
                       !.roles = market[Provider].roles
                                   \cup ({i.key} \cap Roles)]]
      BY <2>1 DEF Admit
    <3> QED BY <1>2, <3>1 DEF Market
  <2>2. CASE Pause(i)
    <3>1. market' = [p \in DOMAIN market |-> IF p \in PoolMarkets
            THEN [market[p] EXCEPT !.paused = (i.op = "pause")]
            ELSE market[p]]
      BY <2>2 DEF Pause, AtPool
    <3> QED BY <1>2, <3>1 DEF Market
  <2>3. CASE List(i)
    <3>1. market' = [p \in DOMAIN market |-> IF p \in PoolMarkets
            THEN [market[p] EXCEPT !.listed = market[p].listed \cup Assets(i)]
            ELSE market[p]]
      BY <2>3 DEF List, AtPool
    <3> QED BY <1>1, <1>2, <3>1 DEF Market
  <2>4. CASE Configure(i)
    <3>1. market' = [p \in DOMAIN market |-> IF p \in PoolMarkets
            THEN [market[p] EXCEPT !.configured =
                                     market[p].configured \cup Assets(i)]
            ELSE market[p]]
      BY <2>4 DEF Configure, AtPool
    <3> QED BY <1>1, <1>2, <3>1 DEF Market
  <2>5. CASE Enable(i)
    <3>1. market' = [p \in DOMAIN market |-> IF p \in PoolMarkets
            THEN [market[p] EXCEPT !.borrowable =
                                     market[p].borrowable \cup Assets(i)]
            ELSE market[p]]
      BY <2>5 DEF Enable, AtPool
    <3> QED BY <1>1, <1>2, <3>1 DEF Market
  <2> QED BY <2>1, <2>2, <2>3, <2>4, <2>5
<1> QED BY <1>3, <1>4, MarketStep

-----------------------------------------------------------------------------
(* The invariant of the whole specification.                               *)
RunTypeOK ==
  /\ todo \in 1..(Len(Migration[net]) + 1)
  /\ task \in {"none"} \cup Tasks
  /\ status \in {"idle", "running", "crashed", "aborted"}
  /\ status # "idle" => task # "none"
  /\ script \in Seq(Instruction)
  /\ crashes \in 0..MaxCrashes /\ redeploys \in 0..MaxRedeploys
  /\ upkeep \in 0..MaxUpkeep

IInv == BookInv /\ RunTypeOK

LEMMA TypeOKParts == TypeOK <=> BookTypeOK /\ RunTypeOK
  BY DEF TypeOK, BookTypeOK, RunTypeOK

LEMMA BookUnchanged ==
  ASSUME BookInv, UNCHANGED bookVars
  PROVE  BookInv'
  BY DEF BookInv, BookTypeOK, BookNamesMinedContracts, GenesisMined,
         FoundIsMined, Mined, bookVars

(* Starting a script forgets what the last one deployed and found.         *)
LEMMA Forgotten ==
  ASSUME BookInv, UNCHANGED <<net, chain, market, book, implBook>>,
         new' = 0, found' = 0
  PROVE  BookInv'
  BY DEF BookInv, BookTypeOK, BookNamesMinedContracts, GenesisMined,
         FoundIsMined, Mined

LEMMA ExecuteStep ==
  ASSUME BookInv, NEW i \in Instruction, Accepts(i), Execute(i)
  PROVE  BookInv'
<1>1. net' = net BY DEF Execute
<1>2. CASE Call(i) BY <1>2, BookUnchanged DEF Call
<1> QED BY <1>1, <1>2, DeployStep, DeployProxyStep, NoteStep, SaveStep,
           SaveImplStep, SetImplStep, PublishStep, PublishConfigStep, FindStep,
           RecallStep, SaveEntryStep, UpgradeStep, InitializeStep, SettersStep,
           PoolStep DEF Execute

LEMMA InitIInv == Init => IInv
<1> SUFFICES ASSUME Init PROVE IInv OBVIOUS
<1>1. Genesis[net] \in Seq(Contract) /\ net \in Nets
  BY BookAssumption DEF Init, BookInit
<1>2. BookInv
  BY <1>1, BookAssumption
     DEF Init, BookInit, BookInv, BookTypeOK, BookNamesMinedContracts,
         GenesisMined, FoundIsMined, Mined, Unset
<1>3. RunTypeOK
  BY <1>1, DeploymentAssumption DEF Init, RunTypeOK
<1> QED BY <1>2, <1>3 DEF IInv

LEMMA NextIInv == IInv /\ [Next]_vars => IInv'
<1> SUFFICES ASSUME IInv, [Next]_vars PROVE IInv' OBVIOUS
<1> BookInv /\ RunTypeOK /\ BookTypeOK BY DEF IInv, BookInv
<1>n. /\ net \in Nets /\ Len(Migration[net]) \in Nat
      /\ \A t \in Tasks : Program[net][t] \in Seq(Instruction)
      /\ \A j \in 1..Len(Migration[net]) : Migration[net][j] \in Tasks
      /\ Len(Migration[net]) >= 1 /\ Upkeep[net] \subseteq Tasks
  BY DeploymentAssumption DEF BookTypeOK
<1>t. "none" \notin Tasks BY DeploymentAssumption
<1>1. CASE StartTask
  <2>1. Migration[net][todo] \in Tasks
    BY <1>1, <1>n DEF StartTask, Finished, RunTypeOK
  <2>2. BookInv' BY <1>1, Forgotten DEF StartTask, Begin
  <2>3. RunTypeOK'
    BY <1>1, <1>n, <1>t, <2>1 DEF StartTask, Begin, RunTypeOK
  <2> QED BY <2>2, <2>3 DEF IInv
<1>2. CASE Step
  <2>1. Statement \in Instruction /\ script' \in Seq(Instruction)
    BY <1>2 DEF Step, Running, Statement, RunTypeOK
  <2>2. BookInv' BY <1>2, <2>1, ExecuteStep DEF Step
  <2>3. RunTypeOK' BY <1>2, <2>1 DEF Step, RunTypeOK, Execute
  <2> QED BY <2>2, <2>3 DEF IInv
<1>3. CASE Skip
  <2>1. BookInv' BY <1>3, BookUnchanged DEF Skip
  <2>2. RunTypeOK' BY <1>3 DEF Skip, RunTypeOK, bookVars, Running
  <2> QED BY <2>1, <2>2 DEF IInv
<1>4. CASE Abort
  <2>1. BookInv' BY <1>4, BookUnchanged DEF Abort
  <2>2. RunTypeOK' BY <1>4 DEF Abort, RunTypeOK, bookVars, Running
  <2> QED BY <2>1, <2>2 DEF IInv
<1>5. CASE Finish
  <2>1. BookInv' BY <1>5, BookUnchanged DEF Finish
  <2>2. RunTypeOK'
    BY <1>5, <1>n DEF Finish, RunTypeOK, bookVars, Finished
  <2> QED BY <2>1, <2>2 DEF IInv
<1>6. CASE Crash
  <2>1. BookInv'
    <3>1. CASE chain' = chain
      BY <1>6, <3>1, Forgotten DEF Crash
    <3>2. CASE new # 0 /\ chain' = [chain EXCEPT ![new].mined = TRUE]
      <4>1. new \in 1..Len(chain) BY <3>2 DEF BookTypeOK
      <4>2. ChainGrows /\ Len(chain') = Len(chain)
        BY <3>2, <4>1, MinedType
      <4>3. BookTypeOK' BY <1>6, <4>2 DEF Crash, BookTypeOK, ChainGrows
      <4> QED BY <1>6, <4>2, <4>3, Kept
              DEF Crash, EntriesKept, BookKept, FoundKept
    <3> QED BY <1>6, <3>1, <3>2 DEF Crash
  <2>2. RunTypeOK' BY <1>6, DeploymentAssumption DEF Crash, RunTypeOK
  <2> QED BY <2>1, <2>2 DEF IInv
<1>7. CASE Retry
  <2>1. BookInv' BY <1>7, Forgotten DEF Retry, Begin
  <2>2. RunTypeOK' BY <1>7, <1>n DEF Retry, Begin, RunTypeOK
  <2> QED BY <2>1, <2>2 DEF IInv
<1>8. CASE Redeploy
  <2>1. BookInv' BY <1>8, Forgotten DEF Redeploy, Begin
  <2>2. RunTypeOK'
    BY <1>8, <1>n, <1>t, DeploymentAssumption DEF Redeploy, Begin, RunTypeOK
  <2> QED BY <2>1, <2>2 DEF IInv
<1>9. ASSUME NEW t \in Upkeep[net], StartUpkeep(t) PROVE IInv'
  <2>1. BookInv' BY <1>9, Forgotten DEF StartUpkeep, Begin
  <2>2. RunTypeOK'
    BY <1>9, <1>n, <1>t, DeploymentAssumption DEF StartUpkeep, Begin, RunTypeOK
  <2> QED BY <2>1, <2>2 DEF IInv
<1>10. CASE UNCHANGED vars
  <2>1. BookInv' BY <1>10, BookUnchanged DEF vars
  <2>2. RunTypeOK' BY <1>10 DEF vars, runVars, bookVars, RunTypeOK
  <2> QED BY <2>1, <2>2 DEF IInv
<1> QED BY <1>1, <1>2, <1>3, <1>4, <1>5, <1>6, <1>7, <1>8, <1>9, <1>10
        DEF Next, ScriptStep, Operator

THEOREM DeploymentInvariant == Spec => []IInv
  BY InitIInv, NextIInv, PTL DEF Spec

(* The variables keep their types, for every set of scripts that is typed. *)
THEOREM DeploymentTypeOK == Spec => []TypeOK
  BY DeploymentInvariant, TypeOKParts, PTL DEF IInv, BookInv

(* The book and the providers only ever name contracts that were mined,    *)
(* whatever the scripts and wherever they are interrupted.                 *)
THEOREM BookIsMined == Spec => []BookNamesMinedContracts
  BY DeploymentInvariant, PTL DEF IInv, BookInv

-----------------------------------------------------------------------------
(* What a contract is does not change: its id, and its kind unless it is   *)
(* an implementation that gets initialised.                                *)
StaysAs(a) == /\ chain'[a].id = chain[a].id
              /\ chain[a].kind # "implementation"
                   => chain'[a].kind = chain[a].kind
Steady == Len(chain) <= Len(chain') /\ \A a \in 1..Len(chain) : StaysAs(a)

LEMMA SteadyAppended ==
  ASSUME BookTypeOK, NEW c, chain' = Append(chain, c)
  PROVE  Steady
  BY DEF BookTypeOK, Steady, StaysAs

LEMMA SteadyChanged ==
  ASSUME BookTypeOK, NEW a \in 1..Len(chain), NEW c,
         chain' = [chain EXCEPT ![a] = c], c.id = chain[a].id,
         chain[a].kind # "implementation" => c.kind = chain[a].kind
  PROVE  Steady
<1>1. Len(chain') = Len(chain)
  BY DEF BookTypeOK
<1>2. \A b \in 1..Len(chain) : chain'[b] = IF b = a THEN c ELSE chain[b]
  BY DEF BookTypeOK
<1> QED BY <1>1, <1>2 DEF BookTypeOK, Steady, StaysAs

LEMMA SteadyUnchanged ==
  ASSUME BookTypeOK, chain' = chain
  PROVE  Steady
  BY DEF BookTypeOK, Steady, StaysAs

(* A contract is mined, gets another implementation or another address.    *)
LEMMA SteadyMined ==
  ASSUME BookTypeOK, NEW a \in 1..Len(chain),
         chain' = [chain EXCEPT ![a].mined = TRUE]
  PROVE  Steady
<1> DEFINE c == [chain[a] EXCEPT !.mined = TRUE]
<1>1. chain[a] \in Contract BY DEF BookTypeOK
<1>2. c.id = chain[a].id /\ c.kind = chain[a].kind BY <1>1 DEF Contract
<1>3. chain' = [chain EXCEPT ![a] = c] BY DEF BookTypeOK
<1> HIDE DEF c
<1> QED BY <1>2, <1>3, SteadyChanged

LEMMA SteadyUpgraded ==
  ASSUME BookTypeOK, NEW a \in 1..Len(chain), NEW code,
         chain' = [chain EXCEPT ![a].code = code]
  PROVE  Steady
<1> DEFINE c == [chain[a] EXCEPT !.code = code]
<1>1. chain[a] \in Contract BY DEF BookTypeOK
<1>2. c.id = chain[a].id /\ c.kind = chain[a].kind BY <1>1 DEF Contract
<1>3. chain' = [chain EXCEPT ![a] = c] BY DEF BookTypeOK
<1> HIDE DEF c
<1> QED BY <1>2, <1>3, SteadyChanged

LEMMA SteadyAdds ==
  ASSUME BookTypeOK, NEW a \in 1..Len(chain), NEW S, Adds(a, S)
  PROVE  Steady
<1> DEFINE c == [chain[a] EXCEPT !.holds = chain[a].holds \cup S]
<1>1. chain[a] \in Contract BY DEF BookTypeOK
<1>2. c.id = chain[a].id /\ c.kind = chain[a].kind BY <1>1 DEF Contract
<1>3. chain' = [chain EXCEPT ![a] = c] BY DEF Adds
<1> HIDE DEF c
<1> QED BY <1>2, <1>3, SteadyChanged

(* No instruction changes what a contract is.                              *)
LEMMA ExecuteSteady ==
  ASSUME BookInv, NEW i \in Instruction, Accepts(i), Execute(i)
  PROVE  Steady
<1> BookTypeOK BY DEF BookInv
<1>1. CASE UNCHANGED chain BY <1>1, SteadyUnchanged
<1>2. CASE Deploy(i) BY <1>2, SteadyAppended DEF Deploy
<1>3. CASE DeployProxy(i) BY <1>3, SteadyAppended DEF DeployProxy
<1>4. CASE Save(i)
  <2>1. new \in 1..Len(chain) BY <1>4 DEF BookTypeOK, Save, Accepts
  <2> QED BY <1>4, <2>1, SteadyMined DEF Save
<1>5. CASE SaveImpl(i)
  <2>1. new \in 1..Len(chain) BY <1>5 DEF BookTypeOK, SaveImpl, Accepts
  <2> QED BY <1>5, <2>1, SteadyMined DEF SaveImpl
<1>6. CASE SetImpl(i)
  <2>1. i.key \in Entries BY <1>6, Reads DEF SetImpl, EntryOps
  <2>2. CASE Entry(i.key) = 0
    BY <1>6, <2>2, SteadyAppended DEF SetImpl
  <2>3. CASE Entry(i.key) # 0
    <3>1. Entry(i.key) \in 1..Len(chain)
      BY <2>1, <2>3 DEF BookInv, BookNamesMinedContracts, Entry, Mined
    <3> QED BY <1>6, <2>3, <3>1, SteadyUpgraded DEF SetImpl
  <2> QED BY <2>2, <2>3
<1>7. CASE Publish(i)
  <2>1. Target \in 1..Len(chain)
    BY <1>7 DEF BookInv, BookTypeOK, FoundIsMined, Mined, Target, Publish, Accepts
  <2> QED BY <1>7, <2>1, SteadyMined DEF Publish
<1>8. CASE Upgrade(i)
  <2>1. found \in 1..Len(chain)
    BY <1>8 DEF Upgrade, Accepts, IsProxy, Mined
  <2> QED BY <1>8, <2>1, SteadyUpgraded DEF Upgrade
<1>9. CASE Initialize(i)
  <2> DEFINE c == [chain[new] EXCEPT !.kind = "plain",
                                     !.uses = chain[new].uses \cup Assets(i)]
  <2>1. new \in 1..Len(chain) /\ chain[new].kind = "implementation"
    BY <1>9 DEF Initialize, Accepts, Mined
  <2>2. chain[new] \in Contract BY <2>1 DEF BookTypeOK
  <2>3. c.id = chain[new].id BY <2>2 DEF Contract
  <2>4. chain' = [chain EXCEPT ![new] = c] BY <1>9 DEF Initialize
  <2> HIDE DEF c
  <2> QED BY <2>1, <2>3, <2>4, SteadyChanged
<1>10. CASE Fill(i)
  <2>1. new \in 1..Len(chain) BY <1>10 DEF Fill, Accepts, Mined
  <2> QED BY <1>10, <2>1, SteadyAdds DEF Fill
<1>11. CASE Register(i)
  <2>1. Target \in 1..Len(chain) BY <1>11 DEF Register, Accepts, Mined
  <2> QED BY <1>11, <2>1, SteadyAdds DEF Register
<1>12. CASE CreateBNFT(i)
  <2>1. book[i.key] \in 1..Len(chain)
    BY <1>12 DEF CreateBNFT, Accepts, IsProxy, Mined
  <2> QED BY <1>12, <2>1, SteadyAdds DEF CreateBNFT
<1>13. CASE AddAsset(i)
  <2>1. Oracle(i) \in 1..Len(chain) BY <1>13 DEF AddAsset, Accepts, Mined
  <2> QED BY <1>13, <2>1, SteadyAdds DEF AddAsset
<1>14. CASE Approve(i)
  <2>1. book[i.key] \in 1..Len(chain)
    BY <1>14 DEF Approve, Accepts, IsProxy, Mined
  <2> QED BY <1>14, <2>1, SteadyAdds DEF Approve
<1>15. Note(i) \/ PublishConfig(i) \/ Find(i) \/ Recall(i) \/ SaveEntry(i)
         \/ Admit(i) \/ Pause(i) \/ List(i) \/ Configure(i) \/ Enable(i)
         \/ Call(i) => UNCHANGED chain
  BY DEF Note, PublishConfig, Find, Recall, SaveEntry, Admit, Pause, List,
         Configure, Enable, Call, bookVars
<1> QED BY <1>1, <1>2, <1>3, <1>4, <1>5, <1>6, <1>7, <1>8, <1>9, <1>10, <1>11,
           <1>12, <1>13, <1>14, <1>15 DEF Execute

-----------------------------------------------------------------------------
(* A contract is what its entry says: of that id, of one of the kinds K.   *)
Fits(e, a, K) == a \in 1..Len(chain) /\ chain[a].id = e /\ chain[a].kind \in K
FitsNext(e, a, K) ==
  a \in 1..Len(chain') /\ chain'[a].id = e /\ chain'[a].kind \in K

PublishedFits(E, K) ==
  \A p \in DOMAIN market : \A e \in E :
    market[p].entry[e] # 0 => Fits(e, market[p].entry[e], K)
ConfiguredFits(E, K) ==
  \A e \in E : Config[net][e] # 0 => Fits(e, Config[net][e], K)

(* What is known when `s` is left of the running script and its j-th       *)
(* instruction publishes: the contract will be made, or looked up in the   *)
(* configuration, or it is the one found, or the one made last.            *)
Without(s, j, ops) == \A k \in 1..(j - 1) : s[k].op \notin ops
ReadyAt(s, j, K) ==
  \/ found = 0 /\ MadeHere(s, j, K)
  \/ FoundInConfig(net, s, j)
  \/ /\ Without(s, j, Searches)
     /\ found # 0 /\ Fits(s[j].key, found, K)
  \/ /\ Without(s, j, Searches) /\ Without(s, j, Creations)
     /\ found = 0 /\ new # 0 /\ Fits(s[j].key, new, K)
Ready(s, E, K) ==
  \A j \in DOMAIN s : s[j].key \in E =>
    /\ s[j].op = "publish" => ReadyAt(s, j, K)
    /\ s[j].op = "setImpl" => "proxy" \in K

FitInv(E, K) ==
  /\ PublishedFits(E, K) /\ ConfiguredFits(E, K)
  /\ status # "idle" => task \in TasksRun(net)
  /\ status = "running" => Ready(script, E, K)

PublishedKinds(E, K) == E \subseteq Entries /\ K \subseteq {"plain", "proxy"}

LEMMA FitsOn ==
  ASSUME NEW K, PublishedKinds({}, K), Steady
  PROVE  \A e, a : Fits(e, a, K) => FitsNext(e, a, K)
<1> SUFFICES ASSUME NEW e, NEW a, Fits(e, a, K) PROVE FitsNext(e, a, K)
  OBVIOUS
<1>1. a \in 1..Len(chain) /\ chain[a].kind # "implementation"
  BY DEF Fits, PublishedKinds
<1>2. StaysAs(a) BY <1>1 DEF Steady
<1>3. a \in 1..Len(chain') BY <1>1 DEF Steady
<1> QED BY <1>1, <1>2, <1>3 DEF Fits, FitsNext, StaysAs

(* What an instruction does to the script's two variables.                 *)
Effect(i) ==
  /\ i.op \notin Creations => new' = new
  /\ i.op \notin Searches => found' = found
  /\ (i.op \in Creations /\ i.when = "always")
       => new' # 0 /\ FitsNext(i.key, new', {KindMade(i.op)})
  /\ (i.op = "findConfig" /\ i.when = "always")
       => found' = Config[net][i.key]

LEMMA ExecuteEffect ==
  ASSUME BookInv, NEW i \in Instruction, Accepts(i), Execute(i)
  PROVE  Effect(i)
<1> BookTypeOK BY DEF BookInv
<1> USE DEF Creations, Searches
<1>1. CASE Deploy(i)
  <2> DEFINE c == Created(i, IF i.op = "deploy" THEN "plain"
                             ELSE "implementation", 0, 0)
  <2>1. chain' = Append(chain, c) /\ new' = Len(chain) + 1
    BY <1>1 DEF Deploy
  <2>2. c.id = i.key /\ c.kind = KindMade(i.op)
    BY <1>1 DEF Deploy, Created, KindMade
  <2> HIDE DEF c
  <2>3. FitsNext(i.key, new', {KindMade(i.op)}) /\ new' # 0
    BY <2>1, <2>2 DEF BookTypeOK, FitsNext
  <2> QED BY <1>1, <2>3 DEF Deploy, Effect
<1>2. CASE DeployProxy(i)
  <2> DEFINE c == Created(i, "proxy", new,
                          IF i.by = "none" THEN 0 ELSE book[i.by])
  <2>1. chain' = Append(chain, c) /\ new' = Len(chain) + 1
    BY <1>2 DEF DeployProxy
  <2>2. c.id = i.key /\ c.kind = KindMade(i.op)
    BY <1>2 DEF DeployProxy, Created, KindMade
  <2> HIDE DEF c
  <2>3. FitsNext(i.key, new', {KindMade(i.op)}) /\ new' # 0
    BY <2>1, <2>2 DEF BookTypeOK, FitsNext
  <2> QED BY <1>2, <2>3 DEF DeployProxy, Effect
<1>3. CASE Find(i) BY <1>3 DEF Find, Effect
<1>4. ASSUME i.op \notin Creations, i.op \notin Searches,
             new' = new, found' = found
      PROVE  Effect(i)
  BY <1>4 DEF Effect
<1>5. CASE Note(i) \/ Save(i) \/ SaveImpl(i) \/ SetImpl(i) \/ Publish(i)
             \/ PublishConfig(i) \/ Recall(i) \/ SaveEntry(i) \/ Upgrade(i)
  BY <1>4, <1>5 DEF Note, Save, SaveImpl, SetImpl, Publish, PublishConfig,
                    Recall, SaveEntry, Upgrade
<1>6. CASE Initialize(i) \/ Fill(i) \/ Register(i) \/ CreateBNFT(i)
             \/ AddAsset(i) \/ Approve(i)
  BY <1>4, <1>6 DEF Initialize, Fill, Register, CreateBNFT, AddAsset, Approve
<1>7. CASE Admit(i) \/ Pause(i) \/ List(i) \/ Configure(i) \/ Enable(i)
             \/ Call(i)
  BY <1>4, <1>7 DEF Admit, Pause, List, Configure, Enable, Call, bookVars
<1> QED BY <1>1, <1>2, <1>3, <1>5, <1>6, <1>7 DEF Execute

(* Shortening a script by its first instruction.                           *)
LEMMA TailAt ==
  ASSUME NEW s \in Seq(Instruction), s # <<>>
  PROVE  /\ Tail(s) \in Seq(Instruction)
         /\ Head(s) \in Instruction /\ Head(s) = s[1]
         /\ \A j \in DOMAIN Tail(s) :
              j \in Nat \ {0} /\ j + 1 \in DOMAIN s /\ Tail(s)[j] = s[j + 1]
  OBVIOUS

LEMMA TailWithout ==
  ASSUME NEW s \in Seq(Instruction), s # <<>>, NEW ops,
         NEW j \in DOMAIN Tail(s), Without(s, j + 1, ops)
  PROVE  Head(s).op \notin ops /\ Without(Tail(s), j, ops)
<1>1. j \in Nat \ {0} /\ Len(Tail(s)) = Len(s) - 1 /\ j \in 1..Len(Tail(s))
  OBVIOUS
<1>2. \A k \in 1..j : s[k].op \notin ops BY <1>1 DEF Without
<1>3. s[1].op \notin ops BY <1>1, <1>2
<1>4. \A k \in 1..(j - 1) : Tail(s)[k] = s[k + 1] /\ k + 1 \in 1..j
  BY <1>1
<1> QED BY <1>2, <1>3, <1>4 DEF Without

(* The last creation or search before the j-th instruction.                *)
LEMMA TailLast ==
  ASSUME NEW s \in Seq(Instruction), s # <<>>, NEW ops,
         NEW j \in DOMAIN Tail(s), NEW c \in 1..j,
         \A k \in (c + 1)..j : s[k].op \notin ops
  PROVE  \/ /\ c = 1 /\ Without(Tail(s), j, ops)
         \/ /\ c - 1 \in 1..(j - 1) /\ Tail(s)[c - 1] = s[c]
            /\ \A k \in ((c - 1) + 1)..(j - 1) : Tail(s)[k].op \notin ops
<1>1. j \in Nat \ {0} /\ Len(Tail(s)) = Len(s) - 1 /\ j \in 1..Len(Tail(s))
  OBVIOUS
<1>2. \A k \in 1..(j - 1) : Tail(s)[k] = s[k + 1] BY <1>1
<1>3. CASE c = 1
  <2>1. \A k \in 1..(j - 1) : k + 1 \in (c + 1)..j BY <1>1, <1>3
  <2> QED BY <1>2, <1>3, <2>1 DEF Without
<1>4. CASE c # 1
  <2>1. c - 1 \in 1..(j - 1) /\ (c - 1) + 1 = c BY <1>1, <1>4
  <2>2. \A k \in c..(j - 1) : k \in 1..(j - 1) /\ k + 1 \in (c + 1)..j
    BY <1>1
  <2> QED BY <1>2, <2>1, <2>2
<1> QED BY <1>3, <1>4

(* A script that was ready to publish is ready after its next instruction. *)
LEMMA ReadyAdvances ==
  ASSUME BookTypeOK, NEW K, PublishedKinds({}, K),
         NEW s \in Seq(Instruction), s # <<>>,
         net' = net, Steady, Effect(Head(s)),
         NEW j \in DOMAIN Tail(s), ReadyAt(s, j + 1, K),
         Config[net][s[j + 1].key] # 0 =>
           Fits(s[j + 1].key, Config[net][s[j + 1].key], K)
  PROVE  /\ MadeHere(Tail(s), j, K) /\ found' = 0
         \/ FoundInConfig(net, Tail(s), j)
         \/ /\ Without(Tail(s), j, Searches)
            /\ found' # 0 /\ FitsNext(Tail(s)[j].key, found', K)
         \/ /\ Without(Tail(s), j, Searches) /\ Without(Tail(s), j, Creations)
            /\ found' = 0 /\ new' # 0 /\ FitsNext(Tail(s)[j].key, new', K)
<1> DEFINE i == Head(s)
           r == Tail(s)
<1>1. /\ i = s[1] /\ r \in Seq(Instruction)
      /\ j \in Nat \ {0} /\ r[j] = s[j + 1] /\ (j + 1) - 1 = j
  BY TailAt
<1>2. CASE found = 0 /\ MadeHere(s, j + 1, K)
  <2>1. Without(s, j + 1, Searches) BY <1>2 DEF MadeHere, Without
  <2>2. found' = 0 /\ Without(r, j, Searches)
    BY <1>2, <2>1, TailWithout DEF Effect
  <2>3. PICK c \in 1..j :
          /\ s[c].op \in Creations /\ KindMade(s[c].op) \in K
          /\ s[c].key = s[j + 1].key /\ s[c].when = "always"
          /\ \A k \in (c + 1)..j : s[k].op \notin Creations
    BY <1>1, <1>2 DEF MadeHere
  <2>4. CASE c = 1 /\ Without(r, j, Creations)
    <3>1. new' # 0 /\ FitsNext(r[j].key, new', {KindMade(i.op)})
      BY <1>1, <2>3, <2>4 DEF Effect
    <3> QED BY <1>1, <2>2, <2>3, <2>4, <3>1 DEF FitsNext
  <2>5. CASE /\ c - 1 \in 1..(j - 1) /\ r[c - 1] = s[c]
             /\ \A k \in ((c - 1) + 1)..(j - 1) : r[k].op \notin Creations
    <3>1. MadeHere(r, j, K)
      BY <1>1, <2>2, <2>3, <2>5 DEF MadeHere, Without
    <3> QED BY <2>2, <3>1
  <2> QED BY <2>3, <2>4, <2>5, TailLast
<1>3. CASE FoundInConfig(net, s, j + 1)
  <2>1. PICK f \in 1..j :
          /\ s[f].op = "findConfig" /\ s[f].when = "always"
          /\ s[f].key = s[j + 1].key /\ Config[net][s[j + 1].key] # 0
          /\ \A k \in (f + 1)..j : s[k].op \notin Searches
    BY <1>1, <1>3 DEF FoundInConfig
  <2>2. CASE f = 1 /\ Without(r, j, Searches)
    <3>1. found' = Config[net][s[j + 1].key]
      BY <1>1, <2>1, <2>2 DEF Effect
    <3>2. FitsNext(r[j].key, found', K)
      BY <1>1, <2>1, <3>1, FitsOn
    <3> QED BY <2>1, <2>2, <3>1, <3>2
  <2>3. CASE /\ f - 1 \in 1..(j - 1) /\ r[f - 1] = s[f]
             /\ \A k \in ((f - 1) + 1)..(j - 1) : r[k].op \notin Searches
    <3>1. FoundInConfig(net, r, j)
      BY <1>1, <2>1, <2>3 DEF FoundInConfig
    <3> QED BY <3>1
  <2> QED BY <2>1, <2>2, <2>3, TailLast
<1>4. CASE /\ Without(s, j + 1, Searches)
           /\ found # 0 /\ Fits(s[j + 1].key, found, K)
  <2>1. found' = found /\ Without(r, j, Searches)
    BY <1>4, TailWithout DEF Effect
  <2> QED BY <1>1, <1>4, <2>1, FitsOn
<1>5. CASE /\ Without(s, j + 1, Searches) /\ Without(s, j + 1, Creations)
           /\ found = 0 /\ new # 0 /\ Fits(s[j + 1].key, new, K)
  <2>1. found' = found /\ Without(r, j, Searches)
    BY <1>5, TailWithout DEF Effect
  <2>2. new' = new /\ Without(r, j, Creations)
    BY <1>5, TailWithout DEF Effect
  <2> QED BY <1>1, <1>5, <2>1, <2>2, FitsOn
<1> QED BY <1>2, <1>3, <1>4, <1>5 DEF ReadyAt

LEMMA ScriptAdvances ==
  ASSUME BookTypeOK, NEW E, NEW K, PublishedKinds(E, K),
         script \in Seq(Instruction), script # <<>>, script' = Tail(script),
         net' = net, Steady, Effect(Statement),
         Ready(script, E, K), ConfiguredFits(E, K)
  PROVE  Ready(script, E, K)'
<1> SUFFICES ASSUME NEW j \in DOMAIN script', script'[j].key \in E
             PROVE  /\ script'[j].op = "publish" => ReadyAt(script, j, K)'
                    /\ script'[j].op = "setImpl" => "proxy" \in K
  BY DEF Ready
<1>1. j + 1 \in DOMAIN script /\ script'[j] = script[j + 1]
  BY TailAt
<1>2. PublishedKinds({}, K) BY DEF PublishedKinds
<1>3. ASSUME script'[j].op = "publish" PROVE ReadyAt(script, j, K)'
  <2>1. ReadyAt(script, j + 1, K) BY <1>1, <1>3 DEF Ready
  <2>2. Config[net][script[j + 1].key] # 0 =>
          Fits(script[j + 1].key, Config[net][script[j + 1].key], K)
    BY <1>1 DEF ConfiguredFits
  <2>3. Effect(Head(script)) BY DEF Statement
  <2>4. \/ MadeHere(script', j, K) /\ found' = 0
        \/ FoundInConfig(net, script', j)
        \/ /\ Without(script', j, Searches)
           /\ found' # 0 /\ FitsNext(script'[j].key, found', K)
        \/ /\ Without(script', j, Searches) /\ Without(script', j, Creations)
           /\ found' = 0 /\ new' # 0 /\ FitsNext(script'[j].key, new', K)
    BY <1>2, <2>1, <2>2, <2>3, ReadyAdvances
  <2> QED BY <2>4 DEF ReadyAt, Fits, FitsNext
<1> QED BY <1>1, <1>3 DEF Ready

(* At its turn, the contract a script publishes is what the entry says.    *)
LEMMA ReadyNow ==
  ASSUME NEW E, NEW K, script \in Seq(Instruction), script # <<>>,
         Ready(script, E, K), Statement.key \in E, Statement.op = "publish"
  PROVE  Fits(Statement.key, Target, K)
<1>1. 1 \in DOMAIN script /\ Statement = script[1]
  BY DEF Statement
<1>2. ReadyAt(script, 1, K) BY <1>1 DEF Ready
<1>3. ~MadeHere(script, 1, K) /\ ~FoundInConfig(net, script, 1)
  BY DEF MadeHere, FoundInConfig
<1> QED BY <1>1, <1>2, <1>3 DEF ReadyAt, Target

-----------------------------------------------------------------------------
(* What a setter of the provider leaves alone.                             *)
OnlyEntry(k, a) ==
  /\ DOMAIN market' = DOMAIN market
  /\ \A p \in DOMAIN market : \A e \in Entries :
       market'[p].entry[e] # market[p].entry[e]
         => e = k /\ market'[p].entry[e] = a

LEMMA SetOnly ==
  ASSUME BookTypeOK, NEW k, NEW a, SetEntry(k, a)
  PROVE  OnlyEntry(k, a)
<1>1. DOMAIN market' = DOMAIN market BY DEF SetEntry
<1>2. ASSUME NEW p \in DOMAIN market, NEW e \in Entries,
             market'[p].entry[e] # market[p].entry[e]
      PROVE  e = k /\ market'[p].entry[e] = a
  <2>1. market[p] \in Market BY DEF BookTypeOK
  <2>2. CASE p # Provider
    BY <1>2, <2>1, <2>2 DEF SetEntry
  <2>3. CASE p = Provider
    <3>1. market'[p] = [market[p] EXCEPT !.entry = [@ EXCEPT ![k] = a]]
      BY <2>3 DEF SetEntry
    <3> QED BY <1>2, <2>1, <3>1 DEF Market
  <2> QED BY <2>2, <2>3
<1> QED BY <1>1, <1>2 DEF OnlyEntry

(* An instruction that sets no entry leaves all of them alone; a market    *)
(* it creates has none.                                                    *)
EntriesLeft ==
  /\ DOMAIN market \subseteq DOMAIN market'
  /\ \A p \in DOMAIN market' : \A e \in Entries :
       IF p \in DOMAIN market THEN market'[p].entry[e] = market[p].entry[e]
                              ELSE market'[p].entry[e] = 0

LEMMA EntriesUnset ==
  ASSUME BookTypeOK, NEW i, Execute(i),
         ~SetImpl(i), ~Publish(i), ~PublishConfig(i)
  PROVE  EntriesLeft
<1>1. CASE market' = market BY <1>1 DEF EntriesLeft
<1>2. CASE Deploy(i)
  <2>1. \A e \in Entries : NewMarket.entry[e] = 0 BY DEF NewMarket
  <2> QED BY <1>2, <2>1 DEF Deploy, EntriesLeft
<1>3. ASSUME DOMAIN market' = DOMAIN market,
             \A p \in DOMAIN market : market'[p].entry = market[p].entry
      PROVE  EntriesLeft
  BY <1>3 DEF EntriesLeft
<1>4. \A p \in DOMAIN market : market[p] \in Market BY DEF BookTypeOK
<1>5. CASE Admit(i)
  <2>1. market' = [market EXCEPT ![Provider] = [market[Provider] EXCEPT
                     !.roles = market[Provider].roles \cup ({i.key} \cap Roles)]]
    BY <1>5 DEF Admit
  <2> QED BY <1>3, <1>4, <2>1 DEF Market
<1>6. CASE Pause(i)
  <2>1. market' = [p \in DOMAIN market |-> IF p \in PoolMarkets
          THEN [market[p] EXCEPT !.paused = (i.op = "pause")] ELSE market[p]]
    BY <1>6 DEF Pause, AtPool
  <2> QED BY <1>3, <1>4, <2>1 DEF Market
<1>7. CASE List(i)
  <2>1. market' = [p \in DOMAIN market |-> IF p \in PoolMarkets
          THEN [market[p] EXCEPT !.listed = market[p].listed \cup Assets(i)]
          ELSE market[p]]
    BY <1>7 DEF List, AtPool
  <2> QED BY <1>3, <1>4, <2>1 DEF Market
<1>8. CASE Configure(i)
  <2>1. market' = [p \in DOMAIN market |-> IF p \in PoolMarkets
          THEN [market[p] EXCEPT !.configured =
                                   market[p].configured \cup Assets(i)]
          ELSE market[p]]
    BY <1>8 DEF Configure, AtPool
  <2> QED BY <1>3, <1>4, <2>1 DEF Market
<1>9. CASE Enable(i)
  <2>1. market' = [p \in DOMAIN market |-> IF p \in PoolMarkets
          THEN [market[p] EXCEPT !.borrowable =
                                   market[p].borrowable \cup Assets(i)]
          ELSE market[p]]
    BY <1>9 DEF Enable, AtPool
  <2> QED BY <1>3, <1>4, <2>1 DEF Market
<1>10. DeployProxy(i) \/ Note(i) \/ Save(i) \/ SaveImpl(i) \/ Find(i)
         \/ Recall(i) \/ SaveEntry(i) \/ Upgrade(i) \/ Initialize(i) \/ Fill(i)
         \/ Register(i) \/ CreateBNFT(i) \/ AddAsset(i) \/ Approve(i) \/ Call(i)
         => market' = market
  BY DEF DeployProxy, Note, Save, SaveImpl, Find, Recall, SaveEntry, Upgrade,
         Initialize, Fill, Register, CreateBNFT, AddAsset, Approve, Call, bookVars
<1> QED BY <1>1, <1>2, <1>5, <1>6, <1>7, <1>8, <1>9, <1>10 DEF Execute

(* Entries that fitted still fit when none is set, or the one set fits.    *)
LEMMA FittedKept ==
  ASSUME NEW E, NEW K, PublishedKinds(E, K), PublishedFits(E, K), Steady,
         \A p \in DOMAIN market' : \A e \in E :
           \/ market'[p].entry[e] = 0
           \/ p \in DOMAIN market /\ market'[p].entry[e] = market[p].entry[e]
           \/ FitsNext(e, market'[p].entry[e], K)
  PROVE  PublishedFits(E, K)'
<1>1. PublishedKinds({}, K) BY DEF PublishedKinds
<1>2. ASSUME NEW p \in DOMAIN market', NEW e \in E, market'[p].entry[e] # 0
      PROVE  FitsNext(e, market'[p].entry[e], K)
  BY <1>1, <1>2, FitsOn DEF PublishedFits
<1> QED BY <1>2 DEF PublishedFits, Fits, FitsNext

LEMMA ConfiguredKept ==
  ASSUME NEW E, NEW K, PublishedKinds(E, K), ConfiguredFits(E, K), Steady,
         net' = net
  PROVE  ConfiguredFits(E, K)'
<1>1. PublishedKinds({}, K) BY DEF PublishedKinds
<1> QED BY <1>1, FitsOn DEF ConfiguredFits, Fits, FitsNext

LEMMA StepFits ==
  ASSUME BookInv, NEW E, NEW K, PublishedKinds(E, K), FitInv(E, K),
         script \in Seq(Instruction), Running, Accepts(Statement),
         Execute(Statement), Steady
  PROVE  PublishedFits(E, K)'
<1> DEFINE i == Statement
<1> BookTypeOK /\ PublishedFits(E, K) BY DEF BookInv, FitInv
<1>0. i \in Instruction /\ Ready(script, E, K) /\ E \subseteq Entries
  BY DEF Running, Statement, FitInv, PublishedKinds
<1>1. PublishedKinds({}, K) BY DEF PublishedKinds
<1>2. CASE Publish(i)
  <2>1. OnlyEntry(i.key, Target) BY <1>2, SetOnly DEF Publish
  <2>2. i.key \in E => FitsNext(i.key, Target, K)
    BY <1>0, <1>1, <1>2, ReadyNow, FitsOn DEF Publish, Running
  <2> QED BY <1>0, <2>1, <2>2, FittedKept DEF OnlyEntry
<1>3. CASE PublishConfig(i)
  <2> DEFINE a == Config[net][i.key]
  <2>1. OnlyEntry(i.key, a) BY <1>3, SetOnly DEF PublishConfig
  <2>2. a # 0 BY <1>3 DEF PublishConfig, Accepts
  <2>3. i.key \in E => FitsNext(i.key, a, K)
    BY <1>1, <2>2, FitsOn DEF FitInv, ConfiguredFits
  <2> HIDE DEF a
  <2> QED BY <1>0, <2>1, <2>3, FittedKept DEF OnlyEntry
<1>4. CASE SetImpl(i) /\ Entry(i.key) = 0
  <2> DEFINE a == Len(chain) + 1
  <2>1. SetEntry(i.key, a) BY <1>4 DEF SetImpl
  <2>2. OnlyEntry(i.key, a) BY <2>1, SetOnly
  <2>3. i.key \in E => "proxy" \in K
    BY <1>0, <1>4 DEF Ready, SetImpl, Running, Statement
  <2>4. a \in 1..Len(chain') /\ chain'[a].id = i.key /\ chain'[a].kind = "proxy"
    BY <1>4 DEF SetImpl, BookTypeOK
  <2>5. i.key \in E => FitsNext(i.key, a, K)
    BY <2>3, <2>4 DEF FitsNext
  <2> HIDE DEF a
  <2> QED BY <1>0, <2>2, <2>5, FittedKept DEF OnlyEntry
<1>5. CASE SetImpl(i) /\ Entry(i.key) # 0
  <2>1. market' = market BY <1>5 DEF SetImpl
  <2> QED BY <2>1, FittedKept
<1>6. CASE ~SetImpl(i) /\ ~Publish(i) /\ ~PublishConfig(i)
  <2>1. EntriesLeft BY <1>6, EntriesUnset
  <2> QED BY <1>0, <2>1, FittedKept DEF EntriesLeft
<1> QED BY <1>2, <1>3, <1>4, <1>5, <1>6

-----------------------------------------------------------------------------
(* A script that is started has nothing deployed, nothing found, and is    *)
(* one of those read.                                                      *)
LEMMA BeginReady ==
  ASSUME NEW E, NEW K, NEW t \in TasksRun(net), Disciplined(net, E, K), Begin(t)
  PROVE  Ready(script, E, K)'
<1>1. found' = 0 /\ net' = net /\ script' = Program[net][t] BY DEF Begin
<1>2. PublishesOwn(net, Program[net][t], E, K) BY DEF Disciplined
<1> QED BY <1>1, <1>2 DEF Ready, ReadyAt, PublishesOwn

LEMMA InitFit ==
  ASSUME NEW E, NEW K, PublishedKinds(E, K),
         \A n \in Nets : Disciplined(n, E, K), Init
  PROVE  FitInv(E, K)
<1>1. net \in Nets /\ chain = Genesis[net] /\ DOMAIN market = {}
  BY DEF Init, BookInit
<1>2. status = "idle" BY DEF Init
<1>3. \A e \in E : Config[net][e] # 0 => Config[net][e] \in 1..Len(Genesis[net])
  BY <1>1, BookAssumption DEF PublishedKinds
<1>4. ConfiguredFits(E, K)
  BY <1>1, <1>3 DEF ConfiguredFits, Disciplined, ConfigFits, Fits
<1> QED BY <1>1, <1>2, <1>4 DEF FitInv, PublishedFits

LEMMA StillFits ==
  ASSUME BookTypeOK, NEW E, NEW K, PublishedKinds(E, K), FitInv(E, K),
         UNCHANGED <<net, market>>, Steady
  PROVE  PublishedFits(E, K)' /\ ConfiguredFits(E, K)'
<1>1. PublishedFits(E, K) /\ ConfiguredFits(E, K) BY DEF FitInv
<1>2. PublishedFits(E, K)' BY <1>1, FittedKept
<1> QED BY <1>1, <1>2, ConfiguredKept

LEMMA NextFit ==
  ASSUME NEW E, NEW K, PublishedKinds(E, K),
         \A n \in Nets : Disciplined(n, E, K),
         IInv, FitInv(E, K), [Next]_vars
  PROVE  FitInv(E, K)'
<1> BookInv /\ RunTypeOK /\ BookTypeOK BY DEF IInv, BookInv
<1>n. /\ Disciplined(net, E, K)
      /\ \A j \in 1..Len(Migration[net]) : Migration[net][j] \in TasksRun(net)
      /\ Len(Migration[net]) \in Nat /\ Len(Migration[net]) >= 1
      /\ Upkeep[net] \subseteq TasksRun(net)
  BY DeploymentAssumption DEF BookTypeOK, TasksRun
<1>b. ASSUME NEW t \in TasksRun(net), Begin(t) PROVE FitInv(E, K)'
  <2>1. UNCHANGED <<net, market, chain>> /\ task' = t
    BY <1>b DEF Begin
  <2>2. PublishedFits(E, K)' /\ ConfiguredFits(E, K)'
    BY <2>1, SteadyUnchanged, StillFits
  <2>3. Ready(script, E, K)' BY <1>b, <1>n, BeginReady
  <2>4. TasksRun(net)' = TasksRun(net) BY <2>1
  <2> QED BY <2>1, <2>2, <2>3, <2>4 DEF FitInv
<1>1. CASE StartTask
  <2>1. todo \in 1..Len(Migration[net])
    BY <1>1, <1>n DEF StartTask, Finished, RunTypeOK
  <2> QED BY <1>1, <1>b, <1>n, <2>1 DEF StartTask
<1>2. CASE Step
  <2>1. script \in Seq(Instruction) /\ Statement \in Instruction /\ net' = net
    BY <1>2 DEF Step, Running, Statement, RunTypeOK, Execute
  <2>2. Steady /\ Effect(Statement)
    BY <1>2, <2>1, ExecuteSteady, ExecuteEffect DEF Step
  <2>3. PublishedFits(E, K)' BY <1>2, <2>1, <2>2, StepFits DEF Step
  <2>4. ConfiguredFits(E, K)' BY <2>1, <2>2, ConfiguredKept DEF FitInv
  <2>5. Ready(script, E, K)'
    BY <1>2, <2>1, <2>2, ScriptAdvances DEF Step, Running, FitInv
  <2> QED BY <1>2, <2>1, <2>3, <2>4, <2>5 DEF Step, FitInv, Running
<1>3. CASE Skip
  <2>1. script \in Seq(Instruction) /\ Statement \in Instruction
    BY <1>3 DEF Skip, Running, Statement, RunTypeOK
  <2>2. UNCHANGED bookVars /\ UNCHANGED <<net, market, chain, new, found>>
    BY <1>3 DEF Skip, bookVars
  <2>3. Steady BY <2>2, SteadyUnchanged
  <2>4. Effect(Statement)
    BY <1>3, <2>2 DEF Skip, Applies, Effect
  <2>5. PublishedFits(E, K)' /\ ConfiguredFits(E, K)'
    BY <2>2, <2>3, StillFits
  <2>6. Ready(script, E, K)'
    BY <1>3, <2>1, <2>2, <2>3, <2>4, ScriptAdvances DEF Skip, Running, FitInv
  <2> QED BY <1>3, <2>2, <2>5, <2>6 DEF Skip, FitInv, Running
<1>4. CASE Abort \/ Finish
  <2>1. UNCHANGED <<net, market, chain, task>> /\ status' \in {"aborted", "idle"}
        /\ status # "idle"
    BY <1>4 DEF Abort, Finish, bookVars, Running
  <2>2. PublishedFits(E, K)' /\ ConfiguredFits(E, K)'
    BY <2>1, SteadyUnchanged, StillFits
  <2> QED BY <2>1, <2>2 DEF FitInv
<1>5. CASE Crash
  <2>1. UNCHANGED <<net, market, task>> /\ status' = "crashed" /\ status # "idle"
    BY <1>5 DEF Crash
  <2>2. Steady
    <3>1. CASE chain' = chain BY <3>1, SteadyUnchanged
    <3>2. CASE new # 0 /\ chain' = [chain EXCEPT ![new].mined = TRUE]
      <4>1. new \in 1..Len(chain) BY <3>2 DEF BookTypeOK
      <4> QED BY <3>2, <4>1, SteadyMined
    <3> QED BY <1>5, <3>1, <3>2 DEF Crash
  <2>3. PublishedFits(E, K)' /\ ConfiguredFits(E, K)'
    BY <2>1, <2>2, StillFits
  <2> QED BY <2>1, <2>3 DEF FitInv
<1>6. CASE Retry
  BY <1>6, <1>b DEF Retry, FitInv
<1>7. CASE Redeploy
  BY <1>7, <1>b, <1>n DEF Redeploy
<1>8. ASSUME NEW t \in Upkeep[net], StartUpkeep(t) PROVE FitInv(E, K)'
  BY <1>8, <1>b, <1>n DEF StartUpkeep
<1>9. CASE UNCHANGED vars
  <2>1. UNCHANGED <<net, market, chain, task, status, script, new, found>>
    BY <1>9 DEF vars, bookVars, runVars
  <2>2. PublishedFits(E, K)' /\ ConfiguredFits(E, K)'
    BY <2>1, SteadyUnchanged, StillFits
  <2>3. Target' = Target BY <2>1 DEF Target
  <2>4. Ready(script, E, K) => Ready(script, E, K)'
    BY <2>1 DEF Ready, ReadyAt, Fits
  <2> QED BY <2>1, <2>2, <2>4 DEF FitInv
<1> QED BY <1>1, <1>2, <1>3, <1>4, <1>5, <1>6, <1>7, <1>8, <1>9
        DEF Next, ScriptStep, Operator

(* What a provider publishes under an id is a contract of that id, and     *)
(* never an implementation nobody initialised, if every script publishes   *)
(* what it made or what the configuration names: wherever the scripts are  *)
(* interrupted and in whatever order they are run.                         *)
THEOREM PublishedIsInitialisedCorrect ==
  ASSUME \A n \in Nets : Disciplined(n, Entries, {"plain", "proxy"})
  PROVE  Spec => []PublishedIsInitialised
<1> DEFINE Fit == FitInv(Entries, {"plain", "proxy"})
<1>1. PublishedKinds(Entries, {"plain", "proxy"}) BY DEF PublishedKinds
<1>2. Init => Fit BY <1>1, InitFit
<1>3. IInv /\ Fit /\ [Next]_vars => Fit' BY <1>1, NextFit
<1>4. Fit => PublishedIsInitialised
  BY DEF FitInv, PublishedFits, Fits, PublishedIsInitialised
<1> HIDE DEF Fit
<1> QED BY <1>2, <1>3, <1>4, DeploymentInvariant, PTL DEF Spec

-----------------------------------------------------------------------------
(* On a finished market only maintenance runs, and it publishes the        *)
(* entries V alone.                                                        *)
UpkeepScript(V) ==
  /\ (Finished /\ status # "idle") => task \in Upkeep[net]
  /\ (Finished /\ status = "running") =>
       \A j \in DOMAIN script :
         /\ script[j].op # "publishConfig"
         /\ script[j].op = "publish" => script[j].key \in V

LEMMA NextUpkeep ==
  ASSUME NEW V, \A n \in Nets : UpkeepReplaces(n, V),
         IInv, UpkeepScript(V), [Next]_vars
  PROVE  UpkeepScript(V)'
<1> BookInv /\ RunTypeOK /\ BookTypeOK BY DEF IInv, BookInv
<1>n. net' = net
  BY DEF Next, ScriptStep, Operator, StartTask, Step, Skip, Abort, Finish,
         Crash, Retry, Redeploy, StartUpkeep, Begin, Execute, vars, bookVars
<1>r. UpkeepReplaces(net, V) BY DEF BookTypeOK
<1>l. Len(Migration[net]) \in Nat /\ Len(Migration[net]) >= 1 /\ todo \in Nat
  BY DeploymentAssumption DEF BookTypeOK, RunTypeOK
<1>b. ASSUME NEW t \in Upkeep[net], Begin(t) PROVE UpkeepScript(V)'
  BY <1>b, <1>n, <1>r DEF Begin, UpkeepScript, UpkeepReplaces
<1>1. CASE StartTask
  BY <1>1, <1>n DEF StartTask, Begin, Finished, UpkeepScript
<1>2. CASE Step \/ Skip
  <2>1. /\ script \in Seq(Instruction) /\ script # <<>> /\ status = "running"
        /\ script' = Tail(script) /\ UNCHANGED <<todo, task, status>>
    BY <1>2 DEF Step, Skip, Running, RunTypeOK
  <2>2. Finished' = Finished BY <1>n, <2>1 DEF Finished
  <2>3. \A j \in DOMAIN script' : j + 1 \in DOMAIN script
                                  /\ script'[j] = script[j + 1]
    BY <2>1, TailAt
  <2> QED BY <1>n, <2>1, <2>2, <2>3 DEF UpkeepScript
<1>3. CASE Abort
  BY <1>3, <1>n DEF Abort, UpkeepScript, Finished, Running
<1>4. CASE Finish
  BY <1>4, <1>n DEF Finish, UpkeepScript
<1>5. CASE Crash
  BY <1>5, <1>n DEF Crash, UpkeepScript, Finished
<1>6. CASE Retry
  <2>1. Finished' = Finished BY <1>6, <1>n DEF Retry, Finished
  <2>2. CASE Finished
    BY <1>6, <1>b, <2>2 DEF Retry, UpkeepScript
  <2>3. CASE ~Finished
    BY <2>1, <2>3 DEF UpkeepScript
  <2> QED BY <2>2, <2>3
<1>7. CASE Redeploy
  <2>1. ~Finished' BY <1>7, <1>n, <1>l DEF Redeploy, Finished
  <2> QED BY <2>1 DEF UpkeepScript
<1>8. ASSUME NEW t \in Upkeep[net], StartUpkeep(t) PROVE UpkeepScript(V)'
  BY <1>8, <1>b DEF StartUpkeep
<1>9. CASE UNCHANGED vars
  BY <1>9 DEF vars, bookVars, runVars, UpkeepScript, Finished
<1> QED BY <1>1, <1>2, <1>3, <1>4, <1>5, <1>6, <1>7, <1>8, <1>9
        DEF Next, ScriptStep, Operator

LEMMA InitUpkeep == ASSUME NEW V, Init PROVE UpkeepScript(V)
  BY DEF Init, UpkeepScript

ProxiesStay ==
  \A p \in DOMAIN market : \A e \in Entries :
    (Finished /\ IsProxy(market[p].entry[e]))
      => market'[p].entry[e] = market[p].entry[e]

LEMMA ProxiesStayStep ==
  ASSUME NEW V, PublishedKinds(V, {"plain"}), IInv, FitInv(V, {"plain"}),
         UpkeepScript(V), [Next]_vars
  PROVE  ProxiesStay
<1> BookInv /\ RunTypeOK /\ BookTypeOK BY DEF IInv, BookInv
<1>1. CASE market' = market BY <1>1 DEF ProxiesStay
<1>2. CASE Step
  <2> DEFINE i == Statement
  <2>0. Execute(i) /\ Accepts(i) /\ status = "running" BY <1>2 DEF Step, Running
  <2>1. i = script[1] /\ 1 \in DOMAIN script
    BY <1>2 DEF Step, Running, Statement, RunTypeOK
  <2>2. CASE ~SetImpl(i) /\ ~Publish(i) /\ ~PublishConfig(i)
    <3>1. EntriesLeft BY <2>0, <2>2, EntriesUnset
    <3> QED BY <3>1 DEF EntriesLeft, ProxiesStay
  <2>3. CASE PublishConfig(i)
    <3>1. ~Finished BY <2>0, <2>1, <2>3 DEF PublishConfig, UpkeepScript
    <3> QED BY <3>1 DEF ProxiesStay
  <2>4. CASE Publish(i)
    <3>1. Finished => i.key \in V
      BY <2>0, <2>1, <2>4 DEF Publish, UpkeepScript
    <3>2. OnlyEntry(i.key, Target) BY <2>4, SetOnly DEF Publish
    <3>3. \A p \in DOMAIN market :
            i.key \in V => ~IsProxy(market[p].entry[i.key])
      BY DEF FitInv, PublishedFits, Fits, IsProxy, Mined
    <3> QED BY <3>1, <3>2, <3>3 DEF OnlyEntry, ProxiesStay
  <2>5. CASE SetImpl(i) /\ Entry(i.key) = 0
    <3>1. OnlyEntry(i.key, Len(chain) + 1) BY <2>5, SetOnly DEF SetImpl
    <3>2. Provider \in DOMAIN market /\ market[Provider].entry[i.key] = 0
      BY <2>0, <2>5 DEF Accepts, SetImpl, Entry
    <3>3. \A p \in DOMAIN market : p # Provider => market'[p] = market[p]
      BY <2>5 DEF SetImpl, SetEntry
    <3>4. ~IsProxy(0) BY DEF IsProxy, Mined
    <3> QED BY <3>1, <3>2, <3>3, <3>4 DEF OnlyEntry, ProxiesStay
  <2>6. CASE SetImpl(i) /\ Entry(i.key) # 0
    BY <2>6 DEF SetImpl, ProxiesStay
  <2> QED BY <2>2, <2>3, <2>4, <2>5, <2>6
<1>3. ~Step => market' = market
  BY DEF Next, ScriptStep, Operator, StartTask, Skip, Abort, Finish, Crash,
         Retry, Redeploy, StartUpkeep, Begin, vars, bookVars
<1> QED BY <1>1, <1>2, <1>3

(* Maintenance never replaces a proxy a finished market publishes, if it   *)
(* publishes the view contracts V only, and those are never proxies.       *)
THEOREM PublishedProxiesStayCorrect ==
  ASSUME NEW V \in SUBSET Entries,
         \A n \in Nets : Disciplined(n, V, {"plain"}) /\ UpkeepReplaces(n, V)
  PROVE  Spec => PublishedProxiesStay
<1> DEFINE Fit == FitInv(V, {"plain"})
           Maintained == UpkeepScript(V)
<1>1. PublishedKinds(V, {"plain"}) BY DEF PublishedKinds
<1>2. Init => Fit /\ Maintained BY <1>1, InitFit, InitUpkeep
<1>3. IInv /\ Fit /\ [Next]_vars => Fit' BY <1>1, NextFit
<1>4. IInv /\ Maintained /\ [Next]_vars => Maintained' BY NextUpkeep
<1>5. IInv /\ Fit /\ Maintained /\ [Next]_vars => [ProxiesStay]_vars
  BY <1>1, ProxiesStayStep
<1>6. Spec => [](IInv /\ Fit /\ Maintained)
  <2> HIDE DEF Fit, Maintained
  <2> QED BY <1>2, <1>3, <1>4, DeploymentInvariant, PTL DEF Spec
<1>7. Spec => [][ProxiesStay]_vars
  <2> HIDE DEF Fit, Maintained
  <2> QED BY <1>5, <1>6, PTL DEF Spec
<1> QED BY <1>7 DEF PublishedProxiesStay, ProxiesStay
=============================================================================
