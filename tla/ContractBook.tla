---------------------------- MODULE ContractBook ----------------------------
(***************************************************************************)
(* The chain as the deployment scripts see it, and the JSON book they keep *)
(* of it.                                                                  *)
(*                                                                         *)
(* A script is a sequence of instructions (DeployScripts).  Most of them   *)
(* send a transaction and wait for it; some only write the book, which is  *)
(* the one thing a later script knows of an earlier one.  An address is an *)
(* index into `chain`, 0 the zero address.  This module says what each     *)
(* kind of instruction does to the chain, the book and the market's        *)
(* addresses provider, and when it throws or reverts instead; Deployment   *)
(* runs the scripts.                                                       *)
(***************************************************************************)
EXTENDS Naturals, Sequences

CONSTANTS
  Nets,      \* the networks of the market configuration
  Keys,      \* contract ids: the keys of the book (eContractid, symbols)
  Entries,   \* the ids the addresses provider publishes an address for
  Genesis,   \* what is on the chain of a network before the first script
  Config     \* the address the market configuration gives for a key, or 0

(* What the model keeps of a contract: the id it was deployed as, the      *)
(* implementation and the admin of a proxy, the addresses its constructor, *)
(* its initialiser or the linker fixed in it (`uses`) and those its        *)
(* setters added: an oracle's assets, a gateway's approvals, a registry's  *)
(* providers (`holds`).                                                    *)
Kinds == {"plain", "implementation", "proxy"}
Contract == [id: Keys, kind: Kinds, code: Nat, admin: Nat, mined: BOOLEAN,
             uses: SUBSET Nat, holds: SUBSET Nat]

Roles == {"PoolAdmin", "EmergencyAdmin"}
Market == [entry: [Entries -> Nat], roles: SUBSET Roles, paused: BOOLEAN,
           listed: SUBSET Nat, configured: SUBSET Nat, borrowable: SUBSET Nat]

Ops == {"deploy", "implementation", "proxy", "note", "save", "saveImpl",
        "setImpl", "saveEntry", "publish", "publishConfig", "find",
        "findConfig", "findEntry", "given", "recall", "upgrade", "initialize",
        "fill", "register", "createBNFT", "admit", "pause", "unpause", "list",
        "configure", "enable", "addAsset", "approveNFT", "approveERC20",
        "call"}
EntryOps == {"setImpl", "publish", "publishConfig", "saveEntry", "findEntry"}
Instruction ==
  {i \in [op: Ops, key: Keys, uses: SUBSET Keys, reads: SUBSET Entries,
          assets: SUBSET Keys, by: Keys \cup {"none"},
          when: {"always", "found", "fresh"}] :
     i.op \in EntryOps => i.key \in Entries}

ProviderKey == "LendPoolAddressesProvider"
ConfiguratorKey == "LendPoolConfigurator"

ASSUME BookAssumption ==
  /\ Entries \subseteq Keys
  /\ ProviderKey \in Keys /\ ConfiguratorKey \in Entries
  /\ Roles \subseteq Keys
  /\ Genesis \in [Nets -> Seq(Contract)]
  /\ \A n \in Nets : \A a \in 1..Len(Genesis[n]) : Genesis[n][a].mined
  /\ Config \in [Nets -> [Keys -> Nat]]
  /\ \A n \in Nets : \A k \in Keys : Config[n][k] <= Len(Genesis[n])

VARIABLES
  net,       \* the network of this deployment
  chain,     \* the contracts, in the order their creation was sent
  market,    \* the state of every LendPoolAddressesProvider and its pool
  book,      \* deployments/deployed-contracts: contract id -> address
  implBook,  \* the same file's "<id>Impl" keys
  new,       \* the running script's last deployed instance, or 0
  found      \* the running script's "existing" address, or 0

bookVars == <<net, chain, market, book, implBook, new, found>>

Unset == [k \in Keys |-> 0]
NewMarket == [entry |-> [e \in Entries |-> 0], roles |-> {}, paused |-> FALSE,
              listed |-> {}, configured |-> {}, borrowable |-> {}]

BookInit ==
  /\ net \in Nets
  /\ chain = Genesis[net]
  /\ market = [p \in {} |-> NewMarket]
  /\ book = Unset /\ implBook = Unset
  /\ new = 0 /\ found = 0

-----------------------------------------------------------------------------
(* Reading the book, the configuration and the chain.                      *)

Mined(a) == a \in 1..Len(chain) /\ chain[a].mined
IsProxy(a) == Mined(a) /\ chain[a].kind = "proxy"

(* Config first, then the book: tokens and token implementations.          *)
Located(k) == IF Config[net][k] # 0 THEN Config[net][k] ELSE book[k]

Provider == book[ProviderKey]
Entry(e) == IF Provider \in DOMAIN market THEN market[Provider].entry[e] ELSE 0

(* The addresses an instruction's arguments resolve to.                    *)
Arguments(i) == {book[k] : k \in i.uses} \cup {Located(k) : k \in i.assets}
                  \cup {Entry(e) : e \in i.reads}
Assets(i) == {Located(k) : k \in i.assets}

(* getX() and getContractAddressInDb throw when the book has no such key;  *)
(* tokens are looked up the same way, after the configuration.             *)
ArgumentsKnown(i) == /\ \A k \in i.uses : book[k] # 0
                     /\ \A k \in i.assets : Located(k) # 0
                     /\ i.by # "none" => book[i.by] # 0

(* The pool is administered through the configurator the book names: it    *)
(* must be a proxy, which knows the provider it was initialised with.      *)
Configurator == book[ConfiguratorKey]
Administers(p) == p \in chain[Configurator].uses /\ Mined(p)
PoolMarkets == IF IsProxy(Configurator)
                 THEN {p \in DOMAIN market : Administers(p)} ELSE {}
Acts(role) == \E p \in PoolMarkets : role \in market[p].roles

Target_Deployed == IF new # 0 THEN new ELSE found
(* The contract a setter of the script is sent to: the one it found, or    *)
(* else the one it deployed.                                               *)
Target == IF found # 0 THEN found ELSE new

(* The proxies of a contract that a proxy admin can upgrade: the operator  *)
(* types the address of one of them on the command line.                   *)
Proxies(i) == {a \in 1..Len(chain) : /\ IsProxy(a) /\ chain[a].id = i.key
                                     /\ chain[a].admin = book[i.by]}

(* The oracle a task adds an asset to: the provider's, or the book's.      *)
Oracle(i) == IF i.key \in i.reads THEN Entry(i.key) ELSE book[i.key]

-----------------------------------------------------------------------------
(* What each instruction needs; where it fails the script throws or the    *)
(* transaction reverts, and the task ends there.                           *)

ListAccepted(i) ==
  /\ Acts("PoolAdmin")
  /\ \A p \in PoolMarkets : Assets(i) \cap market[p].listed = {}
(* An NFT needs its bNFT in the registry the provider publishes, a reserve *)
(* its implementation contracts and its interest-rate strategy (`uses`).   *)
  /\ "BNFTRegistry" \in i.reads =>
       \A p \in PoolMarkets :
         LET r == market[p].entry["BNFTRegistry"] IN
           IsProxy(r) /\ Assets(i) \subseteq chain[r].holds

Accepts(i) ==
  /\ ArgumentsKnown(i)
  /\ i.op \in {"saveEntry", "setImpl", "publish", "publishConfig", "findEntry",
               "register", "admit"} => Provider \in DOMAIN market
  /\ i.op \in {"proxy", "setImpl", "upgrade"} =>
       Mined(new) /\ chain[new].kind = "implementation"
  /\ i.op \in {"note", "save", "saveImpl"} => new # 0
  /\ i.op = "publish" => Target # 0
  /\ i.op = "publishConfig" => Config[net][i.key] # 0
  /\ i.op = "given" => Proxies(i) # {}
  /\ i.op = "recall" => found # 0
  /\ i.op = "upgrade" => IsProxy(found) /\ chain[found].admin = book[i.by]
  /\ i.op = "initialize" => Mined(new) /\ chain[new].kind = "implementation"
  /\ i.op = "fill" => Mined(new) /\ chain[new].kind # "implementation"
  /\ i.op = "register" => Mined(Target)
  /\ i.op = "createBNFT" => /\ IsProxy(book[i.key])
                            /\ Assets(i) \cap chain[book[i.key]].holds = {}
  /\ i.op \in {"pause", "unpause"} => Acts("EmergencyAdmin")
  /\ i.op = "list" => ListAccepted(i)
  /\ i.op \in {"configure", "enable"} =>
       /\ Acts("PoolAdmin")
       /\ \A p \in PoolMarkets : Assets(i) \subseteq market[p].listed
  /\ i.op \in {"approveNFT", "approveERC20"} => IsProxy(book[i.key])
(* safeApprove refuses to replace an allowance that is not zero.           *)
  /\ i.op = "approveERC20" => Assets(i) \cap chain[book[i.key]].holds = {}
  /\ i.op = "addAsset" => /\ Mined(Oracle(i))
                          /\ Assets(i) \cap chain[Oracle(i)].holds = {}

-----------------------------------------------------------------------------
(* What each instruction does.                                             *)

Created(i, kind, code, admin) ==
  [id |-> i.key, kind |-> kind, code |-> code, admin |-> admin,
   mined |-> FALSE, uses |-> Arguments(i), holds |-> {}]

(* A creation is sent: the instance has an address, and nothing more yet.  *)
Deploy(i) ==
  /\ i.op \in {"deploy", "implementation"}
  /\ chain' = Append(chain, Created(i, IF i.op = "deploy" THEN "plain"
                                       ELSE "implementation", 0, 0))
  /\ new' = Len(chain) + 1
  /\ market' = IF i.key = ProviderKey
                 THEN [p \in DOMAIN market \cup {new'} |->
                         IF p \in DOMAIN market THEN market[p] ELSE NewMarket]
                 ELSE market
  /\ UNCHANGED <<book, implBook, found>>

(* new BendUpgradeableProxy(logic, admin, data) before the last instance.  *)
DeployProxy(i) ==
  /\ i.op = "proxy"
  /\ chain' = Append(chain, Created(i, "proxy", new,
                            IF i.by = "none" THEN 0 ELSE book[i.by]))
  /\ new' = Len(chain) + 1
  /\ UNCHANGED <<market, book, implBook, found>>

(* insertContractAddressInDb(XImpl, ...): before the creation is mined.    *)
Note(i) ==
  /\ i.op = "note"
  /\ implBook' = [implBook EXCEPT ![i.key] = new]
  /\ UNCHANGED <<chain, market, book, new, found>>

Save_Unawaited(i) ==
  /\ i.op = "save"
  /\ book' = [book EXCEPT ![i.key] = new]
  /\ UNCHANGED <<chain, market, implBook, new, found>>

(* withSaveAndVerify: wait for the creation, then write the book.          *)
Save(i) ==
  /\ i.op = "save"
  /\ chain' = [chain EXCEPT ![new].mined = TRUE]
  /\ book' = [book EXCEPT ![i.key] = new]
  /\ UNCHANGED <<market, implBook, new, found>>

SaveImpl(i) ==
  /\ i.op = "saveImpl"
  /\ chain' = [chain EXCEPT ![new].mined = TRUE]
  /\ implBook' = [implBook EXCEPT ![i.key] = new]
  /\ UNCHANGED <<market, book, new, found>>

SetEntry(e, a) == market' = [market EXCEPT ![Provider].entry[e] = a]

SetImpl_AlwaysNew(i) ==
  /\ i.op = "setImpl"
  /\ chain' = Append(chain,
       [id |-> i.key, kind |-> "proxy", code |-> new, admin |-> Provider,
        mined |-> TRUE, uses |-> {Provider}, holds |-> {}])
  /\ SetEntry(i.key, Len(chain) + 1)
  /\ UNCHANGED <<book, implBook, new, found>>

(* _updateImpl of the provider: the first call creates the proxy and       *)
(* initialises it with the provider, a later one upgrades it in place.     *)
SetImpl(i) ==
  /\ i.op = "setImpl"
  /\ IF Entry(i.key) = 0
       THEN /\ chain' = Append(chain,
                 [id |-> i.key, kind |-> "proxy", code |-> new,
                  admin |-> Provider, mined |-> TRUE, uses |-> {Provider},
                  holds |-> {}])
            /\ SetEntry(i.key, Len(chain) + 1)
       ELSE /\ chain' = [chain EXCEPT ![Entry(i.key)].code = new]
            /\ market' = market
  /\ UNCHANGED <<book, implBook, new, found>>

(* The provider's plain setters.  The caller waits for the setter, which   *)
(* is sent after the creation by the same signer, so both are mined.       *)
Publish(i) ==
  /\ i.op = "publish"
  /\ SetEntry(i.key, Target)
  /\ chain' = [chain EXCEPT ![Target].mined = TRUE]
  /\ UNCHANGED <<book, implBook, new, found>>

PublishConfig(i) ==
  /\ i.op = "publishConfig"
  /\ SetEntry(i.key, Config[net][i.key])
  /\ UNCHANGED <<chain, book, implBook, new, found>>

-----------------------------------------------------------------------------
(* Existing contracts: where a script looks for them, and what it does.    *)

Find(i) ==
  /\ i.op \in {"find", "findConfig", "findEntry", "given"}
  /\ CASE i.op = "find" -> found' = book[i.key]
       [] i.op = "findConfig" -> found' = Config[net][i.key]
       [] i.op = "findEntry" -> found' = Entry(i.key)
       [] i.op = "given" -> found' \in Proxies(i)
  /\ UNCHANGED <<chain, market, book, implBook, new>>

(* insertContractAddressInDb(id, existing address)                         *)
Recall(i) ==
  /\ i.op = "recall"
  /\ book' = [book EXCEPT ![i.key] = found]
  /\ UNCHANGED <<chain, market, implBook, new, found>>

SaveEntry(i) ==
  /\ i.op = "saveEntry"
  /\ book' = [book EXCEPT ![i.key] = Entry(i.key)]
  /\ UNCHANGED <<chain, market, implBook, new, found>>

Upgrade(i) ==
  /\ i.op = "upgrade"
  /\ chain' = [chain EXCEPT ![found].code = new]
  /\ UNCHANGED <<market, book, implBook, new, found>>

-----------------------------------------------------------------------------
(* Setters of the contracts deployed.                                      *)

(* An oracle of the dev environment is initialised without a proxy.        *)
Initialize(i) ==
  /\ i.op = "initialize"
  /\ chain' = [chain EXCEPT ![new] =
                 [chain[new] EXCEPT !.kind = "plain",
                                    !.uses = chain[new].uses \cup Assets(i)]]
  /\ UNCHANGED <<market, book, implBook, new, found>>

Adds(a, S) == chain' = [chain EXCEPT ![a].holds = @ \cup S]

Fill(i) ==
  /\ i.op = "fill" /\ Adds(new, Assets(i))
  /\ UNCHANGED <<market, book, implBook, new, found>>

Register(i) ==
  /\ i.op = "register" /\ Adds(Target, {Provider})
  /\ UNCHANGED <<market, book, implBook, new, found>>

CreateBNFT(i) ==
  /\ i.op = "createBNFT" /\ Adds(book[i.key], Assets(i))
  /\ UNCHANGED <<market, book, implBook, new, found>>

Approve(i) ==
  /\ i.op \in {"approveNFT", "approveERC20"} /\ Adds(book[i.key], Assets(i))
  /\ UNCHANGED <<market, book, implBook, new, found>>

(* addAsset, setAssets of the NFT oracle: refused for an asset it has.     *)
AddAsset(i) ==
  /\ i.op = "addAsset" /\ Adds(Oracle(i), Assets(i))
  /\ UNCHANGED <<market, book, implBook, new, found>>

(* setPoolAdmin, setEmergencyAdmin                                         *)
Admit(i) ==
  /\ i.op = "admit"
  /\ market' = [market EXCEPT ![Provider].roles = @ \cup ({i.key} \cap Roles)]
  /\ UNCHANGED <<chain, book, implBook, new, found>>

-----------------------------------------------------------------------------
(* The pool, through the configurator.                                     *)

AtPool(F(_)) == market' = [p \in DOMAIN market |->
                             IF p \in PoolMarkets THEN F(market[p])
                                                  ELSE market[p]]

(* setPoolPause                                                            *)
Pause(i) ==
  /\ i.op \in {"pause", "unpause"}
  /\ AtPool(LAMBDA m : [m EXCEPT !.paused = (i.op = "pause")])
  /\ UNCHANGED <<chain, book, implBook, new, found>>

(* batchInitReserve, batchInitNft: one transaction for each asset          *)
List(i) ==
  /\ i.op = "list"
  /\ AtPool(LAMBDA m : [m EXCEPT !.listed = @ \cup Assets(i)])
  /\ UNCHANGED <<chain, book, implBook, new, found>>

(* batchConfigReserve, batchConfigNft: one transaction for all             *)
Configure(i) ==
  /\ i.op = "configure"
  /\ AtPool(LAMBDA m : [m EXCEPT !.configured = @ \cup Assets(i)])
  /\ UNCHANGED <<chain, book, implBook, new, found>>

Enable(i) ==
  /\ i.op = "enable"
  /\ AtPool(LAMBDA m : [m EXCEPT !.borrowable = @ \cup Assets(i)])
  /\ UNCHANGED <<chain, book, implBook, new, found>>

(* A transaction that changes nothing the model keeps.                     *)
Call(i) == i.op = "call" /\ UNCHANGED bookVars

Execute(i) ==
  /\ net' = net
  /\ \/ Deploy(i) \/ DeployProxy(i) \/ Note(i) \/ Save(i) \/ SaveImpl(i)
     \/ SetImpl(i) \/ Publish(i) \/ PublishConfig(i)
     \/ Find(i) \/ Recall(i) \/ SaveEntry(i) \/ Upgrade(i)
     \/ Initialize(i) \/ Fill(i) \/ Register(i) \/ CreateBNFT(i) \/ AddAsset(i)
     \/ Approve(i)
     \/ Admit(i) \/ Pause(i) \/ List(i) \/ Configure(i) \/ Enable(i) \/ Call(i)
=============================================================================
