------------------------------ MODULE Deployment ------------------------------
(***************************************************************************)
(* Running the deployment scripts: the migration's tasks one after the     *)
(* other, then tasks an operator runs by hand on the finished market.      *)
(*                                                                         *)
(* A task may be interrupted between any two of its steps (the process     *)
(* dies, the node drops the connection, a transaction runs out of gas).    *)
(* Nothing but the book and the chain survives: the operator runs the same *)
(* task again from its start, or the whole migration.                      *)
(***************************************************************************)
EXTENDS ContractBook, FiniteSets

CONSTANTS
  Tasks,         \* the names of the scripts
  Program,       \* [network -> [task -> sequence of instructions]]
  Migration,     \* [network -> the tasks of its migration, in order]
  Upkeep,        \* [network -> the tasks an operator may run afterwards]
  Production,    \* the networks of the production migration
  NotResumable,  \* the tasks that can fail when they are run again
  MaxCrashes,    \* bound: interruptions
  MaxRedeploys,  \* bound: migrations started over
  MaxUpkeep      \* bound: tasks run by hand

ASSUME DeploymentAssumption ==
  /\ "none" \notin Tasks
  /\ \A n \in Nets : \A t \in Tasks : Program[n][t] \in Seq(Instruction)
  /\ \A n \in Nets : Migration[n] \in Seq(Tasks) /\ Migration[n] # <<>>
  /\ \A n \in Nets : Upkeep[n] \subseteq Tasks
  /\ MaxCrashes \in Nat /\ MaxRedeploys \in Nat /\ MaxUpkeep \in Nat

VARIABLES
  todo,       \* the position in the migration
  task,       \* the task that runs or ran last, or "none"
  script,     \* what is left of it
  status,     \* idle | running | crashed | aborted
  crashes, redeploys, upkeep  \* how often each has happened

runVars == <<todo, task, script, status, crashes, redeploys, upkeep>>
vars == <<bookVars, runVars>>

Init ==
  /\ BookInit
  /\ todo = 1 /\ task = "none" /\ script = <<>> /\ status = "idle"
  /\ crashes = 0 /\ redeploys = 0 /\ upkeep = 0

-----------------------------------------------------------------------------
Finished == todo > Len(Migration[net])
Running == status = "running" /\ script # <<>>
Statement == Head(script)
Applies(i) == CASE i.when = "always" -> TRUE
                [] i.when = "found" -> found # 0
                [] i.when = "fresh" -> found = 0

Begin(t) ==
  /\ task' = t /\ script' = Program[net][t] /\ status' = "running"
  /\ new' = 0 /\ found' = 0
  /\ UNCHANGED <<net, chain, market, book, implBook>>

(* localBRE.run(...) of the next task of the migration.                    *)
StartTask ==
  /\ status = "idle" /\ ~Finished
  /\ Begin(Migration[net][todo])
  /\ UNCHANGED <<todo, crashes, redeploys, upkeep>>

(* One awaited statement of the script.                                    *)
Step ==
  /\ Running /\ Applies(Statement) /\ Accepts(Statement)
  /\ Execute(Statement)
  /\ script' = Tail(script)
  /\ UNCHANGED <<todo, task, status, crashes, redeploys, upkeep>>

(* A branch not taken.                                                     *)
Skip ==
  /\ Running /\ ~Applies(Statement)
  /\ script' = Tail(script)
  /\ UNCHANGED <<bookVars, todo, task, status, crashes, redeploys, upkeep>>

(* A missing key, a reverted transaction: the script throws.               *)
Abort ==
  /\ Running /\ Applies(Statement) /\ ~Accepts(Statement)
  /\ status' = "aborted"
  /\ UNCHANGED <<bookVars, todo, task, script, crashes, redeploys, upkeep>>

Finish_Counted ==
  /\ status = "running" /\ script = <<>>
  /\ status' = "idle" /\ todo' = todo + 1
  /\ UNCHANGED <<bookVars, task, script, crashes, redeploys, upkeep>>

Finish ==
  /\ status = "running" /\ script = <<>>
  /\ status' = "idle"
  /\ todo' = IF Finished THEN todo ELSE todo + 1
  /\ UNCHANGED <<bookVars, task, script, crashes, redeploys, upkeep>>

(* The interruption.  A creation that has been sent may still be mined.    *)
Crash ==
  /\ status = "running" /\ crashes < MaxCrashes
  /\ crashes' = crashes + 1
  /\ status' = "crashed" /\ script' = <<>> /\ new' = 0 /\ found' = 0
  /\ \/ chain' = chain
     \/ /\ new # 0 /\ ~chain[new].mined
        /\ chain' = [chain EXCEPT ![new].mined = TRUE]
  /\ UNCHANGED <<net, market, book, implBook, todo, task, redeploys, upkeep>>

(* The operator runs the interrupted task again ...                        *)
Retry ==
  /\ status = "crashed"
  /\ Begin(task)
  /\ UNCHANGED <<todo, crashes, redeploys, upkeep>>

(* ... or the whole migration, with the book the first attempt left.       *)
Redeploy ==
  /\ status \in {"crashed", "aborted"} /\ ~Finished
  /\ redeploys < MaxRedeploys
  /\ redeploys' = redeploys + 1
  /\ todo' = 1
  /\ Begin(Migration[net][1])
  /\ UNCHANGED <<crashes, upkeep>>

StartUpkeep(t) ==
  /\ status = "idle" /\ Finished /\ upkeep < MaxUpkeep
  /\ upkeep' = upkeep + 1
  /\ Begin(t)
  /\ UNCHANGED <<todo, crashes, redeploys>>

ScriptStep == StartTask \/ Step \/ Skip \/ Abort \/ Finish
Operator == Retry \/ Redeploy
Next == \/ ScriptStep \/ Operator \/ Crash
        \/ \E t \in Upkeep[net] : StartUpkeep(t)

Spec == Init /\ [][Next]_vars

(* A running process goes on (its transactions are mined in the end), and  *)
(* an operator does not leave a deployment half done.  Nobody has to run a *)
(* task by hand.                                                           *)
FairSpec == Spec /\ WF_vars(ScriptStep) /\ WF_vars(Operator)

-----------------------------------------------------------------------------
(* The variables have their types, and the bounds hold.                    *)
TypeOK ==
  /\ net \in Nets
  /\ chain \in Seq(Contract)
  /\ DOMAIN market \subseteq Nat
  /\ \A p \in DOMAIN market : market[p] \in Market
  /\ book \in [Keys -> Nat] /\ implBook \in [Keys -> Nat]
  /\ new \in 0..Len(chain) /\ found \in Nat
  /\ todo \in 1..(Len(Migration[net]) + 1)
  /\ task \in {"none"} \cup Tasks
  /\ status \in {"idle", "running", "crashed", "aborted"}
  /\ status # "idle" => task # "none"
  /\ script \in Seq(Instruction)
  /\ crashes \in 0..MaxCrashes /\ redeploys \in 0..MaxRedeploys
  /\ upkeep \in 0..MaxUpkeep

(* Every address a later script can read from the book or from the         *)
(* provider is a contract that exists, wherever the scripts were           *)
(* interrupted (withSaveAndVerify writes after the creation is mined).     *)
BookNamesMinedContracts ==
  /\ \A k \in Keys : book[k] # 0 => Mined(book[k])
  /\ \A p \in DOMAIN market : \A e \in Entries :
       market[p].entry[e] # 0 => Mined(market[p].entry[e])

(* What the provider publishes is the contract it says, and never a bare   *)
(* implementation that nobody initialised.                                 *)
PublishedIsInitialised ==
  \A p \in DOMAIN market : \A e \in Entries :
    LET a == market[p].entry[e] IN
      a # 0 => chain[a].id = e /\ chain[a].kind # "implementation"

(* getX() never throws and no transaction reverts in a script that was not *)
(* interrupted; after an interruption only the tasks that cannot be        *)
(* resumed do.                                                             *)
ScriptsAreResumable ==
  status = "aborted" => crashes > 0 /\ task \in NotResumable

-----------------------------------------------------------------------------
(* What reading the scripts one by one can show.  A script publishes a     *)
(* contract of its own making if the last creation before the publication  *)
(* makes a contract of that id and of one of the kinds K, and the script   *)
(* searched for nothing; or it publishes what the configuration names.     *)
Creations == {"deploy", "implementation", "proxy"}
Searches == {"find", "findConfig", "findEntry", "given"}
KindMade(op) == IF op = "deploy" THEN "plain" ELSE op

MadeHere(s, j, K) ==
  /\ \A k \in 1..(j - 1) : s[k].op \notin Searches
  /\ \E c \in 1..(j - 1) :
       /\ s[c].op \in Creations /\ KindMade(s[c].op) \in K
       /\ s[c].key = s[j].key /\ s[c].when = "always"
       /\ \A k \in (c + 1)..(j - 1) : s[k].op \notin Creations

FoundInConfig(n, s, j) ==
  \E f \in 1..(j - 1) :
    /\ s[f].op = "findConfig" /\ s[f].when = "always"
    /\ s[f].key = s[j].key /\ Config[n][s[j].key] # 0
    /\ \A k \in (f + 1)..(j - 1) : s[k].op \notin Searches

(* The script gives the entries of E contracts of these kinds only.        *)
PublishesOwn(n, s, E, K) ==
  \A j \in DOMAIN s : s[j].key \in E =>
    /\ s[j].op = "publish" => MadeHere(s, j, K) \/ FoundInConfig(n, s, j)
    /\ s[j].op = "setImpl" => "proxy" \in K

ConfigFits(n, E, K) ==
  \A e \in E : Config[n][e] # 0 =>
    Genesis[n][Config[n][e]].id = e /\ Genesis[n][Config[n][e]].kind \in K

TasksRun(n) == {Migration[n][j] : j \in DOMAIN Migration[n]} \cup Upkeep[n]

Disciplined(n, E, K) ==
  /\ ConfigFits(n, E, K)
  /\ \A t \in TasksRun(n) : PublishesOwn(n, Program[n][t], E, K)

(* Maintenance replaces no entry but these.                                *)
UpkeepReplaces(n, E) ==
  \A t \in Upkeep[n] : \A j \in DOMAIN Program[n][t] :
    LET i == Program[n][t][j] IN
      i.op # "publishConfig" /\ (i.op = "publish" => i.key \in E)

-----------------------------------------------------------------------------
Settled == Finished /\ status = "idle"

(* Every asset the production scripts list is known to the oracle the      *)
(* market publishes at that moment: as its unit or as an asset it prices.  *)
ListedAssetsArePriced ==
  net \in Production =>
    \A p \in DOMAIN market : \A a \in market[p].listed :
      \E e \in {"ReserveOracle", "NFTOracle"} :
        LET o == market[p].entry[e] IN
          o # 0 /\ a \in chain[o].uses \cup chain[o].holds

(* LendPool's pause during deployment: a production market that users can  *)
(* reach has all its assets listed and configured and its gateways         *)
(* published and approved, and is the one the book names.                  *)
OpenMarketsAreComplete ==
  net \in Production =>
    \A p \in DOMAIN market :
      (market[p].listed # {} /\ ~market[p].paused) =>
        /\ p = Provider
        /\ Cardinality(market[p].listed) = 4
        /\ market[p].configured = market[p].listed
        /\ \A e \in {"WETHGateway", "PunkGateway"} :
             /\ market[p].entry[e] # 0
             /\ chain[market[p].entry[e]].holds # {}

(* The book a finished deployment leaves names the contracts the market    *)
(* publishes: a script that reads the book and a user who asks the         *)
(* provider meet the same ones.                                            *)
FinishedBookIsTheMarket ==
  (Settled /\ net \in Production) =>
    \A e \in Entries : book[e] \in {0, Entry(e)}

(* The pool, the libraries it links and the view contract belong to one    *)
(* deployment, and the punk gateway forwards to the published WETH gateway *)
(* (bend.mainnet.ts: "MUST AFTER WETH GATEWAY"): nothing still points at a *)
(* contract that was replaced.                                             *)
LinksAreCurrent ==
  Settled =>
    /\ LET pool == chain[chain[Entry("LendPool")].code] IN
         pool.uses = {book[k] : k \in {"ReserveLogic", "NftLogic",
                        "SupplyLogic", "BorrowLogic", "LiquidateLogic"}}
    /\ \A k \in {"SupplyLogic", "BorrowLogic", "LiquidateLogic"} :
         chain[book[k]].uses = {book["ValidationLogic"]}
    /\ chain[book["UIPoolDataProvider"]].uses =
         {Entry("ReserveOracle"), Entry("NFTOracle")}
    /\ Entry("PunkGateway") # 0
    /\ Entry("WETHGateway") \in chain[Entry("PunkGateway")].uses

(* Whatever is run on a finished market, a proxy it publishes keeps its    *)
(* address: users hold approvals to it.                                    *)
PublishedProxiesStay ==
  [][\A p \in DOMAIN market : \A e \in Entries :
       (Finished /\ IsProxy(market[p].entry[e]))
         => market'[p].entry[e] = market[p].entry[e]]_vars

(* A migration ends with a complete market, interrupted or not.            *)
MigrationFinishes == <>Finished

(* try/catch of the tasks: the scripts look for "the existing proxy" and   *)
(* upgrade it, so that what they find must be a proxy.                     *)
FoundForUpgradeIsProxy ==
  (Running /\ found # 0 /\ Statement.op = "upgrade") => IsProxy(found)
=============================================================================
