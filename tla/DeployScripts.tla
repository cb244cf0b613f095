---------------------------- MODULE DeployScripts ----------------------------
(***************************************************************************)
(* The deployment scripts (tasks/, helpers/) as sequences of instructions  *)
(* of ContractBook: one operator for each function or task, in the order   *)
(* the TypeScript awaits its steps.  What a script decides from the market *)
(* configuration alone is decided here, per network; what it decides from  *)
(* what it found is the instruction's `when`.                              *)
(*                                                                         *)
(* Networks: "main" names the external tokens and registries only, so that *)
(* every contract of the protocol is deployed; "reuse" also names oracles, *)
(* proxy admins and the provider registry; "skip" is "reuse" run with      *)
(* --skip-oracle and --skip-registry; "dev" names nothing (bend:dev).      *)
(***************************************************************************)
EXTENDS Naturals, Sequences, SequencesExt

Reserves == <<"WETH", "USDT">>
Nfts == <<"BAYC", "WPUNKS">>
Full == {"main", "reuse", "skip"}
Networks == Full \cup {"dev"}

(* helpers/types.ts, eContractid: the ids the scripts use as keys of the   *)
(* book; token symbols and rate strategies are keys beside them.           *)
eContractid == {"MintableERC20", "MintableERC721",
  "LendPoolAddressesProvider", "LendPoolAddressesProviderRegistry",
  "LendPoolConfigurator", "ValidationLogic", "ReserveLogic", "NftLogic",
  "GenericLogic", "SupplyLogic", "BorrowLogic", "LiquidateLogic",
  "ConfiguratorLogic", "LendPool", "LendPoolLoan", "ReserveOracle",
  "NFTOracle", "TokenOracle", "MockChainlinkOracle",
  "ChainlinkAggregatorHelper", "InterestRate", "BendProxyAdminPool",
  "BendProxyAdminFund", "BendProxyAdminWTL", "BendV2ProxyAdmin",
  "WalletBalanceProvider", "BToken", "DebtToken", "BNFT",
  "BendProtocolDataProvider", "WETHGateway", "BNFTRegistry",
  "CryptoPunksMarket", "WrappedPunk", "PunkGateway",
  "MockIncentivesController", "UIPoolDataProvider", "BendCollector",
  "UniswapV3DebtSwapAdapter", "WstETHPriceAggregator", "KodaGateway",
  "MockLoanRepaidInterceptor", "IncentivesController"}
RateStrategies == {"rateStrategyWETH", "rateStrategyStableOne"}

ToSetOfKeys(s) == {s[j] : j \in DOMAIN s}
Tokens == ToSetOfKeys(Reserves) \cup ToSetOfKeys(Nfts) \cup {"AZUKI"}

-----------------------------------------------------------------------------
(* The market configuration (markets/bend/commons.ts): what is already on  *)
(* the chain of a network, in the order of its addresses.                  *)
External(n) ==
  CASE n = "dev" -> <<>>
    [] n = "main" -> Reserves \o Nfts \o
         <<"AZUKI", "CryptoPunksMarket", "BNFTRegistry",
           "IncentivesController">>
    [] OTHER -> Reserves \o Nfts \o
         <<"AZUKI", "CryptoPunksMarket", "BNFTRegistry", "IncentivesController",
           "LendPoolAddressesProviderRegistry", "BendProxyAdminPool",
           "BendProxyAdminFund", "BendProxyAdminWTL", "ReserveOracle",
           "NFTOracle">>

Place(n, k) == IF k \in ToSetOfKeys(External(n))
                 THEN CHOOSE j \in DOMAIN External(n) : External(n)[j] = k
                 ELSE 0

ConfigOf(n, keys) == [k \in keys |-> Place(n, k)]

Places(n, keys) == {Place(n, k) : k \in keys}

GenesisOf(n) ==
  [j \in DOMAIN External(n) |->
    LET k == External(n)[j] IN
      [id |-> k,
       kind |-> IF k \in {"BNFTRegistry", "IncentivesController",
                          "ReserveOracle", "NFTOracle"}
                  THEN "proxy" ELSE "plain",
       code |-> 0,
       admin |-> IF k \in {"ReserveOracle", "NFTOracle"}
                   THEN Place(n, "BendProxyAdminPool") ELSE 0,
       mined |-> TRUE,
       uses |-> IF k = "ReserveOracle" THEN Places(n, {"WETH"}) ELSE {},
       holds |-> CASE k = "BNFTRegistry" ->
                        Places(n, ToSetOfKeys(Nfts) \cup {"AZUKI"})
                   [] k = "NFTOracle" -> Places(n, ToSetOfKeys(Nfts))
                   [] k = "ReserveOracle" -> Places(n, {"USDT"})
                   [] OTHER -> {}]]

Named(n, k) == Place(n, k) # 0

-----------------------------------------------------------------------------
(* Building instructions.                                                  *)

I(op, key) == [op |-> op, key |-> key, uses |-> {}, reads |-> {},
               assets |-> {}, by |-> "none", when |-> "always"]
Do(op, key) == <<I(op, key)>>
On(op, key, assets) == <<[I(op, key) EXCEPT !.assets = assets]>>
Concat(ss) == FlattenSeq(ss)
For(keys, F(_)) == Concat([j \in DOMAIN keys |-> F(keys[j])])
When(w, s) == [j \in DOMAIN s |-> [s[j] EXCEPT !.when = w]]
Only(b, s) == IF b THEN s ELSE <<>>

(* withSaveAndVerify(new Factory().deploy(args), id): a contract the       *)
(* scripts address directly.                                               *)
Plain(id, uses) == <<[I("deploy", id) EXCEPT !.uses = uses]>> \o Do("save", id)
Token(id, symbol) == Do("deploy", id) \o Do("save", id) \o Do("save", symbol)

(* The deployX of a contract behind a proxy: the "XImpl" key is written    *)
(* before the creation is mined, then the key of the proxy itself gets the *)
(* implementation's address.                                               *)
Impl(id, libraries) == <<[I("implementation", id) EXCEPT !.uses = libraries]>>
                         \o Do("note", id) \o Do("save", id)

deployBendUpgradeableProxy(id, by, uses, assets) ==
  <<[I("proxy", id) EXCEPT !.by = by, !.uses = uses, !.assets = assets]>>
    \o Do("save", id)

(* getContractAddressInDb, which throws, where tryGetContractAddressInDb   *)
(* (a plain "find") answers the zero address.                              *)
findInDb(id) == <<[I("find", id) EXCEPT !.uses = {id}]>>

(* "find the existing proxy": upgrade it, or deploy a new one.             *)
upgradeProxy(id, by) == When("found", <<[I("upgrade", id) EXCEPT !.by = by]>>)

-----------------------------------------------------------------------------
(* helpers/contracts-deployments.ts                                        *)

deployLendPoolAddressesProviderRegistry ==
  Plain("LendPoolAddressesProviderRegistry", {})
deployLendPoolAddressesProvider == Plain("LendPoolAddressesProvider", {})
deployLendPoolConfigurator ==
  Impl("LendPoolConfigurator", {"ConfiguratorLogic"})
deployLendPoolLoan == Impl("LendPoolLoan", {})
deployBNFTRegistry == Impl("BNFTRegistry", {})
deployReserveLogicLibrary == Plain("ReserveLogic", {})
deployNftLogicLibrary == Plain("NftLogic", {})
deployGenericLogic == Plain("GenericLogic", {})
deployValidationLogic ==
  Plain("ValidationLogic", {"ReserveLogic", "GenericLogic"})
deploySupplyLogicLibrary == Plain("SupplyLogic", {"ValidationLogic"})
deployBorrowLogicLibrary == Plain("BorrowLogic", {"ValidationLogic"})
deployLiquidateLogicLibrary == Plain("LiquidateLogic", {"ValidationLogic"})

deployLendPoolLibraries ==
  deployGenericLogic \o deployReserveLogicLibrary \o deployNftLogicLibrary \o
  deployValidationLogic \o deploySupplyLogicLibrary \o
  deployBorrowLogicLibrary \o deployLiquidateLogicLibrary

deployConfiguratorLogicLibrary == Plain("ConfiguratorLogic", {})
deployBendLibraries == deployLendPoolLibraries \o deployConfiguratorLogicLibrary

(* Also ValidationLogic and GenericLogic are looked up, though not linked. *)
getLendPoolLibraries == {"ReserveLogic", "NftLogic", "SupplyLogic",
                         "BorrowLogic", "LiquidateLogic"}
deployLendPool == Impl("LendPool", getLendPoolLibraries)

deployReserveOracle == Impl("ReserveOracle", {})
deployNFTOracle == Impl("NFTOracle", {})
deployTokenOracle == Impl("TokenOracle", {})
deployChainlinkAggregatorHelper == Impl("ChainlinkAggregatorHelper", {})
deployWETHGateway == Impl("WETHGateway", {})
deployPunkGateway == Impl("PunkGateway", {})
deployBendCollector == Impl("BendCollector", {})
deployUniswapV3DebtSwapAdapter == Impl("UniswapV3DebtSwapAdapter", {})
deployWrapperGateway(id) == Impl(id, {})

(* The only deployment that leaves the proxy's own key alone.              *)
deployWrapperGatewayImpl(id) == Do("implementation", id) \o Do("saveImpl", id)

deployWalletBalancerProvider == Plain("WalletBalanceProvider", {})
deployBendProtocolDataProvider ==
  Plain("BendProtocolDataProvider", {"LendPoolAddressesProvider"})
(* The oracles are those the provider publishes at this moment.            *)
deployUiPoolDataProvider ==
  <<[I("deploy", "UIPoolDataProvider") EXCEPT
       !.reads = {"ReserveOracle", "NFTOracle"}]>>
    \o Do("save", "UIPoolDataProvider")

deployInterestRateWithID(id) == Plain(id, {"LendPoolAddressesProvider"})
deployBTokenImplementations == Plain("BToken", {}) \o Plain("DebtToken", {})
deployGenericBNFTImpl == Plain("BNFT", {})
deployBendProxyAdmin(id) == Plain(id, {})
deployCryptoPunksMarket == Plain("CryptoPunksMarket", {})
deployWrappedPunk == Plain("WrappedPunk", {"CryptoPunksMarket"})
deployWETH9 == Plain("WETH", {})
deployWstETHPriceAggregator == Plain("WstETHPriceAggregator", {})
deployMockChainlinkOracle == Plain("MockChainlinkOracle", {})
deployMockIncentivesController == Plain("MockIncentivesController", {})
deployMockLoanRepaidInterceptor ==
  Plain("MockLoanRepaidInterceptor", {"LendPoolAddressesProvider"})

deployOneMockToken(symbol) == Token("MintableERC20", symbol)
deployAllMockTokens ==
  For(Reserves, LAMBDA s : IF s = "WETH" THEN deployWETH9 \o Do("save", "WETH")
                                         ELSE deployOneMockToken(s))
deployAllMockNfts ==
  For(Nfts, LAMBDA s : IF s = "WPUNKS"
        THEN deployCryptoPunksMarket \o deployWrappedPunk \o Do("save", s)
        ELSE Token("MintableERC721", s))

-----------------------------------------------------------------------------
(* helpers/configuration.ts: a token the configuration does not name is    *)
(* deployed by whoever asks for it.                                        *)
getWrappedNativeTokenAddress(n) == Only(~Named(n, "WETH"), deployWETH9)
getCryptoPunksMarketAddress(n) ==
  Only(~Named(n, "CryptoPunksMarket"), deployCryptoPunksMarket)
getWrappedPunkTokenAddress(n) ==
  Only(~Named(n, "WPUNKS"), deployWrappedPunk)

-----------------------------------------------------------------------------
(* helpers/init-helpers.ts                                                 *)

Strategy(symbol) == IF symbol = "WETH" THEN "rateStrategyWETH"
                                       ELSE "rateStrategyStableOne"

deployRateStrategy(symbol) ==
  Plain("InterestRate", {"LendPoolAddressesProvider"})
    \o Do("save", Strategy(symbol))

initReservesByHelper ==
  For(Reserves, deployRateStrategy) \o
  For(Reserves, LAMBDA s : <<[I("list", "LendPool") EXCEPT
        !.assets = {s}, !.uses = {"BToken", "DebtToken", Strategy(s)}]>>)

initNftsByHelper ==
  For(Nfts, LAMBDA s : <<[I("list", "LendPool") EXCEPT
        !.assets = {s}, !.reads = {"BNFTRegistry"}]>>)

configureReservesByHelper ==
  On("configure", "LendPool", ToSetOfKeys(Reserves)) \o
  On("enable", "LendPool", ToSetOfKeys(Reserves))

configureNftsByHelper == On("configure", "LendPool", ToSetOfKeys(Nfts))

-----------------------------------------------------------------------------
(* tasks/full: the production deployment.                                  *)

ProxyAdmin(n, id) ==
  IF Named(n, id) THEN Do("findConfig", id) \o Do("recall", id)
                  ELSE deployBendProxyAdmin(id)
full_deploy_proxy_admin(n) ==
  For(<<"BendProxyAdminPool", "BendProxyAdminFund", "BendProxyAdminWTL">>,
      LAMBDA id : ProxyAdmin(n, id))

full_deploy_bend_collector ==
  deployBendCollector \o
  deployBendUpgradeableProxy("BendCollector", "BendProxyAdminFund", {}, {})

full_upgrade_bend_collector ==
  <<[I("given", "BendCollector") EXCEPT !.by = "BendProxyAdminFund"]>> \o
  deployBendCollector \o
  Do("recall", "BendCollector") \o
  upgradeProxy("BendCollector", "BendProxyAdminFund")

full_deploy_address_provider_registry(n) ==
  IF Named(n, "LendPoolAddressesProviderRegistry")
    THEN Do("findConfig", "LendPoolAddressesProviderRegistry") \o
         Do("recall", "LendPoolAddressesProviderRegistry")
    ELSE deployLendPoolAddressesProviderRegistry

(* The registry of the configuration, or one deployed now.                 *)
add_market_to_registry(n) ==
  IF Named(n, "LendPoolAddressesProviderRegistry")
    THEN Do("findConfig", "LendPoolAddressesProviderRegistry")
           \o Do("register", "LendPoolAddressesProviderRegistry")
    ELSE full_deploy_address_provider_registry(n)
           \o Do("register", "LendPoolAddressesProviderRegistry")

full_deploy_address_provider_Reused(n, skipRegistry) ==
  Do("find", "LendPoolAddressesProvider") \o
  When("fresh", deployLendPoolAddressesProvider) \o
  Only(~skipRegistry, add_market_to_registry(n)) \o
  Do("admit", "PoolAdmin") \o Do("admit", "EmergencyAdmin")

full_deploy_address_provider(n, skipRegistry) ==
  deployLendPoolAddressesProvider \o
  Only(~skipRegistry, add_market_to_registry(n)) \o
  Do("admit", "PoolAdmin") \o Do("admit", "EmergencyAdmin")

(* Each implementation is set at the provider, which makes it a proxy, and *)
(* the book gets the proxy's address.                                      *)
ThroughProvider(id, deployImpl) ==
  deployImpl \o Do("setImpl", id) \o Do("saveEntry", id)

full_deploy_lend_pool_Unpaused ==
  Do("publishConfig", "BNFTRegistry") \o
  Do("publishConfig", "IncentivesController") \o
  deployBendLibraries \o
  ThroughProvider("LendPool", deployLendPool) \o
  ThroughProvider("LendPoolLoan", deployLendPoolLoan) \o
  ThroughProvider("LendPoolConfigurator", deployLendPoolConfigurator) \o
  deployBTokenImplementations

full_deploy_lend_pool ==
  Do("publishConfig", "BNFTRegistry") \o
  Do("publishConfig", "IncentivesController") \o
  deployBendLibraries \o
  ThroughProvider("LendPool", deployLendPool) \o
  ThroughProvider("LendPoolLoan", deployLendPoolLoan) \o
  ThroughProvider("LendPoolConfigurator", deployLendPoolConfigurator) \o
  Do("pause", "LendPool") \o
  deployBTokenImplementations

(* WETH is the oracle's unit, every other reserve needs an aggregator.     *)
full_deploy_oracle_reserve(n, skipOracle) ==
  IF skipOracle THEN Do("publishConfig", "ReserveOracle") ELSE
    getWrappedNativeTokenAddress(n) \o deployReserveOracle \o
    (IF Named(n, "ReserveOracle")
       THEN Do("findConfig", "ReserveOracle") \o Do("recall", "ReserveOracle")
              \o upgradeProxy("ReserveOracle", "BendProxyAdminPool")
       ELSE deployBendUpgradeableProxy("ReserveOracle", "BendProxyAdminPool",
                                       {}, {"WETH"})
              \o On("fill", "ReserveOracle", ToSetOfKeys(Reserves) \ {"WETH"}))
    \o Do("publish", "ReserveOracle")

full_deploy_oracle_nft(n, skipOracle) ==
  IF skipOracle THEN Do("publishConfig", "NFTOracle") ELSE
    deployNFTOracle \o
    (IF Named(n, "NFTOracle")
       THEN Do("findConfig", "NFTOracle") \o Do("recall", "NFTOracle")
              \o upgradeProxy("NFTOracle", "BendProxyAdminPool")
       ELSE deployBendUpgradeableProxy("NFTOracle", "BendProxyAdminPool",
                                       {}, {})
              \o On("fill", "NFTOracle", ToSetOfKeys(Nfts)))
    \o Do("publish", "NFTOracle")

full_initialize_lend_pool ==
  initReservesByHelper \o configureReservesByHelper \o
  initNftsByHelper \o configureNftsByHelper

full_initialize_gateway ==
  On("approveNFT", "WETHGateway", ToSetOfKeys(Nfts)) \o
  On("approveERC20", "PunkGateway", ToSetOfKeys(Reserves))

(* The branch that would reuse a gateway is switched off: its address is   *)
(* the constant undefined.                                                 *)
full_deploy_weth_gateway(n) ==
  getWrappedNativeTokenAddress(n) \o deployWETHGateway \o
  deployBendUpgradeableProxy("WETHGateway", "BendProxyAdminPool",
                             {"LendPoolAddressesProvider"}, {"WETH"})
  \o Do("publish", "WETHGateway")

full_deploy_punk_gateway(n) ==
  getCryptoPunksMarketAddress(n) \o getWrappedPunkTokenAddress(n) \o
  deployPunkGateway \o
  deployBendUpgradeableProxy("PunkGateway", "BendProxyAdminPool",
    {"LendPoolAddressesProvider", "WETHGateway"}
      \cup (IF Named(n, "WPUNKS") THEN {} ELSE {"WrappedPunk"}),
    IF Named(n, "WPUNKS") THEN {"WPUNKS"} ELSE {})
  \o Do("publish", "PunkGateway")

full_deploy_data_provider ==
  deployWalletBalancerProvider \o Do("publish", "WalletBalanceProvider") \o
  deployBendProtocolDataProvider \o Do("publish", "BendProtocolDataProvider") \o
  deployUiPoolDataProvider \o Do("publish", "UIPoolDataProvider")

-----------------------------------------------------------------------------
(* Proxies that only the book knows of.                                    *)

FindOrDeploy(id, deployImpl, by, uses) ==
  Do("find", id) \o deployImpl \o When("found", Do("recall", id)) \o
  upgradeProxy(id, by) \o
  When("fresh", deployBendUpgradeableProxy(id, by, uses, {}))

full_deploy_uniswapv3_debtswap_adapter ==
  FindOrDeploy("UniswapV3DebtSwapAdapter", deployUniswapV3DebtSwapAdapter,
               "BendProxyAdminWTL", {"LendPoolAddressesProvider"})
dev_deploy_aggregator_helper ==
  FindOrDeploy("ChainlinkAggregatorHelper", deployChainlinkAggregatorHelper,
               "BendProxyAdminPool", {"LendPoolAddressesProvider"})
(* Its proxy admin is deployed by no task: the book must have it already.  *)
full_deploy_oracle_token ==
  FindOrDeploy("TokenOracle", deployTokenOracle, "BendV2ProxyAdmin", {})

(* The implementation goes to the "Impl" key, so it may be deployed before *)
(* the proxy is looked for.                                                *)
full_deploy_wrapper_gateway(id) ==
  deployWrapperGatewayImpl(id) \o Do("find", id) \o
  When("found", Do("recall", id)) \o upgradeProxy(id, "BendProxyAdminWTL") \o
  When("fresh", deployBendUpgradeableProxy(id, "BendProxyAdminWTL",
                  {"LendPoolAddressesProvider", "WETHGateway"}, {}))

-----------------------------------------------------------------------------
(* tasks/misc/new-implementation.ts, run with --upgrade.                   *)

dev_upgrade_implementation(id, by) ==
  upgradeProxy(id, by) \o Do("recall", id)

NewLendPool_LibrariesLast == ThroughProvider("LendPool", deployLendPool) \o
                             deployLendPoolLibraries
NewLendPool == deployLendPoolLibraries \o
               ThroughProvider("LendPool", deployLendPool)
NewConfigurator == deployConfiguratorLogicLibrary \o
  ThroughProvider("LendPoolConfigurator", deployLendPoolConfigurator)
NewLoan == ThroughProvider("LendPoolLoan", deployLendPoolLoan)

(* The proxy is the one the provider publishes, not the book's.            *)
NewBehindEntry(id, deployImpl) ==
  deployImpl \o Do("findEntry", id) \o Do("recall", id) \o
  dev_upgrade_implementation(id, "BendProxyAdminPool")
NewReserveOracle == NewBehindEntry("ReserveOracle", deployReserveOracle)
NewNFTOracle == NewBehindEntry("NFTOracle", deployNFTOracle)
NewWETHGateway(n) == getWrappedNativeTokenAddress(n) \o
                     NewBehindEntry("WETHGateway", deployWETHGateway)
NewPunkGateway_NotRecalled(n) ==
  getCryptoPunksMarketAddress(n) \o getWrappedPunkTokenAddress(n) \o
  deployPunkGateway \o Do("findEntry", "PunkGateway") \o
  upgradeProxy("PunkGateway", "BendProxyAdminPool")
NewPunkGateway(n) ==
  getCryptoPunksMarketAddress(n) \o getWrappedPunkTokenAddress(n) \o
  NewBehindEntry("PunkGateway", deployPunkGateway)

NewKodaGateway ==
  findInDb("KodaGateway") \o deployWrapperGateway("KodaGateway") \o
  Do("recall", "KodaGateway") \o
  dev_upgrade_implementation("KodaGateway", "BendProxyAdminWTL")

NewDataProvider(id, deploy) == deploy \o Do("publish", id)
NewBendProtocolDataProvider ==
  NewDataProvider("BendProtocolDataProvider", deployBendProtocolDataProvider)
NewUiPoolDataProvider ==
  NewDataProvider("UIPoolDataProvider", deployUiPoolDataProvider)
NewWalletBalancerProvider ==
  NewDataProvider("WalletBalanceProvider", deployWalletBalancerProvider)

(* updateDebtToken of every reserve: one transaction on the pool.          *)
dev_upgrade_all_debtokens == Plain("DebtToken", {}) \o Do("call", "LendPool")

helpers_deploy_new_interest_rate(symbol) ==
  deployInterestRateWithID(Strategy(symbol))

-----------------------------------------------------------------------------
(* Administration of a market that is open.                                *)

pool_admin_set_pause_off == Do("unpause", "LendPool")
pool_admin_update_nfts_config == configureNftsByHelper
pool_admin_update_reserves_config == configureReservesByHelper

(* Transactions the tasks send to a contract of the book or of the         *)
(* provider, which change nothing this model keeps.                        *)
callInDb(id) == <<[I("call", id) EXCEPT !.uses = {id}]>>
callEntry(e) == <<[I("call", e) EXCEPT !.reads = {e}]>>

full_wethgateway_authorize_caller_whitelist == callInDb("WETHGateway")
full_punkgateway_authorize_caller_whitelist == callInDb("PunkGateway")
bend_collector_approve_erc20 ==
  <<[I("given", "BendCollector") EXCEPT !.by = "BendProxyAdminFund"]>> \o
  Do("call", "BendCollector")
oracle_admin_set_price_feed_admin == callEntry("NFTOracle")
oracle_admin_feed_init_nft_price ==
  For(Nfts, LAMBDA s : callEntry("NFTOracle"))
oracle_admin_add_usd_eth_asset == callEntry("ReserveOracle")

(* The first looks the oracle up at the provider, the second in the book.  *)
helpers_add_nft_to_oracle(symbol) ==
  <<[I("addAsset", "NFTOracle") EXCEPT !.assets = {symbol},
                                       !.reads = {"NFTOracle"}]>>
oracle_admin_set_nft_assets(symbol) ==
  <<[I("addAsset", "NFTOracle") EXCEPT !.assets = {symbol},
                                       !.uses = {"NFTOracle"}]>>

-----------------------------------------------------------------------------
(* tasks/dev: the development environment, with mocks.                     *)

dev_deploy_mock_reserves == deployAllMockTokens
dev_deploy_mock_nfts == deployAllMockNfts

(* The proxy admin is a signer, not one of the proxy admin contracts.      *)
dev_deploy_mock_bnft_registry ==
  deployGenericBNFTImpl \o deployBNFTRegistry \o
  deployBendUpgradeableProxy("BNFTRegistry", "none", {"BNFT"}, {})
dev_deploy_mock_bnft_tokens ==
  For(Nfts, LAMBDA s : On("createBNFT", "BNFTRegistry", {s}))

dev_deploy_address_provider ==
  deployLendPoolAddressesProvider \o
  Do("admit", "PoolAdmin") \o Do("admit", "EmergencyAdmin") \o
  deployLendPoolAddressesProviderRegistry \o
  Do("register", "LendPoolAddressesProviderRegistry")

(* The market is not paused, and has no incentives controller.             *)
dev_deploy_lend_pool ==
  findInDb("BNFTRegistry") \o Do("publish", "BNFTRegistry") \o
  deployBendLibraries \o
  ThroughProvider("LendPool", deployLendPool) \o
  ThroughProvider("LendPoolConfigurator", deployLendPoolConfigurator) \o
  ThroughProvider("LendPoolLoan", deployLendPoolLoan) \o
  deployBTokenImplementations

deployChainlinkMockAggregator == deployMockChainlinkOracle \o
                                 Do("call", "MockChainlinkOracle")
deployAllReservesMockAggregatorsInPoolConfig ==
  For(Reserves, LAMBDA s : deployChainlinkMockAggregator)

setAggregatorsInReserveOracle ==
  For(Reserves, LAMBDA s : On("fill", "ReserveOracle", {s}))
addAssetsInNFTOracle == For(Nfts, LAMBDA s : On("fill", "NFTOracle", {s}))
setPricesInNFTOracle == For(Nfts, LAMBDA s : Do("call", "NFTOracle"))

(* The oracles are initialised and published without a proxy, and filled   *)
(* afterwards.                                                             *)
dev_deploy_oracle_reserve ==
  deployAllReservesMockAggregatorsInPoolConfig \o deployReserveOracle \o
  On("initialize", "ReserveOracle", {"WETH"}) \o
  Do("publish", "ReserveOracle") \o setAggregatorsInReserveOracle
dev_deploy_oracle_nft ==
  deployNFTOracle \o On("initialize", "NFTOracle", {}) \o
  Do("publish", "NFTOracle") \o addAssetsInNFTOracle \o setPricesInNFTOracle

(* The providers of views are deployed but not published.                  *)
dev_initialize_lend_pool ==
  deployBendProtocolDataProvider \o
  initReservesByHelper \o configureReservesByHelper \o
  initNftsByHelper \o configureNftsByHelper \o
  deployWalletBalancerProvider \o deployBendProtocolDataProvider \o
  deployUiPoolDataProvider \o full_initialize_gateway

dev_add_mock_nfts ==
  For(Nfts, LAMBDA s : Do("find", s) \o
                       When("fresh", Token("MintableERC721", s)))

dev_set_mock_nfts ==
  For(Nfts, LAMBDA s : Only(s # "WPUNKS", Do("find", s) \o
                                          When("found", Do("call", s))))
dev_deploy_all_mock_aggregators == deployAllReservesMockAggregatorsInPoolConfig

-----------------------------------------------------------------------------
(* The migrations (tasks/migrations) and the tasks run by hand afterwards. *)

bend_mainnet_PunkFirst == <<"proxy-admin", "bend-collector",
  "address-provider", "lend-pool", "oracle-reserve", "oracle-nft",
  "initialize-lend-pool", "punk-gateway", "weth-gateway",
  "initialize-gateway", "data-provider">>
bend_mainnet_PricesLast == <<"proxy-admin", "bend-collector",
  "address-provider", "lend-pool", "initialize-lend-pool", "oracle-reserve",
  "oracle-nft", "weth-gateway", "punk-gateway", "initialize-gateway",
  "data-provider">>
bend_mainnet == <<"proxy-admin", "bend-collector", "address-provider",
  "lend-pool", "oracle-reserve", "oracle-nft", "initialize-lend-pool",
  "weth-gateway", "punk-gateway", "initialize-gateway", "data-provider">>

bend_dev == <<"mock-reserves", "mock-nfts", "mock-bnft-registry",
  "mock-bnft-tokens", "proxy-admin", "dev-address-provider", "dev-lend-pool",
  "dev-oracle-reserve", "dev-oracle-nft", "weth-gateway", "punk-gateway",
  "dev-initialize-lend-pool">>

Migrations == [n \in Networks |-> IF n \in Full THEN bend_mainnet ELSE bend_dev]

FullTask(n, t) ==
  CASE t = "proxy-admin" -> full_deploy_proxy_admin(n)
    [] t = "bend-collector" -> full_deploy_bend_collector
    [] t = "address-provider" -> full_deploy_address_provider(n, n = "skip")
    [] t = "lend-pool" -> full_deploy_lend_pool
    [] t = "oracle-reserve" -> full_deploy_oracle_reserve(n, n = "skip")
    [] t = "oracle-nft" -> full_deploy_oracle_nft(n, n = "skip")
    [] t = "initialize-lend-pool" -> full_initialize_lend_pool
    [] t = "weth-gateway" -> full_deploy_weth_gateway(n)
    [] t = "punk-gateway" -> full_deploy_punk_gateway(n)
    [] t = "initialize-gateway" -> full_initialize_gateway
    [] t = "data-provider" -> full_deploy_data_provider

DevTask(t) ==
  CASE t = "mock-reserves" -> dev_deploy_mock_reserves
    [] t = "mock-nfts" -> dev_deploy_mock_nfts
    [] t = "mock-bnft-registry" -> dev_deploy_mock_bnft_registry
    [] t = "mock-bnft-tokens" -> dev_deploy_mock_bnft_tokens
    [] t = "dev-address-provider" -> dev_deploy_address_provider
    [] t = "dev-lend-pool" -> dev_deploy_lend_pool
    [] t = "dev-oracle-reserve" -> dev_deploy_oracle_reserve
    [] t = "dev-oracle-nft" -> dev_deploy_oracle_nft
    [] t = "dev-initialize-lend-pool" -> dev_initialize_lend_pool

(* dev:deploy-new-implementation --contract c                              *)
NewImplementation(n, c) ==
  CASE c = "LendPool" -> NewLendPool
    [] c = "LendPoolConfigurator" -> NewConfigurator
    [] c = "LendPoolLoan" -> NewLoan
    [] c = "ReserveOracle" -> NewReserveOracle
    [] c = "NFTOracle" -> NewNFTOracle
    [] c = "WETHGateway" -> NewWETHGateway(n)
    [] c = "PunkGateway" -> NewPunkGateway(n)
    [] c = "BendProtocolDataProvider" -> NewBendProtocolDataProvider
    [] c = "UiPoolDataProvider" -> NewUiPoolDataProvider
    [] c = "WalletBalancerProvider" -> NewWalletBalancerProvider
    [] c = "KodaGateway" -> NewKodaGateway

Contracts == {"LendPool", "LendPoolConfigurator", "LendPoolLoan",
  "ReserveOracle", "NFTOracle", "WETHGateway", "PunkGateway",
  "BendProtocolDataProvider", "UiPoolDataProvider", "WalletBalancerProvider"}

HandTask(t) ==
  CASE t = "set-pause-off" -> pool_admin_set_pause_off
    [] t = "upgrade-bend-collector" -> full_upgrade_bend_collector
    [] t = "wrapper-gateway" -> full_deploy_wrapper_gateway("KodaGateway")
    [] t = "upgrade-all-debtokens" -> dev_upgrade_all_debtokens
    [] t = "new-interest-rate" -> helpers_deploy_new_interest_rate("USDT")
    [] t = "WstETHPriceAggregator" -> deployWstETHPriceAggregator
    [] t = "update-nfts-config" -> pool_admin_update_nfts_config
    [] t = "update-reserves-config" -> pool_admin_update_reserves_config
    [] t = "weth-whitelist" -> full_wethgateway_authorize_caller_whitelist
    [] t = "punk-whitelist" -> full_punkgateway_authorize_caller_whitelist
    [] t = "collector-approve" -> bend_collector_approve_erc20
    [] t = "set-price-feed-admin" -> oracle_admin_set_price_feed_admin
    [] t = "feed-init-nft-price" -> oracle_admin_feed_init_nft_price
    [] t = "add-usd-eth-asset" -> oracle_admin_add_usd_eth_asset
    [] t = "add-nft-to-oracle" -> helpers_add_nft_to_oracle("AZUKI")
    [] t = "set-nft-assets" -> oracle_admin_set_nft_assets("AZUKI")
    [] t = "set-mock-nfts" -> dev_set_mock_nfts
    [] t = "all-mock-aggregators" -> dev_deploy_all_mock_aggregators
    [] t = "mock-weth" -> deployWETH9
    [] t = "debtswap-adapter" -> full_deploy_uniswapv3_debtswap_adapter
    [] t = "aggregator-helper" -> dev_deploy_aggregator_helper
    [] t = "oracle-token" -> full_deploy_oracle_token
    [] t = "KodaGateway" -> NewKodaGateway
    [] t = "add-mock-nfts" -> dev_add_mock_nfts
    [] t = "mock-usdt" -> deployOneMockToken("USDT")
    [] t = "mock-aggregator" -> deployChainlinkMockAggregator
    [] t = "mock-interceptor" -> deployMockLoanRepaidInterceptor
    [] t = "mock-stakes" -> deployMockIncentivesController

HandTasks == {"set-pause-off", "wrapper-gateway",
  "upgrade-all-debtokens", "new-interest-rate", "WstETHPriceAggregator",
  "update-nfts-config", "update-reserves-config", "weth-whitelist",
  "punk-whitelist", "set-price-feed-admin", "feed-init-nft-price",
  "add-usd-eth-asset"}
ProductionTasks == {"upgrade-bend-collector", "collector-approve",
                    "add-nft-to-oracle", "set-nft-assets"}
LostProxyTasks == {"debtswap-adapter", "aggregator-helper", "oracle-token",
                   "KodaGateway"}
MockTasks == {"add-mock-nfts", "mock-usdt", "mock-aggregator",
              "mock-interceptor", "mock-stakes", "set-mock-nfts",
              "all-mock-aggregators", "mock-weth"}

TasksOf(n) == ToSetOfKeys(Migrations[n])
TaskNames == TasksOf("main") \cup TasksOf("dev") \cup Contracts \cup HandTasks
  \cup ProductionTasks \cup LostProxyTasks \cup MockTasks

Script(n, t) ==
  CASE t \in TasksOf("main") -> FullTask(n, t)
    [] t \in TasksOf("dev") \ TasksOf("main") -> DevTask(t)
    [] t \in Contracts -> NewImplementation(n, t)
    [] OTHER -> HandTask(t)
Scripts == [n \in Networks |-> [t \in TaskNames |-> Script(n, t)]]
=============================================================================
