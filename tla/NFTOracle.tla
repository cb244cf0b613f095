----------------------------- MODULE NFTOracle ------------------------------
(***************************************************************************)
(* The price oracle of the collections, contracts/protocol/NFTOracle.sol.  *)
(* The feed administrator reports prices; a report is stored, and the      *)
(* price the pool reads is the time-weighted average computed at the time  *)
(* of the last report.  A collection may be mapped to another one (a       *)
(* wrapper to what it wraps) and is then given the other's reports.        *)
(*                                                                         *)
(* setAssets and setMultipleAssetsData are sequences of single calls.      *)
(* The roundId of a record is the length of the list it was made for, and  *)
(* nothing uses it; it is left out.  nftPriceFeedKeys lists registered.    *)
(***************************************************************************)
EXTENDS Integers, Sequences, FiniteSetsExt, Functions

CONSTANTS
  Assets,          \* the NFT contracts
  NoAsset,         \* address(0)
  DecimalPrecision,   \* decimalPrecision: 100% in the deviations below
  Prices,          \* bound: the prices that are reported
  TwapIntervals,   \* what the owner sets twapInterval to
  ValidityParams,  \* what the owner sets the limits of a report to
  StartTime,       \* the timestamp of deployment, beyond every interval
  MaxTime,         \* bound: the last timestamp
  MaxReports,      \* bound: the length of the history of an asset
  MaxOwnerCalls    \* bound: the number of changes by the owner

ASSUME NoAssetAssumption == NoAsset \notin Assets

ASSUME OracleInputAssumption ==
  /\ DecimalPrecision \in Nat \ {0}
  /\ Prices \subseteq Nat
  /\ StartTime \in Nat /\ MaxTime \in Nat /\ MaxReports \in Nat
  /\ MaxOwnerCalls \in Nat
  /\ \A i \in TwapIntervals : i \in Nat /\ i < StartTime

VARIABLES
  registered,     \* nftPriceFeedMap[a].registered
  nftPriceData,   \* nftPriceFeedMap[a].nftPriceData
  twapPriceMap,   \* the average at the last report; 0: none
  mappedAssets,   \* _originalAssetToMappedAsset
  originalAsset,  \* _mappedAssetToOriginalAsset
  nftPaused, nftPriceStale,
  twapInterval,
  validity,       \* the four limits of setDataValidityParameters
  now,            \* block.timestamp
  ownerCalls      \* for the bound only: how many there have been

feedVars == <<nftPriceData, twapPriceMap>>
mappingVars == <<mappedAssets, originalAsset>>
markVars == <<nftPaused, nftPriceStale>>
paramVars == <<twapInterval, validity>>
ownerVars == <<registered, mappingVars, markVars, paramVars>>
vars == <<registered, feedVars, mappingVars, markVars, paramVars, now,
          ownerCalls>>

NFTPriceData == [price: Nat \ {0}, timestamp: Nat]

Init ==
  /\ registered = {}
  /\ nftPriceData = [a \in Assets |-> << >>]
  /\ twapPriceMap = [a \in Assets |-> 0]
  /\ mappedAssets = [a \in Assets |-> {}]
  /\ originalAsset = [a \in Assets |-> NoAsset]
  /\ nftPaused = {}
  /\ nftPriceStale = {}
  /\ twapInterval \in TwapIntervals
  /\ validity \in ValidityParams
  /\ now = StartTime
  /\ ownerCalls = 0

-----------------------------------------------------------------------------
(* The average: every price counts for the time it was the latest one,     *)
(* back to the beginning of the interval or of the history.                *)

Last(records) == records[Len(records)]

LatestTimestamp(records) ==
  IF records = << >> THEN 0 ELSE Last(records).timestamp

RoundAtBase_None(records, base) == 0  \* mutant: the walk does not end at base

\* the newest record but the last that is as old as the interval; 0: none
RoundAtBase(records, base) ==
  Max({0} \cup {i \in 1..(Len(records) - 1) : records[i].timestamp <= base})

\* A record's price is the latest one from its report on, or from the base of
\* the interval on, until the next report, or until now.
BeginOf(records, base, i) ==
  IF i = RoundAtBase(records, base) THEN base ELSE records[i].timestamp

EndOf(records, time, i) ==
  IF i = Len(records) THEN time ELSE records[i + 1].timestamp

TwapPrice(records, interval, time) ==
  LET base == time - interval
      first == RoundAtBase(records, base)
      weighted == [i \in 1..Len(records) |->
        records[i].price *
          (EndOf(records, time, i) - BeginOf(records, base, i))]
      weightedPrice ==
        SumFunctionOnSet(weighted, Max({1, first})..Len(records))
  IN  IF Last(records).timestamp < base \/ Len(records) = 1
      THEN Last(records).price
      ELSE weightedPrice \div (IF first > 0 THEN interval
                               ELSE time - records[1].timestamp)

\* mutant: the price of the last report
GetAssetPrice_Latest(a) == Last(nftPriceData[a]).price

\* The price the pool reads (of an asset with a history).
GetAssetPrice(a) ==
  IF twapPriceMap[a] = 0 THEN Last(nftPriceData[a]).price ELSE twapPriceMap[a]

Deviation(price, old) ==
  ((IF price > old THEN price - old ELSE old - price) * DecimalPrecision)
    \div old

CheckValidityOfPrice(records, price) ==
  (records # << >> /\ price # Last(records).price) =>
    LET percentDeviation == Deviation(price, Last(records).price)
        timeDeviation == now - Last(records).timestamp
    IN  /\ percentDeviation <= validity.maxPriceDeviation
        /\ timeDeviation >= validity.minUpdateTime
        /\ \/ percentDeviation <= validity.maxPriceDeviationWithTime
           \/ timeDeviation >= validity.timeIntervalWithPrice

ReportAccepted_ZeroToo(a, price) ==  \* mutant: a price of zero is accepted
  /\ a \notin nftPaused
  /\ a \in registered
  /\ now > LatestTimestamp(nftPriceData[a])
  /\ CheckValidityOfPrice(nftPriceData[a], price)
  /\ twapInterval # 0

ReportAccepted(a, price) ==
  /\ a \notin nftPaused
  /\ a \in registered
  /\ now > LatestTimestamp(nftPriceData[a])
  /\ price > 0
  /\ CheckValidityOfPrice(nftPriceData[a], price)
  /\ twapInterval # 0

-----------------------------------------------------------------------------
(* The feed administrator                                                  *)

\* The mapped assets are given the record after the average is taken; an
\* asset that is mapped to itself is given it twice.
SetAssetData(a, price) ==
  LET data == [price |-> price, timestamp |-> now]
      records == Append(nftPriceData[a], data)
      Before(b) == IF b = a THEN records ELSE nftPriceData[b]
  IN  /\ ReportAccepted(a, price)
      /\ \A b \in {a} \cup mappedAssets[a] : Len(nftPriceData[b]) < MaxReports
      /\ nftPriceData' = [b \in Assets |->
            IF b \in mappedAssets[a] THEN Append(Before(b), data)
                                    ELSE Before(b)]
      /\ twapPriceMap' = [b \in Assets |->
            IF b \in {a} \cup mappedAssets[a]
            THEN TwapPrice(records, twapInterval, now)
            ELSE twapPriceMap[b]]
      /\ UNCHANGED <<registered, mappingVars, markVars, paramVars, now,
                     ownerCalls>>

-----------------------------------------------------------------------------
(* The owner                                                               *)

AddAsset(a) ==
  /\ a \notin registered
  /\ registered' = registered \cup {a}
  /\ UNCHANGED <<feedVars, mappingVars, markVars, paramVars, now>>

RemoveAsset_Mapped(a) ==  \* mutant: a mapped asset may be removed
  /\ a \in registered
  /\ mappedAssets[a] = {}
  /\ registered' = registered \ {a}
  /\ nftPriceData' = [nftPriceData EXCEPT ![a] = << >>]
  /\ UNCHANGED <<twapPriceMap, mappingVars, markVars, paramVars, now>>

\* The average and the marks of the asset stay behind.
RemoveAsset(a) ==
  /\ a \in registered
  /\ mappedAssets[a] = {}
  /\ originalAsset[a] = NoAsset
  /\ registered' = registered \ {a}
  /\ nftPriceData' = [nftPriceData EXCEPT ![a] = << >>]
  /\ UNCHANGED <<twapPriceMap, mappingVars, markVars, paramVars, now>>

AddAssetMapping(origin, mapped) ==
  /\ {origin, mapped} \subseteq registered
  /\ originalAsset[mapped] = NoAsset
  /\ mappedAssets[mapped] = {}
  /\ originalAsset[origin] = NoAsset
  /\ mappedAssets' = [mappedAssets EXCEPT ![origin] = @ \cup {mapped}]
  /\ originalAsset' = [originalAsset EXCEPT ![mapped] = origin]
  /\ UNCHANGED <<registered, feedVars, markVars, paramVars, now>>

\* Nothing checks that mapped is mapped to origin.
RemoveAssetMapping(origin, mapped) ==
  /\ {origin, mapped} \subseteq registered
  /\ mappedAssets' = [mappedAssets EXCEPT ![origin] = @ \ {mapped}]
  /\ originalAsset' = [originalAsset EXCEPT ![mapped] = NoAsset]
  /\ UNCHANGED <<registered, feedVars, markVars, paramVars, now>>

SetPause(a, val) ==
  /\ a \in registered
  /\ nftPaused' = IF val THEN nftPaused \cup {a} ELSE nftPaused \ {a}
  /\ UNCHANGED <<registered, feedVars, mappingVars, nftPriceStale, paramVars,
                 now>>

\* setPriceStale, which the feed administrator too may call with val.
SetPriceStale(a, val) ==
  LET marked == {a} \cup mappedAssets[a]
  IN  /\ a \in registered
      /\ nftPriceStale' = IF val THEN nftPriceStale \cup marked
                                 ELSE nftPriceStale \ marked
      /\ UNCHANGED <<registered, feedVars, mappingVars, nftPaused, paramVars,
                     now>>

SetTwapInterval(interval) ==
  /\ twapInterval' = interval
  /\ UNCHANGED <<registered, feedVars, mappingVars, markVars, validity, now>>

SetDataValidityParameters(params) ==
  /\ validity' = params
  /\ UNCHANGED <<registered, feedVars, mappingVars, markVars, twapInterval,
                 now>>

Tick ==
  /\ now < MaxTime
  /\ now' = now + 1
  /\ UNCHANGED <<registered, feedVars, mappingVars, markVars, paramVars,
                 ownerCalls>>

-----------------------------------------------------------------------------
MappingStep ==
  \E a \in Assets :
    \/ AddAsset(a)
    \/ RemoveAsset(a)
    \/ \E b \in Assets : AddAssetMapping(a, b) \/ RemoveAssetMapping(a, b)

SettingStep ==
  \/ \E a \in Assets, val \in BOOLEAN :
       SetPause(a, val) \/ SetPriceStale(a, val)
  \/ \E i \in TwapIntervals : SetTwapInterval(i)
  \/ \E p \in ValidityParams : SetDataValidityParameters(p)

OwnerStep ==
  /\ MappingStep \/ SettingStep
  /\ ownerCalls' = ownerCalls + (IF ownerVars' = ownerVars THEN 0 ELSE 1)
  /\ ownerCalls' <= MaxOwnerCalls

Next ==
  \/ \E a \in Assets, price \in Prices : SetAssetData(a, price)
  \/ OwnerStep
  \/ Tick

Spec == Init /\ [][Next]_vars

-----------------------------------------------------------------------------
MappingTypeOK ==
  /\ registered \subseteq Assets
  /\ mappedAssets \in [Assets -> SUBSET Assets]
  /\ originalAsset \in [Assets -> Assets \cup {NoAsset}]

\* Type invariant: no price is zero (deviations are divided by it), and a
\* history never goes back in time or beyond the present.
TypeOK ==
  /\ MappingTypeOK
  /\ nftPriceData \in [Assets -> Seq(NFTPriceData)]
  /\ \A a \in Assets :
       \A i \in 1..Len(nftPriceData[a]) :
         /\ nftPriceData[a][i].timestamp <= now
         /\ i > 1 => nftPriceData[a][i - 1].timestamp
                       <= nftPriceData[a][i].timestamp
  /\ twapPriceMap \in [Assets -> Nat]
  /\ nftPaused \subseteq Assets /\ nftPriceStale \subseteq Assets
  /\ twapInterval \in TwapIntervals
  /\ validity \in ValidityParams
  /\ now \in Nat /\ ownerCalls \in 0..MaxOwnerCalls

\* The two sides of a mapping agree as far as the code needs them to: what an
\* asset names as its original lists it among its mapped assets, both are
\* registered, and a mapped asset is no original of another one, so that a
\* report reaches everything it should in one pass.  (It may be mapped to
\* itself: setAssetMapping does not compare the two.)
MappingsKnown ==
  \A m \in Assets :
    originalAsset[m] # NoAsset =>
      /\ m \in mappedAssets[originalAsset[m]]
      /\ {m, originalAsset[m]} \subseteq registered
      /\ mappedAssets[m] \subseteq {m}

\* What RemoveAsset is there to ensure ("make sure the asset mapping is empty
\* before remove asset", NFTOracle.sol:136): nothing is mapped to or from an
\* asset that was removed, so that no report reaches it.
RemovedAssetsUnmapped ==
  \A o \in Assets : \A m \in mappedAssets[o] : {o, m} \subseteq registered

\* The price at a time is that of the newest record that is not younger.
PriceAt(records, time) ==
  records[Max({i \in 1..Len(records) : records[i].timestamp <= time})].price

\* The walk backwards over the records gives the average of the price over
\* the time units of the interval, or of the history where that is shorter.
TwapIsAverage ==
  \A a \in Assets, interval \in TwapIntervals \ {0} :
    LET records == nftPriceData[a]
        begin == Max({now - interval, records[1].timestamp})
        prices == [t \in begin..(now - 1) |-> PriceAt(records, t)]
    IN  (records # << >> /\ records[1].timestamp < now) =>
          TwapPrice(records, interval, now) =
            SumFunctionOnSet(prices, begin..(now - 1)) \div (now - begin)

\* A report does not move the price of the block it is made in: the price
\* that is read after it lies between the lowest and the highest of the prices
\* reported for the asset before it.  One extreme report, or one that is
\* corrected in the next block, cannot set the price loans are judged by.
OnlyPastPricesCount ==
  [][\A a \in Assets :
       (/\ nftPriceData[a] # << >>
        /\ Len(nftPriceData[a]) < Len(nftPriceData'[a])
        /\ \A o \in Assets \ {a} : a \notin mappedAssets[o])
       => LET past == {nftPriceData[a][i].price : i \in 1..Len(nftPriceData[a])}
          IN  \E low \in past, high \in past :
                low <= GetAssetPrice(a)' /\ GetAssetPrice(a)' <= high]_vars

=============================================================================
