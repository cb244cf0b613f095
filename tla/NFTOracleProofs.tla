-------------------------- MODULE NFTOracleProofs ---------------------------
(***************************************************************************)
(* The price oracle for any number of assets, records, prices and owner    *)
(* calls: the asset mapping, the histories, and the average of a history.  *)
(* The average is a sum over the records; it is related to the time the    *)
(* records cut into steps (MathLemmas!IsSteps), once to bound it by the    *)
(* prices that held and once to equate it with the sum over time units.    *)
(***************************************************************************)
EXTENDS NFTOracle, MathLemmas

MappingInv == MappingTypeOK /\ MappingsKnown

LEMMA InitMapping == Init => MappingInv
BY NoAssetAssumption DEF Init, MappingInv, MappingTypeOK, MappingsKnown

LEMMA AddAssetMappings ==
  ASSUME MappingInv, NEW a \in Assets, AddAsset(a)
  PROVE  MappingInv'
BY DEF AddAsset, MappingInv, MappingTypeOK, MappingsKnown, mappingVars

\* An asset that is removed is neither side of a pair.
LEMMA RemoveAssetMappings ==
  ASSUME MappingInv, NEW a \in Assets, RemoveAsset(a)
  PROVE  MappingInv'
<1>1. MappingTypeOK'
  BY DEF RemoveAsset, MappingInv, MappingTypeOK, mappingVars
<1>2. ASSUME NEW m \in Assets, originalAsset[m] # NoAsset
      PROVE  a \notin {m, originalAsset[m]}
  BY <1>2 DEF RemoveAsset, MappingInv, MappingsKnown
<1>3. MappingsKnown'
  BY <1>2 DEF RemoveAsset, MappingInv, MappingsKnown, mappingVars
<1> QED
  BY <1>1, <1>3 DEF MappingInv

\* The new mapped asset has no mapped assets, and the origin no original:
\* no chain arises.
LEMMA AddMappingMappings ==
  ASSUME MappingInv, NEW origin \in Assets, NEW mapped \in Assets,
         AddAssetMapping(origin, mapped)
  PROVE  MappingInv'
<1>1. MappingTypeOK'
  BY DEF AddAssetMapping, MappingInv, MappingTypeOK
<1>2. /\ \A m \in Assets : originalAsset'[m] =
            IF m = mapped THEN origin ELSE originalAsset[m]
      /\ \A m \in Assets : mappedAssets'[m] =
            IF m = origin THEN mappedAssets[m] \cup {mapped}
                          ELSE mappedAssets[m]
  BY DEF AddAssetMapping, MappingInv, MappingTypeOK
<1>3. MappingsKnown'
  <2> SUFFICES ASSUME NEW m \in Assets, originalAsset'[m] # NoAsset
               PROVE  /\ m \in mappedAssets'[originalAsset'[m]]
                      /\ {m, originalAsset'[m]} \subseteq registered'
                      /\ mappedAssets'[m] \subseteq {m}
    BY DEF MappingsKnown
  <2>1. CASE m = mapped
    BY <2>1, <1>2 DEF AddAssetMapping
  <2>2. CASE m # mapped
    <3>1. m # origin
      BY <2>2, <1>2 DEF AddAssetMapping
    <3>2. originalAsset[m] \in Assets
      BY <2>2, <1>2 DEF MappingInv, MappingTypeOK
    <3> QED
      BY <2>2, <3>1, <3>2, <1>2 DEF AddAssetMapping, MappingInv, MappingsKnown
  <2> QED
    BY <2>1, <2>2
<1> QED
  BY <1>1, <1>3 DEF MappingInv

\* Removing a pair that does not exist breaks only the side of the list,
\* which the invariant does not speak about.
LEMMA RemoveMappingMappings ==
  ASSUME MappingInv, NEW origin \in Assets, NEW mapped \in Assets,
         RemoveAssetMapping(origin, mapped)
  PROVE  MappingInv'
<1>1. MappingTypeOK'
  BY DEF RemoveAssetMapping, MappingInv, MappingTypeOK
<1>2. /\ \A m \in Assets : originalAsset'[m] =
            IF m = mapped THEN NoAsset ELSE originalAsset[m]
      /\ \A m \in Assets : mappedAssets'[m] =
            IF m = origin THEN mappedAssets[m] \ {mapped}
                          ELSE mappedAssets[m]
  BY DEF RemoveAssetMapping, MappingInv, MappingTypeOK
<1>3. MappingsKnown'
  <2> SUFFICES ASSUME NEW m \in Assets, originalAsset'[m] # NoAsset
               PROVE  /\ m \in mappedAssets'[originalAsset'[m]]
                      /\ {m, originalAsset'[m]} \subseteq registered'
                      /\ mappedAssets'[m] \subseteq {m}
    BY DEF MappingsKnown
  <2>1. m # mapped /\ originalAsset'[m] = originalAsset[m]
    BY <1>2
  <2>2. originalAsset[m] \in Assets
    BY <2>1 DEF MappingInv, MappingTypeOK
  <2> QED
    BY <2>1, <2>2, <1>2 DEF RemoveAssetMapping, MappingInv, MappingsKnown
<1> QED
  BY <1>1, <1>3 DEF MappingInv

LEMMA NextMapping == MappingInv /\ [Next]_vars => MappingInv'
<1> SUFFICES ASSUME MappingInv, [Next]_vars
             PROVE  MappingInv'
  OBVIOUS
<1>1. ASSUME UNCHANGED <<registered, mappingVars>>
      PROVE  MappingInv'
  BY <1>1 DEF MappingInv, MappingTypeOK, MappingsKnown, mappingVars
<1>2. CASE \E a \in Assets, price \in Prices : SetAssetData(a, price)
  BY <1>1, <1>2 DEF SetAssetData
<1>3. CASE MappingStep
  BY <1>3, AddAssetMappings, RemoveAssetMappings, AddMappingMappings,
     RemoveMappingMappings DEF MappingStep
<1>4. CASE SettingStep
  BY <1>1, <1>4 DEF SettingStep, SetPause, SetPriceStale, SetTwapInterval,
     SetDataValidityParameters
<1>5. CASE Tick
  BY <1>1, <1>5 DEF Tick
<1>6. CASE UNCHANGED vars
  BY <1>1, <1>6 DEF vars
<1> QED
  BY <1>2, <1>3, <1>4, <1>5, <1>6 DEF Next, OwnerStep

\* What an asset names as its original lists it, both are registered, and no
\* mapped asset is the original of another: setAssetMapping and removeAsset
\* keep this for every set of assets, although an unmapping may name a wrong
\* origin.
THEOREM MappingsKnownCorrect == Spec => []MappingsKnown
<1>1. Spec => []MappingInv
  BY InitMapping, NextMapping, PTL DEF Spec
<1> QED
  BY <1>1, PTL DEF MappingInv

-----------------------------------------------------------------------------
(* A history: its records never go back in time or beyond the present.     *)
Ordered(records, time) ==
  /\ records \in Seq(NFTPriceData)
  /\ \A i \in 1..Len(records) :
       /\ records[i].timestamp <= time
       /\ i > 1 => records[i - 1].timestamp <= records[i].timestamp

LEMMA RecordTypes ==
  ASSUME NEW records \in Seq(NFTPriceData)
  PROVE  /\ Len(records) \in Nat
         /\ \A i \in 1..Len(records) :
              /\ records[i].timestamp \in Nat
              /\ records[i].price \in Nat /\ records[i].price # 0
<1>1. Len(records) \in Nat
      /\ \A i \in 1..Len(records) : records[i] \in NFTPriceData
  OBVIOUS
<1> QED
  BY <1>1 DEF NFTPriceData

LEMMA TimesAscend ==
  ASSUME NEW records, NEW time \in Nat, Ordered(records, time)
  PROVE  \A j \in 1..Len(records) : \A i \in 1..j :
           records[i].timestamp <= records[j].timestamp
<1>1. /\ Len(records) \in Nat
      /\ \A i \in 1..Len(records) : records[i].timestamp \in Nat
  BY RecordTypes DEF Ordered
<1> DEFINE A == {j \in Nat : j \in 1..Len(records) => \A i \in 1..j :
                   records[i].timestamp <= records[j].timestamp}
<1>2. 0 \in A
  BY <1>1, SMT
<1>3. ASSUME NEW j \in Nat, j \in A
      PROVE  j + 1 \in A
  <2> SUFFICES ASSUME j + 1 \in 1..Len(records), NEW i \in 1..(j + 1)
               PROVE  records[i].timestamp <= records[j + 1].timestamp
    BY SMT
  <2>1. CASE i = j + 1
    BY <2>1, <1>1, SMT
  <2>2. CASE i # j + 1
    <3>1. /\ j \in 1..Len(records) /\ i \in 1..j /\ i \in 1..Len(records)
          /\ j + 1 > 1 /\ (j + 1) - 1 = j
      BY <2>2, <1>1, SMT
    <3>2. records[i].timestamp <= records[j].timestamp
      BY <1>3, <3>1
    <3>3. records[j].timestamp <= records[j + 1].timestamp
      BY <3>1 DEF Ordered
    <3> QED
      BY <1>1, <3>1, <3>2, <3>3, SMT
  <2> QED
    BY <2>1, <2>2
<1>4. Nat \subseteq A
  <2> HIDE DEF A
  <2> QED
    BY <1>2, <1>3, NaturalsByInduction
<1> QED
  BY <1>4, <1>1, SMT

LEMMA RoundAtBaseIs ==
  ASSUME NEW records \in Seq(NFTPriceData), Len(records) >= 1,
         NEW base \in Int
  PROVE  /\ RoundAtBase(records, base) \in 0..(Len(records) - 1)
         /\ RoundAtBase(records, base) > 0 =>
              records[RoundAtBase(records, base)].timestamp <= base
         /\ \A i \in 1..(Len(records) - 1) :
              records[i].timestamp <= base => i <= RoundAtBase(records, base)
<1> DEFINE n == Len(records) - 1
           old == {i \in 1..n : records[i].timestamp <= base}
           S == {0} \cup old
<1>1. n \in Nat
  BY RecordTypes, SMT
<1>2. S \in SUBSET (0..n) /\ S # {}
  BY <1>1, SMT
<1>3. Max(S) \in S /\ \A x \in S : x <= Max(S)
  <2> HIDE DEF S, n
  <2> QED
    BY <1>1, <1>2, MaxIsLargest
<1>4. RoundAtBase(records, base) = Max(S)
  BY DEF RoundAtBase
<1>5. Max(S) \in 0..n /\ (Max(S) > 0 => Max(S) \in old)
  BY <1>1, <1>2, <1>3, SMT
<1>6. \A i \in 1..n : records[i].timestamp <= base => i <= Max(S)
  BY <1>3
<1>7. Max(S) > 0 => records[Max(S)].timestamp <= base
  BY <1>5
<1> QED
  BY <1>4, <1>5, <1>6, <1>7, Zenon

(* The average that is taken of a history of several records with the      *)
(* latest one inside the interval: over the records from First on, each    *)
(* from one cut of the time to the next.                                   *)
HasTwap(records, interval, time) ==
  /\ Ordered(records, time)
  /\ Len(records) > 1
  /\ Last(records).timestamp >= time - interval
  /\ records[1].timestamp < time

First(records, base) == Max({1, RoundAtBase(records, base)})

Cuts(records, base, time) ==
  [i \in 1..(Len(records) + 1) |->
     IF i = Len(records) + 1 THEN time ELSE BeginOf(records, base, i)]

PricesOf(records) == [i \in 1..Len(records) |-> records[i].price]

Weights(records, base, time) ==
  [i \in 1..Len(records) |->
     records[i].price *
       (EndOf(records, time, i) - BeginOf(records, base, i))]

TwapOver(records, interval, time, base, m, n, cut) ==
  /\ interval \in Nat /\ interval > 0 /\ time \in Nat
  /\ HasTwap(records, interval, time)
  /\ base = time - interval
  /\ m = First(records, base)
  /\ n = Len(records)
  /\ cut = Cuts(records, base, time)

TwapCuts(records, interval, time, base, m, n, cut) ==
  /\ n \in Nat /\ m \in Nat /\ m >= 1 /\ m < n
  /\ cut[n + 1] = time
  /\ cut[m] = Max({base, records[1].timestamp})
  /\ cut[m] \in Int
  /\ records[m].timestamp <= cut[m]
  /\ \A i \in (m + 1)..n : cut[i] = records[i].timestamp
  /\ \A i \in m..n : cut[i] <= cut[i + 1] /\ cut[i] \in Int
  /\ \A i \in m..n : cut[i] = BeginOf(records, base, i)
  /\ \A i \in m..n : cut[i + 1] = EndOf(records, time, i)
  /\ time - cut[m] = IF RoundAtBase(records, base) > 0 THEN interval
                     ELSE time - records[1].timestamp
  /\ time - cut[m] > 0

LEMMA CutValues ==
  \A records, interval, time, base, m, n, cut :
    TwapOver(records, interval, time, base, m, n, cut) =>
      TwapCuts(records, interval, time, base, m, n, cut)
<1> SUFFICES
  ASSUME NEW records, NEW interval, NEW time, NEW base, NEW m, NEW n,
         NEW cut, TwapOver(records, interval, time, base, m, n, cut)
  PROVE  TwapCuts(records, interval, time, base, m, n, cut)
  BY Zenon
<1> USE DEF TwapOver
<1> DEFINE r == RoundAtBase(records, base)
<1>1. /\ n \in Nat /\ n > 1 /\ base \in Int /\ base < time
      /\ \A i \in 1..n : records[i].timestamp \in Nat
      /\ \A i \in 1..n : records[i].timestamp <= time
      /\ records[n].timestamp >= base
      /\ records[1].timestamp < time
  BY RecordTypes DEF HasTwap, Ordered, Last
<1>2. /\ r \in 0..(n - 1)
      /\ r > 0 => records[r].timestamp <= base
      /\ \A i \in 1..(n - 1) : records[i].timestamp <= base => i <= r
  <2>1. records \in Seq(NFTPriceData) /\ Len(records) >= 1
    BY <1>1 DEF HasTwap, Ordered
  <2> QED
    BY <2>1, <1>1, RoundAtBaseIs, Zenon
<1>3. \A i \in 1..n : records[1].timestamp <= records[i].timestamp
  BY <1>1, TimesAscend DEF HasTwap
<1>4. m = IF r > 0 THEN r ELSE 1
  <2>1. m = IF 1 >= r THEN 1 ELSE r
    BY <1>2, MaxOfTwo DEF First
  <2> QED
    BY <2>1, <1>2, SMT
<1>5. \A i \in 1..n : cut[i] = IF i = r THEN base ELSE records[i].timestamp
  BY <1>1, SMT DEF Cuts, BeginOf
<1>6. cut[n + 1] = time
  BY <1>1, SMT DEF Cuts
<1> HIDE DEF r
<1>7. m \in Nat /\ m >= 1 /\ m < n
  BY <1>1, <1>2, <1>4, SMT
<1>8. \A i \in (m + 1)..n : cut[i] = records[i].timestamp
  BY <1>2, <1>4, <1>5, <1>7, SMT
<1>9. /\ cut[m] = IF r > 0 THEN base ELSE records[1].timestamp
      /\ cut[m] \in Int
      /\ records[m].timestamp <= cut[m]
  BY <1>1, <1>2, <1>4, <1>5, SMT
<1>10. cut[m] = Max({base, records[1].timestamp})
  <2>1. Max({base, records[1].timestamp}) =
          IF base >= records[1].timestamp THEN base ELSE records[1].timestamp
    BY <1>1, MaxOfTwo
  <2>2. base >= records[1].timestamp <=> r > 0
    <3>1. CASE r > 0
      <4>1. records[1].timestamp <= records[r].timestamp
        BY <3>1, <1>2, <1>3, SMT
      <4> QED
        BY <3>1, <4>1, <1>1, <1>2, SMT
    <3>2. CASE ~ (r > 0)
      <4>1. 1 \in 1..(n - 1) /\ ~ (1 <= r)
        BY <3>2, <1>1, <1>2, SMT
      <4> QED
        BY <3>2, <4>1, <1>1, <1>2, SMT
    <3> QED
      BY <3>1, <3>2
  <2> QED
    BY <2>1, <2>2, <1>9
<1>11. \A i \in m..n : cut[i] <= cut[i + 1] /\ cut[i] \in Int
  <2> SUFFICES ASSUME NEW i \in m..n
               PROVE  cut[i] <= cut[i + 1] /\ cut[i] \in Int
    OBVIOUS
  <2>1. CASE i = n
    <3>1. cut[i] = records[n].timestamp
      BY <2>1, <1>1, <1>7, <1>8, SMT
    <3> QED
      BY <2>1, <3>1, <1>1, <1>6, SMT
  <2>2. CASE i # n
    <3>1. i \in 1..n /\ i + 1 \in (m + 1)..n /\ i + 1 \in 1..n
      BY <2>2, <1>1, <1>7, SMT
    <3>2. cut[i + 1] = records[i + 1].timestamp /\ cut[i + 1] \in Nat
      BY <3>1, <1>1, <1>8, Zenon
    <3>3. CASE i = m
      <4>1. base <= records[i + 1].timestamp
        <5>1. CASE i + 1 = n
          BY <5>1, <1>1
        <5>2. CASE i + 1 # n
          <6>1. i + 1 \in 1..(n - 1) /\ ~ (i + 1 <= r)
            BY <3>1, <3>3, <5>2, <1>1, <1>2, <1>4, SMT
          <6> QED
            BY <6>1, <3>1, <1>1, <1>2, SMT
        <5> QED
          BY <5>1, <5>2
      <4>2. records[1].timestamp <= records[i + 1].timestamp
        BY <3>1, <1>3
      <4> QED
        BY <3>2, <3>3, <4>1, <4>2, <1>9, SMT
    <3>4. CASE i # m
      <4>1. i \in (m + 1)..n /\ i + 1 > 1 /\ (i + 1) - 1 = i
        BY <3>4, <1>1, <1>7, SMT
      <4>2. cut[i] = records[i].timestamp /\ cut[i] \in Nat
        BY <4>1, <3>1, <1>1, <1>8, Zenon
      <4>3. records[i].timestamp <= records[i + 1].timestamp
        BY <4>1, <3>1 DEF HasTwap, Ordered
      <4> QED
        BY <3>2, <4>2, <4>3, SMT
    <3> QED
      BY <3>3, <3>4
  <2> QED
    BY <2>1, <2>2
<1>12. \A i \in m..n : /\ cut[i] = BeginOf(records, base, i)
                       /\ cut[i + 1] = EndOf(records, time, i)
  <2> SUFFICES ASSUME NEW i \in m..n
               PROVE  /\ cut[i] = BeginOf(records, base, i)
                      /\ cut[i + 1] = EndOf(records, time, i)
    OBVIOUS
  <2>1. i \in 1..(n + 1) /\ i # n + 1
    BY <1>1, <1>7, SMT
  <2>2. cut[i] = BeginOf(records, base, i)
    BY <2>1 DEF Cuts
  <2>3. CASE i = n
    BY <2>3, <2>2, <1>6 DEF EndOf
  <2>4. CASE i # n
    <3>1. i + 1 \in (m + 1)..n
      BY <2>4, <1>1, <1>7, SMT
    <3> QED
      BY <2>4, <2>2, <3>1, <1>8 DEF EndOf
  <2> QED
    BY <2>3, <2>4
<1>13. /\ time - cut[m] = IF r > 0 THEN interval
                          ELSE time - records[1].timestamp
       /\ time - cut[m] > 0
  BY <1>1, <1>9, SMT
<1> QED
  BY <1>1, <1>6, <1>7, <1>8, <1>9, <1>10, <1>11, <1>12, <1>13, Zenon
  DEF r, TwapCuts

LEMMA TwapSteps ==
  \A records, interval, time, base, m, n, cut :
    TwapOver(records, interval, time, base, m, n, cut) =>
      IsSteps(cut, PricesOf(records), Weights(records, base, time), m, n)
<1> SUFFICES
  ASSUME NEW records, NEW interval, NEW time, NEW base, NEW m, NEW n,
         NEW cut, TwapOver(records, interval, time, base, m, n, cut)
  PROVE  IsSteps(cut, PricesOf(records), Weights(records, base, time), m, n)
  BY Zenon
<1> TwapCuts(records, interval, time, base, m, n, cut)
  BY CutValues, Zenon
<1> USE DEF TwapOver
<1>1. /\ n \in Nat /\ m \in Nat /\ m >= 1
      /\ cut[n + 1] = time
      /\ \A i \in m..n : cut[i] <= cut[i + 1] /\ cut[i] \in Int
      /\ \A i \in m..n : cut[i] = BeginOf(records, base, i)
      /\ \A i \in m..n : cut[i + 1] = EndOf(records, time, i)
  BY DEF TwapCuts
<1>2. \A i \in 1..n : records[i].price \in Nat
  BY RecordTypes DEF HasTwap, Ordered
<1>3. \A i \in m..(n + 1) : cut[i] \in Int
  <2> SUFFICES ASSUME NEW i \in m..(n + 1) PROVE cut[i] \in Int
    OBVIOUS
  <2>1. i = n + 1 \/ i \in m..n
    BY <1>1, SMT
  <2> QED
    BY <2>1, <1>1
<1>4. \A i \in m..n :
        /\ PricesOf(records)[i] \in Nat
        /\ Weights(records, base, time)[i] =
             PricesOf(records)[i] * (cut[i + 1] - cut[i])
  <2> SUFFICES ASSUME NEW i \in m..n
               PROVE  /\ PricesOf(records)[i] \in Nat
                      /\ Weights(records, base, time)[i] =
                           PricesOf(records)[i] * (cut[i + 1] - cut[i])
    OBVIOUS
  <2>1. i \in 1..n
    BY <1>1, SMT
  <2> QED
    BY <2>1, <1>1, <1>2, Zenon DEF PricesOf, Weights
<1> QED
  BY <1>1, <1>3, <1>4, Zenon DEF IsSteps

TwapDivides(records, interval, time, base, m, n, cut) ==
  TwapPrice(records, interval, time) =
    SumOver(Weights(records, base, time), m, n) \div (cut[n + 1] - cut[m])

LEMMA TwapPriceIs ==
  \A records, interval, time, base, m, n, cut :
    TwapOver(records, interval, time, base, m, n, cut) =>
      TwapDivides(records, interval, time, base, m, n, cut)
<1> SUFFICES
  ASSUME NEW records, NEW interval, NEW time, NEW base, NEW m, NEW n,
         NEW cut, TwapOver(records, interval, time, base, m, n, cut)
  PROVE  TwapDivides(records, interval, time, base, m, n, cut)
  BY Zenon
<1> TwapCuts(records, interval, time, base, m, n, cut)
  BY CutValues, Zenon
<1> USE DEF TwapOver
<1>1. /\ cut[n + 1] = time
      /\ time - cut[m] = IF RoundAtBase(records, base) > 0 THEN interval
                         ELSE time - records[1].timestamp
  BY DEF TwapCuts
<1>2. ~ (Last(records).timestamp < base \/ Len(records) = 1)
  <2>1. /\ Len(records) \in Nat /\ Len(records) > 1
        /\ Last(records).timestamp \in Nat
        /\ Last(records).timestamp >= base
    BY RecordTypes DEF HasTwap, Ordered, Last
  <2> QED
    BY <2>1, SMT
<1> QED
  BY <1>1, <1>2, Zenon
  DEF TwapDivides, TwapPrice, Weights, First, SumOver

LEMMA QuotientBetween ==
  ASSUME NEW low \in Nat, NEW high \in Nat, NEW a \in Nat,
         NEW d \in Nat, d > 0, low * d <= a, a <= high * d
  PROVE  low <= a \div d /\ a \div d <= high
<1>1. /\ low * d \in Nat /\ high * d \in Nat
      /\ (low * d) \div d = low /\ (high * d) \div d = high
  <2>1. ASSUME NEW q \in Nat
        PROVE  q * d \in Nat /\ (q * d) \div d = q
    <3>1. q * d \in Nat /\ d * q = q * d
      BY ProductType, SMT
    <3>2. d * q <= q * d /\ q * d < d * q + d
      BY <3>1, SMT
    <3> QED
      BY <3>1, <3>2, DivUnique
  <2> QED
    BY <2>1
<1> QED
  BY <1>1, DivMonotone

\* The average lies between all bounds of the prices that held.
LEMMA TwapBetween ==
  ASSUME NEW records, NEW interval \in Nat, interval > 0, NEW time \in Nat,
         HasTwap(records, interval, time), NEW low \in Nat, NEW high \in Nat,
         \A i \in 1..Len(records) : records[i].timestamp < time =>
           low <= records[i].price /\ records[i].price <= high
  PROVE  /\ TwapPrice(records, interval, time) \in Nat
         /\ low <= TwapPrice(records, interval, time)
         /\ TwapPrice(records, interval, time) <= high
<1>1. PICK base, m, n, cut :
        TwapOver(records, interval, time, base, m, n, cut)
  BY Zenon DEF TwapOver
<1>2. TwapCuts(records, interval, time, base, m, n, cut)
  BY <1>1, CutValues, Zenon
<1>3. /\ m \in Nat /\ n \in Nat /\ m >= 1 /\ m <= n
      /\ n = Len(records) /\ cut[n + 1] = time
      /\ time - cut[m] > 0 /\ cut[m] \in Int
  BY <1>1, <1>2, SMT DEF TwapOver, TwapCuts
<1> DEFINE p == PricesOf(records)
           w == Weights(records, base, time)
<1>4. IsSteps(cut, p, w, m, n)
  BY <1>1, TwapSteps, Zenon
<1>5. \A i \in m..n : cut[i] < cut[i + 1] => low <= p[i] /\ p[i] <= high
  <2> SUFFICES ASSUME NEW i \in m..n, cut[i] < cut[i + 1]
               PROVE  low <= p[i] /\ p[i] <= high
    OBVIOUS
  <2>1. i \in 1..n /\ i \in 1..Len(records)
    BY <1>3, SMT
  <2>2. records[i].timestamp \in Nat
    BY <2>1, <1>1, RecordTypes DEF TwapOver, HasTwap, Ordered
  <2>3. records[i].timestamp <= cut[i] /\ cut[i] \in Int
    <3>1. CASE i = m
      BY <3>1, <1>2 DEF TwapCuts
    <3>2. CASE i # m
      <4>1. i \in (m + 1)..n
        BY <3>2, <1>3, SMT
      <4> QED
        BY <4>1, <2>2, <1>2, SMT DEF TwapCuts
    <3> QED
      BY <3>1, <3>2
  <2>4. cut[i + 1] <= time /\ cut[i + 1] \in Int
    <3>1. CASE i = n
      BY <3>1, <1>1, <1>3 DEF TwapOver
    <3>2. CASE i # n
      <4>1. /\ i + 1 \in (m + 1)..n /\ i + 1 \in 1..n
        BY <3>2, <1>3, SMT
      <4>2. /\ records[i + 1].timestamp \in Nat
            /\ records[i + 1].timestamp <= time
        BY <4>1, <1>1, <1>3, RecordTypes DEF TwapOver, HasTwap, Ordered
      <4>3. cut[i + 1] = records[i + 1].timestamp
        BY <4>1, <1>2 DEF TwapCuts
      <4> QED
        BY <4>2, <4>3
    <3> QED
      BY <3>1, <3>2
  <2>5. records[i].timestamp < time
    <3> time \in Nat
      OBVIOUS
    <3> QED
      BY <2>2, <2>3, <2>4, SMT
  <2>6. p[i] = records[i].price
    BY <2>1 DEF PricesOf
  <2> QED
    BY <2>1, <2>5, <2>6
<1> HIDE DEF p, w
<1>6. /\ SumOver(w, m, n) \in Nat
      /\ cut[n + 1] - cut[m] \in Nat
      /\ low * (cut[n + 1] - cut[m]) <= SumOver(w, m, n)
      /\ SumOver(w, m, n) <= high * (cut[n + 1] - cut[m])
  BY <1>3, <1>4, <1>5, StepBounds DEF SumOver
<1>7. TwapPrice(records, interval, time) =
        SumOver(w, m, n) \div (cut[n + 1] - cut[m])
  <2>1. TwapDivides(records, interval, time, base, m, n, cut)
    BY <1>1, TwapPriceIs, Zenon
  <2> QED
    BY <2>1, Zenon DEF w, TwapDivides
<1>8. cut[n + 1] - cut[m] > 0
  BY <1>3
<1> DEFINE weight == SumOver(w, m, n)
           duration == cut[n + 1] - cut[m]
<1>9. /\ weight \in Nat /\ duration \in Nat /\ duration > 0
      /\ low * duration <= weight /\ weight <= high * duration
  BY <1>6, <1>8
<1>10. TwapPrice(records, interval, time) = weight \div duration
  BY <1>7
<1> HIDE DEF weight, duration
<1> QED
  BY <1>9, <1>10, QuotientBetween, DivBounds

-----------------------------------------------------------------------------
(* The prices reported so far have a least and a greatest among them.      *)
LEMMA Extremes ==
  ASSUME NEW f, NEW n \in Nat, n > 0, \A i \in 1..n : f[i] \in Nat
  PROVE  \E i, j \in 1..n : \A k \in 1..n : f[i] <= f[k] /\ f[k] <= f[j]
<1> DEFINE A == {m \in Nat : (m > 0 /\ m <= n) =>
                   \E i, j \in 1..m : \A k \in 1..m :
                     f[i] <= f[k] /\ f[k] <= f[j]}
<1>1. 0 \in A
  BY SMT
<1>2. ASSUME NEW m \in Nat, m \in A
      PROVE  m + 1 \in A
  <2> SUFFICES ASSUME m + 1 <= n
               PROVE  \E i, j \in 1..(m + 1) : \A k \in 1..(m + 1) :
                        f[i] <= f[k] /\ f[k] <= f[j]
    BY SMT
  <2>1. CASE m = 0
    <3>1. 1..(m + 1) = {1} /\ f[1] \in Nat
      BY <2>1, SMT
    <3>2. f[1] <= f[1]
      BY <3>1, SMT
    <3> QED
      BY <3>1, <3>2, Zenon
  <2>2. CASE m # 0
    <3>1. PICK i \in 1..m, j \in 1..m : \A k \in 1..m :
            f[i] <= f[k] /\ f[k] <= f[j]
      BY <1>2, <2>2, SMT
    <3> DEFINE i2 == IF f[m + 1] < f[i] THEN m + 1 ELSE i
               j2 == IF f[m + 1] > f[j] THEN m + 1 ELSE j
    <3>2. /\ f[i] \in Nat /\ f[j] \in Nat /\ f[m + 1] \in Nat
          /\ i2 \in 1..(m + 1) /\ j2 \in 1..(m + 1)
          /\ f[i2] <= f[i] /\ f[i2] <= f[m + 1]
          /\ f[j] <= f[j2] /\ f[m + 1] <= f[j2]
          /\ f[i2] \in Nat /\ f[j2] \in Nat
      BY SMT
    <3> HIDE DEF i2, j2
    <3>3. \A k \in 1..(m + 1) : f[i2] <= f[k] /\ f[k] <= f[j2]
      <4> SUFFICES ASSUME NEW k \in 1..(m + 1)
                   PROVE  f[i2] <= f[k] /\ f[k] <= f[j2]
        OBVIOUS
      <4>1. f[k] \in Nat /\ (k = m + 1 \/ k \in 1..m)
        BY SMT
      <4>2. CASE k = m + 1
        BY <4>2, <3>2
      <4>3. CASE k \in 1..m
        BY <4>1, <4>3, <3>1, <3>2, SMT
      <4> QED
        BY <4>1, <4>2, <4>3
    <3> QED
      BY <3>2, <3>3, Zenon
  <2> QED
    BY <2>1, <2>2
<1>3. n \in A
  <2> HIDE DEF A
  <2> QED
    BY <1>1, <1>2, NaturalsByInduction
<1> QED
  BY <1>3

-----------------------------------------------------------------------------
LEMMA OrderedAppend ==
  ASSUME NEW records, NEW time \in Nat, Ordered(records, time),
         NEW price \in Nat, price > 0,
         NEW data, data = [price |-> price, timestamp |-> time]
  PROVE  Ordered(Append(records, data), time)
<1> DEFINE n == Len(records)
           longer == Append(records, data)
<1>1. data \in NFTPriceData /\ data.timestamp = time
  BY DEF NFTPriceData
<1>2. records \in Seq(NFTPriceData) /\ n \in Nat
  BY DEF Ordered
<1>3. /\ longer \in Seq(NFTPriceData) /\ Len(longer) = n + 1
      /\ longer[n + 1] = data
      /\ \A i \in 1..n : longer[i] = records[i]
  BY <1>1, <1>2
<1>4. \A i \in 1..n : records[i].timestamp \in Nat
  BY <1>2, RecordTypes
<1> HIDE DEF n, longer
<1>5. \A i \in 1..(n + 1) :
        /\ longer[i].timestamp <= time
        /\ i > 1 => longer[i - 1].timestamp <= longer[i].timestamp
  <2> SUFFICES ASSUME NEW i \in 1..(n + 1)
               PROVE  /\ longer[i].timestamp <= time
                      /\ i > 1 => longer[i - 1].timestamp <= longer[i].timestamp
    OBVIOUS
  <2>1. CASE i = n + 1
    <3>1. longer[i].timestamp = time
      BY <2>1, <1>1, <1>3
    <3>2. ASSUME i > 1 PROVE longer[i - 1].timestamp <= time
      <4>1. i - 1 \in 1..n
        BY <2>1, <3>2, <1>2, SMT
      <4>2. records[i - 1].timestamp <= time
        BY <4>1 DEF Ordered, n
      <4> QED
        BY <4>1, <4>2, <1>3
    <3> QED
      BY <3>1, <3>2
  <2>2. CASE i # n + 1
    <3>1. i \in 1..n /\ (i > 1 => i - 1 \in 1..n)
      BY <2>2, <1>2, SMT
    <3>2. /\ records[i].timestamp <= time
          /\ i > 1 => records[i - 1].timestamp <= records[i].timestamp
      BY <3>1 DEF Ordered, n
    <3> QED
      BY <3>1, <3>2, <1>3
  <2> QED
    BY <2>1, <2>2
<1> QED
  BY <1>3, <1>5 DEF Ordered, longer

LEMMA OrderedLater ==
  ASSUME NEW records, NEW time \in Nat, Ordered(records, time)
  PROVE  Ordered(records, time + 1)
<1>1. /\ Len(records) \in Nat
      /\ \A i \in 1..Len(records) : records[i].timestamp \in Nat
  BY RecordTypes DEF Ordered
<1> QED
  BY <1>1, SMT DEF Ordered

\* What a report makes of a history: it lies between the prices before it.
LEMMA ReportAverage ==
  ASSUME NEW old, NEW time \in Nat, Ordered(old, time),
         NEW interval \in Nat, interval > 0, LatestTimestamp(old) < time,
         NEW price \in Nat, price > 0,
         NEW data, data = [price |-> price, timestamp |-> time]
  PROVE  /\ TwapPrice(Append(old, data), interval, time) \in Nat
         /\ old # << >> =>
              \E i, j \in 1..Len(old) :
                /\ old[i].price <= TwapPrice(Append(old, data), interval, time)
                /\ TwapPrice(Append(old, data), interval, time) <= old[j].price
<1> DEFINE n == Len(old)
           records == Append(old, data)
<1>1. /\ old \in Seq(NFTPriceData) /\ n \in Nat
      /\ \A i \in 1..n : old[i].timestamp \in Nat /\ old[i].price \in Nat
  BY RecordTypes DEF Ordered
<1>2. /\ Len(records) = n + 1 /\ records[n + 1] = data
      /\ \A i \in 1..n : records[i] = old[i]
  BY <1>1 DEF NFTPriceData
<1>3. Ordered(records, time)
  BY OrderedAppend
<1>4. data.timestamp = time /\ data.price = price
  OBVIOUS
<1> HIDE DEF records
<1>5. CASE old = << >>
  <2>1. Len(records) = 1 /\ Last(records) = data
    BY <1>2, <1>5 DEF Last
  <2>2. TwapPrice(records, interval, time) = price
    BY <2>1, <1>4 DEF TwapPrice
  <2> QED
    BY <2>2, <1>5 DEF records
<1>6. CASE old # << >>
  <2>1. n > 0
    BY <1>1, <1>6
  <2> HIDE DEF n
  <2>2. old[n].timestamp < time
    BY <1>6 DEF LatestTimestamp, Last, n
  <2>3. 1 \in 1..n /\ n \in 1..n /\ 1 \in 1..Len(old) /\ n \in 1..Len(old)
    BY <2>1, <1>1, SMT DEF n
  <2>4. old[1].timestamp <= old[n].timestamp
    BY <2>3, TimesAscend
  <2>5. HasTwap(records, interval, time)
    <3>1. Len(records) > 1
      BY <2>1, <1>1, <1>2, SMT
    <3>2. Last(records).timestamp = time
      BY <1>2, <1>4 DEF Last
    <3>3. records[1].timestamp < time
      BY <2>2, <2>3, <2>4, <1>1, <1>2
    <3> QED
      BY <3>1, <3>2, <3>3, <1>3 DEF HasTwap
  <2> DEFINE f == [i \in 1..n |-> old[i].price]
  <2>6. PICK i \in 1..n, j \in 1..n :
          \A k \in 1..n : f[i] <= f[k] /\ f[k] <= f[j]
    <3>1. \A k \in 1..n : f[k] \in Nat
      BY <1>1
    <3> HIDE DEF f
    <3> QED
      BY <3>1, <2>1, <1>1, Extremes
  <2>7. \A k \in 1..Len(records) : records[k].timestamp < time =>
          old[i].price <= records[k].price /\ records[k].price <= old[j].price
    <3> SUFFICES ASSUME NEW k \in 1..Len(records), records[k].timestamp < time
                 PROVE  /\ old[i].price <= records[k].price
                        /\ records[k].price <= old[j].price
      OBVIOUS
    <3>1. k # n + 1
      BY <1>2, <1>4
    <3>2. k \in 1..n
      BY <3>1, <1>1, <1>2, SMT
    <3> QED
      BY <3>2, <2>6, <1>2
  <2>8. old[i].price \in Nat /\ old[j].price \in Nat
    BY <1>1
  <2>9. /\ TwapPrice(records, interval, time) \in Nat
        /\ old[i].price <= TwapPrice(records, interval, time)
        /\ TwapPrice(records, interval, time) <= old[j].price
    BY <2>5, <2>7, <2>8, TwapBetween
  <2> QED
    BY <2>9, Zenon DEF records, n
<1> QED
  BY <1>5, <1>6

-----------------------------------------------------------------------------
(* Types, for every number of assets, records and owner calls              *)
HistoriesOrdered ==
  /\ nftPriceData \in [Assets -> Seq(NFTPriceData)]
  /\ \A a \in Assets : Ordered(nftPriceData[a], now)

ParamsOK ==
  /\ nftPaused \subseteq Assets /\ nftPriceStale \subseteq Assets
  /\ twapInterval \in TwapIntervals
  /\ validity \in ValidityParams
  /\ now \in Nat /\ ownerCalls \in 0..MaxOwnerCalls

LEMMA TypeParts ==
  TypeOK <=> /\ MappingTypeOK /\ HistoriesOrdered /\ ParamsOK
             /\ twapPriceMap \in [Assets -> Nat]
<1>1. ASSUME nftPriceData \in [Assets -> Seq(NFTPriceData)], NEW a \in Assets
      PROVE  nftPriceData[a] \in Seq(NFTPriceData)
  BY <1>1
<1> QED
  BY <1>1, Zenon DEF TypeOK, HistoriesOrdered, Ordered, ParamsOK

LEMMA InitType == Init => TypeOK
<1> SUFFICES ASSUME Init PROVE TypeOK
  OBVIOUS
<1>1. MappingTypeOK
  BY DEF Init, MappingTypeOK
<1>2. HistoriesOrdered
  BY DEF Init, HistoriesOrdered, Ordered
<1>3. ParamsOK /\ twapPriceMap \in [Assets -> Nat]
  BY OracleInputAssumption DEF Init, ParamsOK
<1> QED
  BY <1>1, <1>2, <1>3, TypeParts

\* A report: what the histories of the assets become.
LEMMA ReportMove ==
  ASSUME TypeOK, NEW a \in Assets, NEW price \in Prices,
         SetAssetData(a, price),
         NEW data, data = [price |-> price, timestamp |-> now]
  PROVE  /\ price \in Nat /\ price > 0
         /\ twapInterval \in Nat /\ twapInterval > 0
         /\ Ordered(nftPriceData[a], now)
         /\ LatestTimestamp(nftPriceData[a]) < now
         /\ now' = now
         /\ nftPriceData' = [b \in Assets |->
              IF b \in mappedAssets[a]
              THEN Append(IF b = a THEN Append(nftPriceData[a], data)
                                   ELSE nftPriceData[b], data)
              ELSE IF b = a THEN Append(nftPriceData[a], data)
                            ELSE nftPriceData[b]]
         /\ twapPriceMap' = [b \in Assets |->
              IF b \in {a} \cup mappedAssets[a]
              THEN TwapPrice(Append(nftPriceData[a], data), twapInterval, now)
              ELSE twapPriceMap[b]]
<1>1. /\ HistoriesOrdered /\ twapInterval \in TwapIntervals /\ now \in Nat
  BY TypeParts DEF ParamsOK
<1>2. /\ price \in Nat /\ price > 0
      /\ twapInterval \in Nat /\ twapInterval > 0
  BY <1>1, OracleInputAssumption, SMT DEF SetAssetData, ReportAccepted
<1>3. Ordered(nftPriceData[a], now)
  BY <1>1 DEF HistoriesOrdered
<1>4. LatestTimestamp(nftPriceData[a]) < now
  <2>1. LatestTimestamp(nftPriceData[a]) \in Nat
    <3>1. CASE nftPriceData[a] = << >>
      BY <3>1 DEF LatestTimestamp
    <3>2. CASE nftPriceData[a] # << >>
      <4>1. Len(nftPriceData[a]) \in 1..Len(nftPriceData[a])
        BY <3>2, <1>3 DEF Ordered
      <4> QED
        BY <3>2, <4>1, <1>3, RecordTypes DEF LatestTimestamp, Last, Ordered
    <3> QED
      BY <3>1, <3>2
  <2> QED
    BY <2>1, <1>1, SMT DEF SetAssetData, ReportAccepted
<1> QED
  BY <1>2, <1>3, <1>4, Zenon DEF SetAssetData

LEMMA ReportType ==
  ASSUME TypeOK, NEW a \in Assets, NEW price \in Prices,
         SetAssetData(a, price)
  PROVE  TypeOK'
<1> DEFINE data == [price |-> price, timestamp |-> now]
           records == Append(nftPriceData[a], data)
<1>1. /\ MappingTypeOK /\ HistoriesOrdered /\ ParamsOK
      /\ twapPriceMap \in [Assets -> Nat]
  BY TypeParts
<1>2. /\ price \in Nat /\ price > 0
      /\ twapInterval \in Nat /\ twapInterval > 0
      /\ Ordered(nftPriceData[a], now)
      /\ LatestTimestamp(nftPriceData[a]) < now
      /\ now' = now /\ now \in Nat
      /\ nftPriceData' = [b \in Assets |->
           IF b \in mappedAssets[a]
           THEN Append(IF b = a THEN records ELSE nftPriceData[b], data)
           ELSE IF b = a THEN records ELSE nftPriceData[b]]
      /\ twapPriceMap' = [b \in Assets |->
           IF b \in {a} \cup mappedAssets[a]
           THEN TwapPrice(records, twapInterval, now)
           ELSE twapPriceMap[b]]
  BY <1>1, ReportMove DEF ParamsOK
<1>3. TwapPrice(records, twapInterval, now) \in Nat
  BY <1>2, ReportAverage
<1>4. Ordered(records, now)
  BY <1>2, OrderedAppend
<1> HIDE DEF records
<1>5. HistoriesOrdered'
  <2>1. ASSUME NEW b \in Assets
        PROVE  Ordered(nftPriceData'[b], now)
    <3> DEFINE before == IF b = a THEN records ELSE nftPriceData[b]
    <3>1. Ordered(before, now)
      BY <1>1, <1>4 DEF HistoriesOrdered
    <3> HIDE DEF before
    <3>2. Ordered(Append(before, data), now)
      BY <1>2, <3>1, OrderedAppend
    <3>3. nftPriceData'[b] =
            IF b \in mappedAssets[a] THEN Append(before, data) ELSE before
      BY <1>2 DEF before
    <3> QED
      BY <3>1, <3>2, <3>3
  <2>2. \A b \in Assets : nftPriceData'[b] \in Seq(NFTPriceData)
    BY <2>1 DEF Ordered
  <2>3. nftPriceData' = [b \in Assets |-> nftPriceData'[b]]
    BY <1>2
  <2>4. nftPriceData' \in [Assets -> Seq(NFTPriceData)]
    BY <2>2, <2>3
  <2> QED
    BY <2>1, <2>4, <1>2 DEF HistoriesOrdered
<1>6. (twapPriceMap \in [Assets -> Nat])'
  BY <1>1, <1>2, <1>3
<1>7. MappingTypeOK' /\ ParamsOK'
  BY <1>1 DEF SetAssetData, MappingTypeOK, ParamsOK, mappingVars, markVars,
     paramVars
<1> QED
  BY <1>5, <1>6, <1>7, TypeParts, PTL

\* The owner's steps leave the histories alone, or clear one of them.
LEMMA OwnerType ==
  ASSUME TypeOK, OwnerStep
  PROVE  TypeOK'
<1>1. /\ MappingTypeOK /\ HistoriesOrdered /\ ParamsOK
      /\ twapPriceMap \in [Assets -> Nat]
  BY TypeParts
<1>2. ownerCalls' \in 0..MaxOwnerCalls
  <2>1. ownerCalls \in Nat /\ MaxOwnerCalls \in Nat
    BY <1>1, OracleInputAssumption, SMT DEF ParamsOK
  <2> QED
    BY <2>1, SMT DEF OwnerStep
<1>3. /\ MappingTypeOK' /\ now' = now /\ twapPriceMap' = twapPriceMap
      /\ nftPaused' \subseteq Assets /\ nftPriceStale' \subseteq Assets
      /\ twapInterval' \in TwapIntervals /\ validity' \in ValidityParams
      /\ \/ nftPriceData' = nftPriceData
         \/ \E a \in Assets :
              nftPriceData' = [nftPriceData EXCEPT ![a] = << >>]
  <2> USE DEF feedVars, mappingVars, markVars, paramVars
  <2>1. CASE MappingStep
    <3>1. /\ UNCHANGED <<now, twapPriceMap, nftPaused, nftPriceStale,
                         twapInterval, validity>>
          /\ \/ nftPriceData' = nftPriceData
             \/ \E a \in Assets :
                  nftPriceData' = [nftPriceData EXCEPT ![a] = << >>]
      BY <2>1 DEF MappingStep, AddAsset, RemoveAsset, AddAssetMapping,
         RemoveAssetMapping
    <3>2. MappingTypeOK'
      <4> USE <1>1 DEF MappingTypeOK
      <4>1. ASSUME NEW a \in Assets, AddAsset(a) \/ RemoveAsset(a)
            PROVE  MappingTypeOK'
        BY <4>1 DEF AddAsset, RemoveAsset
      <4>2. ASSUME NEW a \in Assets, NEW b \in Assets,
                   AddAssetMapping(a, b) \/ RemoveAssetMapping(a, b)
            PROVE  MappingTypeOK'
        BY <4>2 DEF AddAssetMapping, RemoveAssetMapping
      <4> QED
        BY <4>1, <4>2, <2>1, Zenon DEF MappingStep
    <3> QED
      BY <3>1, <3>2, <1>1 DEF ParamsOK
  <2>2. CASE SettingStep
    <3>1. UNCHANGED <<now, twapPriceMap, nftPriceData, registered,
                      mappedAssets, originalAsset>>
      BY <2>2 DEF SettingStep, SetPause, SetPriceStale, SetTwapInterval,
         SetDataValidityParameters
    <3>2. /\ nftPaused' \subseteq Assets /\ nftPriceStale' \subseteq Assets
          /\ twapInterval' \in TwapIntervals /\ validity' \in ValidityParams
      BY <2>2, <1>1 DEF SettingStep, SetPause, SetPriceStale,
         SetTwapInterval, SetDataValidityParameters, ParamsOK, MappingTypeOK
    <3> QED
      BY <3>1, <3>2, <1>1 DEF MappingTypeOK
  <2> QED
    BY <2>1, <2>2 DEF OwnerStep
<1>4. ParamsOK' /\ (twapPriceMap \in [Assets -> Nat])'
  BY <1>1, <1>2, <1>3 DEF ParamsOK
<1>5. HistoriesOrdered'
  <2>1. CASE nftPriceData' = nftPriceData
    BY <2>1, <1>1, <1>3 DEF HistoriesOrdered
  <2>2. ASSUME NEW a \in Assets,
               nftPriceData' = [nftPriceData EXCEPT ![a] = << >>]
        PROVE  HistoriesOrdered'
    <3>1. Ordered(<< >>, now)
      BY DEF Ordered
    <3>2. << >> \in Seq(NFTPriceData)
      OBVIOUS
    <3>3. \A b \in Assets : Ordered(nftPriceData'[b], now)
      BY <2>2, <3>1, <1>1 DEF HistoriesOrdered
    <3>4. nftPriceData' \in [Assets -> Seq(NFTPriceData)]
      BY <2>2, <3>2, <1>1 DEF HistoriesOrdered
    <3> QED
      BY <3>3, <3>4, <1>3 DEF HistoriesOrdered
  <2> QED
    BY <2>1, <2>2, <1>3
<1> QED
  BY <1>3, <1>4, <1>5, TypeParts, PTL

LEMMA TickType ==
  ASSUME TypeOK, Tick
  PROVE  TypeOK'
<1> USE DEF Tick, feedVars, mappingVars, markVars, paramVars
<1>1. /\ MappingTypeOK /\ HistoriesOrdered /\ ParamsOK
      /\ twapPriceMap \in [Assets -> Nat]
  BY TypeParts
<1>2. now \in Nat /\ now' = now + 1 /\ now' \in Nat
  BY <1>1, SMT DEF ParamsOK
<1>3. HistoriesOrdered'
  BY <1>1, <1>2, OrderedLater DEF HistoriesOrdered
<1>4. MappingTypeOK' /\ ParamsOK' /\ (twapPriceMap \in [Assets -> Nat])'
  BY <1>1, <1>2 DEF MappingTypeOK, ParamsOK
<1> QED
  BY <1>3, <1>4, TypeParts, PTL

LEMMA NextType == TypeOK /\ [Next]_vars => TypeOK'
<1> SUFFICES ASSUME TypeOK, [Next]_vars
             PROVE  TypeOK'
  OBVIOUS
<1>1. CASE UNCHANGED vars
  <2>1. UNCHANGED <<registered, nftPriceData, twapPriceMap, mappedAssets,
                    originalAsset, nftPaused, nftPriceStale, twapInterval,
                    validity, now, ownerCalls>>
    BY <1>1 DEF vars, feedVars, mappingVars, markVars, paramVars
  <2> QED
    BY <2>1 DEF TypeOK, MappingTypeOK
<1> QED
  BY <1>1, ReportType, OwnerType, TickType DEF Next

\* No reported price is zero, no history goes back in time or beyond the
\* present, and the average of a report is never a division by zero: the
\* history it divides by is as old as the interval, or has a first record
\* from before the present.
THEOREM TypeOKCorrect == Spec => []TypeOK
BY InitType, NextType, PTL DEF Spec

-----------------------------------------------------------------------------
\* A report reaches only the asset it names and those mapped from it, and the
\* new record, being of this very time, has no weight in the average.  This
\* is the property for every number of assets, records and prices, whatever
\* the owner sets the interval to.
THEOREM OnlyPastPricesCountCorrect == Spec => OnlyPastPricesCount
<1> DEFINE Grows(a) ==
             /\ nftPriceData[a] # << >>
             /\ Len(nftPriceData[a]) < Len(nftPriceData'[a])
             /\ \A o \in Assets \ {a} : a \notin mappedAssets[o]
           Between(a) ==
             LET past ==
                   {nftPriceData[a][i].price : i \in 1..Len(nftPriceData[a])}
             IN  \E low \in past, high \in past :
                   low <= GetAssetPrice(a)' /\ GetAssetPrice(a)' <= high
<1>1. TypeOK /\ [Next]_vars => [\A a \in Assets : Grows(a) => Between(a)]_vars
  <2> SUFFICES ASSUME TypeOK, Next, NEW a \in Assets, Grows(a)
               PROVE  Between(a)
    OBVIOUS
  <2>1. HistoriesOrdered /\ now \in Nat /\ MappingTypeOK
    BY TypeParts DEF ParamsOK
  <2>2. nftPriceData[a] \in Seq(NFTPriceData) /\ Ordered(nftPriceData[a], now)
    BY <2>1 DEF HistoriesOrdered
  <2>3. PICK b \in Assets, price \in Prices : SetAssetData(b, price)
    <3>1. CASE OwnerStep
      <4>1. \/ nftPriceData' = nftPriceData
            \/ \E c \in Assets :
                 nftPriceData' = [nftPriceData EXCEPT ![c] = << >>]
        BY <3>1 DEF OwnerStep, MappingStep, SettingStep, AddAsset,
           RemoveAsset, AddAssetMapping, RemoveAssetMapping, SetPause,
           SetPriceStale, SetTwapInterval, SetDataValidityParameters, feedVars
      <4>2. \/ nftPriceData'[a] = nftPriceData[a]
            \/ nftPriceData'[a] = << >>
        BY <4>1, <2>1 DEF HistoriesOrdered
      <4> QED
        BY <4>2, <2>2
    <3>2. CASE Tick
      BY <3>2, <2>2 DEF Tick, feedVars
    <3> QED
      BY <3>1, <3>2 DEF Next
  <2> DEFINE data == [price |-> price, timestamp |-> now]
             twap == TwapPrice(Append(nftPriceData[b], data), twapInterval, now)
  <2>4. /\ price \in Nat /\ price > 0
        /\ twapInterval \in Nat /\ twapInterval > 0
        /\ LatestTimestamp(nftPriceData[b]) < now
        /\ nftPriceData' = [c \in Assets |->
             IF c \in mappedAssets[b]
             THEN Append(IF c = b THEN Append(nftPriceData[b], data)
                                  ELSE nftPriceData[c], data)
             ELSE IF c = b THEN Append(nftPriceData[b], data)
                           ELSE nftPriceData[c]]
        /\ twapPriceMap' = [c \in Assets |->
             IF c \in {b} \cup mappedAssets[b] THEN twap ELSE twapPriceMap[c]]
    BY <2>3, ReportMove
  <2>5. b = a
    <3> SUFFICES ASSUME b # a PROVE FALSE
      OBVIOUS
    <3>1. a \notin mappedAssets[b]
      OBVIOUS
    <3>2. nftPriceData'[a] = nftPriceData[a]
      BY <3>1, <2>4
    <3> QED
      BY <3>2, <2>2
  <2>6. twapPriceMap'[a] = twap
    BY <2>4, <2>5
  <2>7. PICK i \in 1..Len(nftPriceData[a]), j \in 1..Len(nftPriceData[a]) :
          /\ twap \in Nat
          /\ nftPriceData[a][i].price <= twap
          /\ twap <= nftPriceData[a][j].price
    BY <2>1, <2>2, <2>4, <2>5, ReportAverage
  <2>8. nftPriceData[a][i].price \in Nat /\ nftPriceData[a][i].price # 0
    BY <2>2, RecordTypes
  <2> HIDE DEF twap
  <2>9. twap # 0
    BY <2>7, <2>8, SMT
  <2>10. GetAssetPrice(a)' = twap
    BY <2>6, <2>9 DEF GetAssetPrice
  <2> QED
    BY <2>7, <2>10
<1> QED
  BY <1>1, TypeOKCorrect, PTL DEF Spec, OnlyPastPricesCount

-----------------------------------------------------------------------------
(* The walk over the records against the average over the time units       *)
LEMMA PriceAtIs ==
  ASSUME NEW records, NEW time \in Nat, Ordered(records, time),
         NEW i \in 1..Len(records), NEW t \in Int,
         records[i].timestamp <= t,
         i < Len(records) => t < records[i + 1].timestamp
  PROVE  PriceAt(records, t) = records[i].price
<1> DEFINE n == Len(records)
           S == {j \in 1..n : records[j].timestamp <= t}
<1>1. n \in Nat /\ \A j \in 1..n : records[j].timestamp \in Nat
  BY RecordTypes DEF Ordered
<1>2. S \in SUBSET (0..n) /\ i \in S
  BY <1>1, SMT
<1>3. Max(S) \in S /\ i <= Max(S)
  <2> HIDE DEF S, n
  <2> QED
    BY <1>1, <1>2, MaxIsLargest
<1>4. Max(S) = i
  <2> SUFFICES ASSUME Max(S) # i PROVE FALSE
    OBVIOUS
  <2> DEFINE k == Max(S)
  <2>1. k \in 1..n /\ records[k].timestamp <= t
    BY <1>3
  <2> HIDE DEF k
  <2>2. k > i
    BY <2>1, <1>1, <1>3, SMT DEF k
  <2>3. i + 1 \in 1..k /\ i + 1 \in 1..n /\ i < n
    BY <2>1, <2>2, <1>1, SMT
  <2>4. records[i + 1].timestamp <= records[k].timestamp
    BY <2>1, <2>3, TimesAscend
  <2> QED
    BY <2>1, <2>3, <2>4, <1>1, SMT
<1> QED
  BY <1>4 DEF PriceAt

\* A price that holds all the time is its own average.
IsConstant(f, lo, hi, c) ==
  /\ lo \in Int /\ hi \in Int /\ lo < hi /\ c \in Nat
  /\ \A t \in lo..(hi - 1) : f[t] = c

LEMMA ConstantAverage ==
  \A f, lo, hi, c : IsConstant(f, lo, hi, c) =>
    SumOver(f, lo, hi - 1) \div (hi - lo) = c
<1> SUFFICES ASSUME NEW f, NEW lo, NEW hi, NEW c, IsConstant(f, lo, hi, c)
             PROVE  SumOver(f, lo, hi - 1) \div (hi - lo) = c
  BY Zenon
<1> USE DEF IsConstant
<1> DEFINE d == hi - lo
<1>1. d \in Nat /\ d > 0 /\ lo + d - 1 = hi - 1
  BY SMT
<1>2. EndsInRun(f, lo, lo, d, c)
  <2>1. lo..(lo - 1) = {}
    BY SMT
  <2> HIDE DEF d
  <2>2. \A t \in lo..(lo + d - 1) : f[t] = c
    BY <1>1
  <2>3. lo <= lo
    BY SMT
  <2>4. \A t \in lo..(lo - 1) : f[t] \in Nat
    BY <2>1, Zenon
  <2> QED
    BY <2>2, <2>3, <2>4, Zenon DEF EndsInRun
<1> HIDE DEF d
<1>3. SumOver(f, lo, hi - 1) = SumOver(f, lo, lo - 1) + c * d
  <2>1. lo \in Int /\ d \in Nat /\ c \in Nat
    BY <1>1
  <2> HIDE DEF IsConstant
  <2>2. SumOver(f, lo, lo + d - 1) = SumOver(f, lo, lo - 1) + c * d
    BY <1>2, <2>1, SumRun, ZenonT(60)
  <2> QED
    BY <1>1, <2>2, Zenon
<1>4. SumOver(f, lo, lo - 1) = 0
  <2>1. lo..(lo - 1) = {}
    BY SMT
  <2> QED
    BY <2>1, SumEmpty DEF SumOver
<1>5. c * d \in Nat /\ d * c = c * d
  BY <1>1, ProductType, SMT
<1>6. SumOver(f, lo, hi - 1) = c * d
  BY <1>3, <1>4, <1>5, SMT
<1>7. (c * d) \div d = c
  <2>1. d * c <= c * d /\ c * d < d * c + d
    BY <1>1, <1>5, SMT
  <2> QED
    BY <1>1, <1>5, <2>1, DivUnique
<1> QED
  BY <1>6, <1>7 DEF d

Average(records, interval, time) ==
  LET begin == Max({time - interval, records[1].timestamp})
      prices == [t \in begin..(time - 1) |-> PriceAt(records, t)]
  IN  SumOver(prices, begin, time - 1) \div (time - begin)

LEMMA AverageIs ==
  ASSUME NEW records, NEW time \in Nat, Ordered(records, time),
         records # << >>, records[1].timestamp < time,
         NEW interval \in Nat, interval > 0
  PROVE  TwapPrice(records, interval, time) = Average(records, interval, time)
<1> PICK begin : begin = Max({time - interval, records[1].timestamp})
  OBVIOUS
<1> PICK prices : prices = [t \in begin..(time - 1) |-> PriceAt(records, t)]
  OBVIOUS
<1>0. Average(records, interval, time) =
        SumOver(prices, begin, time - 1) \div (time - begin)
  BY Zenon DEF Average
<1> DEFINE n == Len(records)
           base == time - interval
<1>1. /\ n \in Nat /\ n > 0
      /\ \A i \in 1..n : /\ records[i].timestamp \in Nat
                         /\ records[i].price \in Nat
      /\ base \in Int
  BY RecordTypes DEF Ordered
<1> HIDE DEF n
<1>2. 1 \in 1..n /\ n \in 1..n
  BY <1>1, SMT
<1>3. begin = IF base >= records[1].timestamp THEN base
              ELSE records[1].timestamp
  BY <1>1, <1>2, MaxOfTwo
<1>4. /\ begin \in Int /\ begin < time
      /\ base <= begin /\ records[1].timestamp <= begin
  <2> DEFINE first == records[1].timestamp
  <2>1. first \in Nat /\ first < time
    BY <1>1, <1>2
  <2>2. base < time /\ base \in Int
    BY <1>1, SMT
  <2>3. begin = IF base >= first THEN base ELSE first
    BY <1>3
  <2> HIDE DEF first, base
  <2>4. begin \in Int /\ begin < time /\ base <= begin /\ first <= begin
    BY <2>1, <2>2, <2>3, SMT
  <2> QED
    BY <2>4 DEF first
<1>5. CASE Last(records).timestamp < base \/ n = 1
  <2>1. TwapPrice(records, interval, time) = records[n].price
    BY <1>5, Zenon DEF TwapPrice, Last, n, base
  <2>2. records[n].timestamp <= begin
    BY <1>1, <1>2, <1>4, <1>5, SMT DEF Last, n
  <2>3. \A t \in begin..(time - 1) : prices[t] = records[n].price
    <3> SUFFICES ASSUME NEW t \in begin..(time - 1)
                 PROVE  prices[t] = records[n].price
      OBVIOUS
    <3>1. t \in Int /\ records[n].timestamp <= t
      BY <2>2, <1>1, <1>2, <1>4, SMT
    <3>2. PriceAt(records, t) = records[n].price
      BY <3>1, <1>1, <1>2, PriceAtIs, SMT DEF n
    <3> QED
      BY <3>2
  <2>4. SumOver(prices, begin, time - 1) \div (time - begin) = records[n].price
    <3>1. records[n].price \in Nat /\ time \in Int
      BY <1>1, <1>2
    <3>2. IsConstant(prices, begin, time, records[n].price)
      BY <2>3, <3>1, <1>4, Zenon DEF IsConstant
    <3> QED
      BY <3>2, ConstantAverage, Zenon
  <2> QED
    BY <2>1, <2>4, <1>0
<1>6. CASE ~ (Last(records).timestamp < base \/ n = 1)
  <2>1. HasTwap(records, interval, time)
    <3>1. Len(records) > 1 /\ Last(records).timestamp >= time - interval
      <4>1. records[n].timestamp \in Nat
        BY <1>1, <1>2
      <4>2. n > 1 /\ n = Len(records)
        <5>1. n # 1 /\ n = Len(records)
          BY <1>6, Zenon DEF n
        <5> QED
          BY <5>1, <1>1, SMT
      <4>3. Last(records).timestamp = records[n].timestamp
        BY DEF Last, n
      <4> HIDE DEF base
      <4>4. records[n].timestamp >= base
        BY <4>1, <4>3, <1>1, <1>6, SMT
      <4> QED
        BY <4>2, <4>3, <4>4 DEF base
    <3> QED
      BY <3>1 DEF HasTwap
  <2> HIDE DEF base
  <2>2. PICK m, cut : TwapOver(records, interval, time, base, m, n, cut)
    BY <2>1, Zenon DEF TwapOver, n, base
  <2>3. TwapCuts(records, interval, time, base, m, n, cut)
    BY <2>2, CutValues, Zenon
  <2>4. /\ m \in Nat /\ m >= 1 /\ m < n /\ cut[n + 1] = time
        /\ cut[m] = begin
        /\ records[m].timestamp <= cut[m]
        /\ \A i \in (m + 1)..n : cut[i] = records[i].timestamp
        /\ \A i \in m..n : cut[i] <= cut[i + 1] /\ cut[i] \in Int
    BY <2>3 DEF TwapCuts, base
  <2> DEFINE p == PricesOf(records)
             w == Weights(records, base, time)
  <2>5. IsSteps(cut, p, w, m, n)
    BY <2>2, TwapSteps, Zenon
  <2>6. \A i \in m..n : \A t \in cut[i]..(cut[i + 1] - 1) : prices[t] = p[i]
    <3> SUFFICES ASSUME NEW i \in m..n, NEW t \in cut[i]..(cut[i + 1] - 1)
                 PROVE  prices[t] = p[i]
      OBVIOUS
    <3>1. i \in 1..n /\ i \in 1..Len(records)
      BY <2>4, <1>1, SMT DEF n
    <3>2. /\ cut[i] \in Int /\ cut[i + 1] \in Int
          /\ t \in Int /\ cut[i] <= t /\ t < cut[i + 1]
      <4>1. i + 1 \in m..n \/ i + 1 = n + 1
        BY <2>4, <1>1, SMT
      <4>2. cut[i] \in Int /\ cut[i + 1] \in Int
        BY <4>1, <2>4
      <4> QED
        BY <4>2, SMT
    <3>3. records[i].timestamp <= t
      <4>1. records[i].timestamp <= cut[i]
        <5>1. CASE i = m
          BY <5>1, <2>4
        <5>2. CASE i # m
          <6>1. i \in (m + 1)..n
            BY <5>2, <2>4, <1>1, SMT
          <6> QED
            BY <6>1, <3>1, <2>4, <1>1, SMT
        <5> QED
          BY <5>1, <5>2
      <4> QED
        BY <4>1, <3>1, <3>2, <1>1, SMT
    <3>4. i < n => t < records[i + 1].timestamp
      <4> SUFFICES ASSUME i < n PROVE t < records[i + 1].timestamp
        OBVIOUS
      <4>1. i + 1 \in (m + 1)..n
        BY <2>4, <1>1, SMT
      <4> QED
        BY <4>1, <3>2, <2>4
    <3>5. PriceAt(records, t) = records[i].price
      BY <3>1, <3>2, <3>3, <3>4, PriceAtIs DEF n
    <3>6. t \in begin..(time - 1)
      <4>1. begin <= cut[i] /\ cut[i + 1] <= time
        <5>1. cut[m] <= cut[i]
          <6>1. i - m \in Nat /\ m + (i - m) = i /\ m + (i - m) <= n + 1
            BY <2>4, <1>1, SMT
          <6>2. cut[m] <= cut[m + (i - m)]
            BY <6>1, <2>4, <2>5, <1>1, StepsAscend
          <6> QED
            BY <6>1, <6>2
        <5>2. CASE i = n
          BY <5>1, <5>2, <2>4
        <5>3. CASE i # n
          <6>1. i + 1 \in (m + 1)..n /\ i + 1 \in 1..Len(records)
            BY <5>3, <2>4, <1>1, SMT DEF n
          <6>2. records[i + 1].timestamp <= time
            BY <6>1 DEF Ordered
          <6> QED
            BY <5>1, <6>1, <6>2, <2>4
        <5> QED
          BY <5>2, <5>3
      <4> QED
        BY <4>1, <3>2, <1>4, SMT
    <3> QED
      BY <3>1, <3>5, <3>6 DEF PricesOf
  <2>7. TwapDivides(records, interval, time, base, m, n, cut)
    BY <2>2, TwapPriceIs, Zenon
  <2> HIDE DEF p
  <2>8. SumOver(w, m, n) = SumOver(prices, cut[m], cut[n + 1] - 1)
    <3> HIDE DEF w
    <3>1. m <= n
      BY <2>4, <1>1, SMT
    <3>2. FollowsSteps(prices, cut, p, w, m, n)
      BY <2>4, <2>5, <2>6, <3>1, <1>1, Zenon DEF FollowsSteps
    <3> QED
      BY <3>2, StepSum
  <2>9. SumOver(w, m, n) = SumOver(prices, begin, time - 1)
    BY <2>4, <2>8
  <2> QED
    BY <2>4, <2>7, <2>9, <1>0 DEF TwapDivides
<1> QED
  BY <1>5, <1>6

\* What the walk computes is the average of the price over the time units of
\* the interval, or of the history where that is shorter: for every history
\* the oracle can hold and every interval.
THEOREM TwapIsAverageCorrect == Spec => []TwapIsAverage
<1>1. TypeOK => TwapIsAverage
  <2> SUFFICES ASSUME TypeOK, NEW a \in Assets,
                      NEW interval \in TwapIntervals \ {0},
                      nftPriceData[a] # << >>,
                      nftPriceData[a][1].timestamp < now
               PROVE  TwapPrice(nftPriceData[a], interval, now) =
                        Average(nftPriceData[a], interval, now)
    BY Zenon DEF TwapIsAverage, Average, SumOver
  <2>1. interval \in Nat /\ interval > 0
    BY OracleInputAssumption, SMT
  <2>2. now \in Nat /\ Ordered(nftPriceData[a], now)
    BY TypeParts DEF ParamsOK, HistoriesOrdered
  <2> QED
    BY <2>1, <2>2, AverageIs
<1> QED
  BY <1>1, TypeOKCorrect, PTL
=============================================================================
