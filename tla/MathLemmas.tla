----------------------------- MODULE MathLemmas -----------------------------
(***************************************************************************)
(* The lemmas the proofs about the contracts rest on: what the rounded     *)
(* divisions of WadRayMath and PercentageMath return, for every value of   *)
(* the units, and what is true of the sums over finite sets that relate    *)
(* balances to loans and average prices to records.                        *)
(***************************************************************************)
EXTENDS FixedPointMath, FiniteSetsExt, FiniteSetTheorems, TLAPS

(* Integer division, by its defining bounds *)
LEMMA DivBounds ==
  ASSUME NEW a \in Nat, NEW b \in Nat, b > 0
  PROVE  /\ a \div b \in Nat
         /\ b * (a \div b) <= a
         /\ a < b * (a \div b) + b
  BY SMT

LEMMA DivUnique ==
  ASSUME NEW a \in Nat, NEW b \in Nat, b > 0,
         NEW q \in Nat, b * q <= a, a < b * q + b
  PROVE  a \div b = q
  BY SMT

LEMMA ProductType ==
  ASSUME NEW a \in Nat, NEW b \in Nat
  PROVE  a * b \in Nat
  BY SMT

(* A rounded quotient is within half a divisor of the exact one. *)
LEMMA RoundedDivBounds ==
  ASSUME NEW a \in Nat, NEW b \in Nat, b > 0
  PROVE  /\ RoundedDiv(a, b) \in Nat
         /\ b * RoundedDiv(a, b) <= a + (b \div 2)
         /\ a + (b \div 2) < b * RoundedDiv(a, b) + b
<1>1. b \div 2 \in Nat
  BY SMT
<1>2. a + (b \div 2) \in Nat
  BY <1>1, SMT
<1> QED
  BY <1>2, DivBounds DEF RoundedDiv

(* The ray operations map natural numbers to natural numbers. *)
LEMMA RayMulType ==
  ASSUME NEW a \in Nat, NEW b \in Nat
  PROVE  RayMul(a, b) \in Nat
  BY RoundedDivBounds, ProductType, RayAssumption DEF RayMul

LEMMA RayDivType ==
  ASSUME NEW a \in Nat, NEW b \in Nat, b > 0
  PROVE  RayDiv(a, b) \in Nat
  BY RoundedDivBounds, ProductType, RayAssumption DEF RayDiv

LEMMA PercentMulType ==
  ASSUME NEW a \in Nat, NEW b \in Nat
  PROVE  PercentMul(a, b) \in Nat
  BY RoundedDivBounds, ProductType, UnitAssumption DEF PercentMul

\* Twice a rounded quotient is within one divisor of twice the exact one.
LEMMA RoundedWithin ==
  ASSUME NEW a \in Nat, NEW b \in Nat, b > 0
  PROVE  /\ RoundedDiv(a, b) \in Nat
         /\ 2 * (b * RoundedDiv(a, b)) <= 2 * a + b
         /\ 2 * a <= 2 * (b * RoundedDiv(a, b)) + b
<1> DEFINE q == RoundedDiv(a, b)
<1>1. /\ q \in Nat
      /\ b * q <= a + (b \div 2)
      /\ a + (b \div 2) < b * q + b
  BY RoundedDivBounds
<1>2. /\ b \div 2 \in Nat
      /\ 2 * (b \div 2) <= b /\ b <= 2 * (b \div 2) + 1
  BY SMT
<1> HIDE DEF q
<1>3. b * q \in Nat
  BY <1>1, ProductType
<1>4. 2 * (b * q) <= 2 * a + b /\ 2 * a <= 2 * (b * q) + b
  BY <1>1, <1>2, <1>3, SMT
<1> QED
  BY <1>1, <1>4 DEF q

\* The same for each of the operators
LEMMA RayMulOf ==
  ASSUME NEW a \in Nat, NEW b \in Nat
  PROVE  /\ RayMul(a, b) \in Nat
         /\ 2 * (Ray * RayMul(a, b)) <= 2 * (a * b) + Ray
         /\ 2 * (a * b) <= 2 * (Ray * RayMul(a, b)) + Ray
<1>1. a * b \in Nat
  BY ProductType
<1> QED
  BY <1>1, RoundedWithin, RayAssumption DEF RayMul

LEMMA RayDivOf ==
  ASSUME NEW a \in Nat, NEW b \in Nat, b > 0
  PROVE  /\ RayDiv(a, b) \in Nat
         /\ 2 * (b * RayDiv(a, b)) <= 2 * (a * Ray) + b
         /\ 2 * (a * Ray) <= 2 * (b * RayDiv(a, b)) + b
<1>1. a * Ray \in Nat
  BY ProductType, RayAssumption
<1> QED
  BY <1>1, RoundedWithin DEF RayDiv

LEMMA PercentMulOf ==
  ASSUME NEW a \in Nat, NEW b \in Nat
  PROVE  /\ PercentMul(a, b) \in Nat
         /\ 2 * (PercentFactor * PercentMul(a, b)) <= 2 * (a * b) + PercentFactor
<1>1. a * b \in Nat
  BY ProductType
<1> QED
  BY <1>1, RoundedWithin, UnitAssumption DEF PercentMul

(***************************************************************************)
(* Scaling up by an index of at least one ray and down again gives the     *)
(* scaled amount back, in spite of both roundings.  BorrowLogic._repay and *)
(* LiquidateLogic.executeLiquidate close a loan on it: they burn           *)
(* rayDiv(rayMul(scaledAmount, index), index) of the debt token, which     *)
(* must be exactly the scaledAmount that the loan takes off the books.     *)
(***************************************************************************)
THEOREM ScaledRoundTrip ==
  ASSUME NEW s \in Nat, NEW i \in Nat, i >= Ray
  PROVE  RayDiv(RayMul(s, i), i) = s
<1> DEFINE d == RayMul(s, i)
           half == Ray \div 2
<1>1. /\ Ray \in Nat /\ Ray > 0 /\ i > 0
      /\ half \in Nat /\ half > 0 /\ Ray = 2 * half
  BY RayAssumption, SMT
<1>2. /\ i \div 2 \in Nat
      /\ 2 * (i \div 2) <= i
      /\ i <= 2 * (i \div 2) + 1
  BY SMT
<1>3. s * i \in Nat
  BY ProductType
<1>4. /\ d \in Nat
      /\ Ray * d <= s * i + half
      /\ s * i + half < Ray * d + Ray
  BY <1>1, <1>3, RoundedDivBounds DEF RayMul
<1>5. d * Ray \in Nat /\ d * Ray = Ray * d /\ s * i = i * s
  BY <1>1, <1>4, ProductType, SMT
<1>6. i * s <= d * Ray + (i \div 2)
  BY <1>1, <1>2, <1>3, <1>4, <1>5, SMT
<1>7. d * Ray + (i \div 2) < i * s + i
  <2>1. CASE i > Ray
    BY <2>1, <1>1, <1>2, <1>3, <1>4, <1>5, SMT
  <2>2. CASE i = Ray
    <3>1. Ray * s <= s * i + half /\ s * i + half < Ray * s + Ray
      BY <2>2, <1>1, <1>5, SMT
    <3>2. (s * i + half) \div Ray = s
      BY <3>1, <1>1, <1>3, DivUnique, SMT
    <3>3. d = s
      BY <3>2 DEF RayMul, RoundedDiv
    <3> QED
      BY <3>3, <2>2, <1>1, <1>2, <1>3, <1>5, SMT
  <2> QED
    BY <2>1, <2>2, <1>1, SMT
<1>8. (d * Ray + (i \div 2)) \div i = s
  <2>1. d * Ray + (i \div 2) \in Nat
    BY <1>2, <1>5, SMT
  <2> QED
    BY <2>1, <1>1, <1>6, <1>7, DivUnique
<1> QED
  BY <1>8 DEF RayDiv, RoundedDiv

-----------------------------------------------------------------------------
LEMMA DivMonotone ==
  ASSUME NEW a \in Nat, NEW b \in Nat, a <= b, NEW c \in Nat, c > 0
  PROVE  a \div c <= b \div c
<1> DEFINE p == a \div c
           q == b \div c
<1>1. /\ p \in Nat /\ c * p <= a
      /\ q \in Nat /\ b < c * q + c
  BY DivBounds
<1> HIDE DEF p, q
<1>2. c * p < c * (q + 1)
  BY <1>1, SMT
<1>3. p < q + 1
  <2>1. SUFFICES ASSUME p >= q + 1 PROVE FALSE
    BY <1>1, SMT
  <2>2. PICK r \in Nat : p = (q + 1) + r
    <3>1. p - (q + 1) \in Nat /\ p = (q + 1) + (p - (q + 1))
      BY <1>1, <2>1, SMT
    <3> QED
      BY <3>1
  <2>3. c * p = c * (q + 1) + c * r /\ c * r \in Nat /\ c * (q + 1) \in Nat
    BY <1>1, <2>2, ProductType, SMT
  <2> QED
    BY <1>2, <2>3, SMT
<1>4. p <= q
  BY <1>1, <1>3, SMT
<1> QED
  BY <1>4 DEF p, q

(* A larger index never makes a scaled amount worth less. *)
LEMMA RayMulMonotone ==
  ASSUME NEW i \in Nat, NEW j \in Nat, i <= j, NEW s \in Nat
  PROVE  /\ RayMul(s, i) <= RayMul(s, j)
         /\ RayMul(i, s) <= RayMul(j, s)
<1>1. PICK d \in Nat : j = i + d
  <2>1. j - i \in Nat /\ j = i + (j - i)
    BY SMT
  <2> QED
    BY <2>1
<1>2. /\ s * j = s * i + s * d /\ j * s = i * s + d * s
      /\ s * i \in Nat /\ s * d \in Nat /\ i * s \in Nat /\ d * s \in Nat
      /\ Ray \div 2 \in Nat
  BY <1>1, ProductType, RayAssumption, SMT
<1>3. /\ s * i + (Ray \div 2) \in Nat /\ s * j + (Ray \div 2) \in Nat
      /\ i * s + (Ray \div 2) \in Nat /\ j * s + (Ray \div 2) \in Nat
      /\ s * i + (Ray \div 2) <= s * j + (Ray \div 2)
      /\ i * s + (Ray \div 2) <= j * s + (Ray \div 2)
  BY <1>2, SMT
<1> QED
  BY <1>3, DivMonotone, RayAssumption DEF RayMul, RoundedDiv

(* One ray is the unit of rayMul, and a factor above it never reduces. *)
LEMMA RayMulOne ==
  ASSUME NEW a \in Nat
  PROVE  RayMul(Ray, a) = a
<1>1. /\ Ray \in Nat /\ Ray > 0
      /\ Ray \div 2 \in Nat /\ Ray \div 2 < Ray
  BY RayAssumption, SMT
<1>2. Ray * a \in Nat /\ Ray * a + (Ray \div 2) \in Nat
  BY <1>1, ProductType, SMT
<1>3. (Ray * a + (Ray \div 2)) \div Ray = a
  BY <1>1, <1>2, DivUnique, SMT
<1> QED
  BY <1>3 DEF RayMul, RoundedDiv

LEMMA RayMulGrows ==
  ASSUME NEW c \in Nat, c >= Ray, NEW i \in Nat
  PROVE  RayMul(c, i) \in Nat /\ RayMul(c, i) >= i
<1>1. RayMul(Ray, i) <= RayMul(c, i)
  BY RayMulMonotone, RayAssumption
<1> QED
  BY <1>1, RayMulOne, RayMulType, SMT

-----------------------------------------------------------------------------
(* Products and quotients, without division *)
LEMMA FactorBelow ==
  ASSUME NEW c \in Nat, c > 0, NEW x \in Nat, NEW y \in Nat, c * x < c * y + c
  PROVE  x <= y
<1> SUFFICES ASSUME x > y PROVE FALSE
  BY SMT
<1>1. PICK r \in Nat : x = y + 1 + r
  <2>1. x - (y + 1) \in Nat /\ x = y + 1 + (x - (y + 1))
    BY SMT
  <2> QED
    BY <2>1
<1>2. c * x = c * y + c + c * r /\ c * r \in Nat /\ c * y \in Nat
  BY <1>1, ProductType, SMT
<1> QED
  BY <1>2, SMT

LEMMA ProductMonotone ==
  ASSUME NEW c \in Nat, NEW x \in Int, NEW y \in Int, x <= y
  PROVE  c * x <= c * y
<1>1. y - x \in Nat /\ y = x + (y - x)
  BY SMT
<1>2. c * y = c * x + c * (y - x) /\ c * x \in Int
  BY <1>1, SMT
<1>3. c * (y - x) \in Nat
  BY <1>1, ProductType
<1> QED
  BY <1>2, <1>3, SMT

\* A factor that is not zero can be cancelled.
LEMMA CancelFactor ==
  ASSUME NEW c \in Nat, c > 0, NEW x \in Int, NEW y \in Int, c * x <= c * y
  PROVE  x <= y
<1> SUFFICES ASSUME x > y PROVE FALSE
  BY SMT
<1>1. PICK r \in Nat : x = y + 1 + r
  <2>1. x - (y + 1) \in Nat /\ x = y + 1 + (x - (y + 1))
    BY SMT
  <2> QED
    BY <2>1
<1>2. c * x = c * y + c + c * r /\ c * r \in Nat /\ c * y \in Int
  BY <1>1, ProductType, SMT
<1> QED
  BY <1>2, SMT

(***************************************************************************)
(* What a loan-to-value ratio allows is within what a liquidation          *)
(* threshold that is not below it covers, both roundings included, as long *)
(* as the ratio is at most 100 percent.                                    *)
(***************************************************************************)
LEMMA LtvWithinThreshold ==
  ASSUME NEW p \in Nat, NEW x \in Nat, NEW ltv \in Nat, ltv # 0,
         ltv <= PercentFactor, NEW threshold \in Nat, ltv <= threshold,
         PercentDiv(x, ltv) <= p
  PROVE  x <= PercentMul(p, threshold)
<1> DEFINE need == PercentDiv(x, ltv)
           cover == PercentMul(p, threshold)
<1>1. PercentFactor \in Nat /\ PercentFactor > 0
  BY UnitAssumption
<1>2. /\ x * PercentFactor \in Nat /\ PercentFactor * x \in Nat
      /\ x * PercentFactor = PercentFactor * x
      /\ p * threshold \in Nat
  BY <1>1, ProductType, SMT
<1>3. /\ need \in Nat
      /\ x * PercentFactor + (ltv \div 2) < ltv * need + ltv
  BY <1>2, RoundedDivBounds, SMT DEF PercentDiv
<1>4. /\ cover \in Nat
      /\ p * threshold + (PercentFactor \div 2)
           < PercentFactor * cover + PercentFactor
  BY <1>1, <1>2, RoundedDivBounds DEF PercentMul
<1>5. ltv * need <= p * threshold
  <2>1. ltv * need <= ltv * p
    BY <1>3, ProductMonotone
  <2>2. p * ltv <= p * threshold
    BY ProductMonotone
  <2>3. ltv * p = p * ltv /\ ltv * p \in Nat /\ ltv * need \in Nat
    BY <1>3, ProductType, SMT
  <2> QED
    BY <1>2, <2>1, <2>2, <2>3, SMT
<1>6. ltv - (ltv \div 2) <= (PercentFactor \div 2) + 1
  BY <1>1, SMT
<1>7. PercentFactor * cover \in Nat /\ ltv * need \in Nat
  BY <1>1, <1>3, <1>4, ProductType
<1> HIDE DEF need, cover
<1>8. PercentFactor * x < PercentFactor * cover + PercentFactor
  BY <1>1, <1>2, <1>3, <1>4, <1>5, <1>6, <1>7, SMT
<1>9. x <= cover
  BY <1>1, <1>4, <1>8, FactorBelow
<1> QED
  BY <1>9 DEF cover

(***************************************************************************)
(* Borrowing "a" more raises a debt by "a" and what the roundings add.     *)
(***************************************************************************)
LEMMA DebtAfterBorrowing ==
  ASSUME NEW s \in Nat, NEW a \in Nat, NEW i \in Nat, i > 0
  PROVE  RayMul(s + RayDiv(a, i), i)
           <= RayMul(s, i) + a + (1 + (i \div (2 * Ray)))
<1> DEFINE t == RayDiv(a, i)
           d == RayMul(s, i)
           q == RayMul(s + t, i)
           w == i \div (2 * Ray)
           half == Ray \div 2
<1>1. /\ Ray \in Nat /\ Ray > 0 /\ half \in Nat
      /\ 2 * Ray \in Nat /\ 2 * Ray > 0
  BY RayAssumption, SMT
<1>2. /\ a * Ray \in Nat /\ a * Ray = Ray * a /\ s * i \in Nat
  BY <1>1, ProductType, SMT
<1>3. t \in Nat /\ i * t <= a * Ray + (i \div 2)
  BY <1>2, RoundedDivBounds DEF RayDiv
<1>4. d \in Nat /\ s * i + half < Ray * d + Ray
  BY <1>1, <1>2, RoundedDivBounds DEF RayMul
<1>5. (s + t) * i = s * i + i * t /\ i * t \in Nat /\ (s + t) * i \in Nat
  <2> HIDE DEF t
  <2> QED
    BY <1>3, ProductType, SMT
<1>6. q \in Nat /\ Ray * q <= (s + t) * i + half
  BY <1>1, <1>5, RoundedDivBounds DEF RayMul
<1>7. w \in Nat /\ i < (2 * Ray) * w + 2 * Ray
  BY <1>1, DivBounds
<1> HIDE DEF t, d, q, w, half
<1>8. /\ (2 * Ray) * w = 2 * (Ray * w) /\ Ray * w \in Nat
      /\ i \div 2 \in Nat /\ 2 * (i \div 2) <= i
  BY <1>1, <1>7, ProductType, SMT
<1>9. i \div 2 < Ray * w + Ray
  BY <1>1, <1>7, <1>8, SMT
<1>10. /\ Ray * d \in Nat /\ Ray * a \in Nat /\ Ray * q \in Nat
       /\ Ray * (d + a + (1 + w)) = Ray * d + Ray * a + Ray + Ray * w
  BY <1>1, <1>4, <1>6, <1>7, ProductType, SMT
<1>11. Ray * q < Ray * (d + a + (1 + w)) + Ray
  BY <1>1, <1>2, <1>3, <1>4, <1>5, <1>6, <1>8, <1>9, <1>10, SMT
<1>12. d + a + (1 + w) \in Nat
  BY <1>4, <1>7, SMT
<1>13. q <= d + a + (1 + w)
  BY <1>1, <1>6, <1>11, <1>12, FactorBelow
<1> QED
  BY <1>13 DEF q, d, w, t

(* Nothing scaled is nothing owed. *)
LEMMA RayMulZero ==
  ASSUME NEW i \in Nat
  PROVE  RayMul(0, i) = 0
<1>1. /\ Ray \in Nat /\ Ray > 0 /\ Ray \div 2 \in Nat /\ Ray \div 2 < Ray
      /\ 0 * i = 0 /\ Ray * 0 = 0
  BY RayAssumption, SMT
<1>2. (Ray \div 2) \div Ray = 0
  BY <1>1, DivUnique, SMT
<1> QED
  BY <1>1, <1>2, SMT DEF RayMul, RoundedDiv

-----------------------------------------------------------------------------
(***************************************************************************)
(* Sums over finite sets.  SumFunctionOnSet is a fold: it takes the        *)
(* elements one by one, in the order CHOOSE gives them, by a recursive     *)
(* function on the subsets.  The lemmas show that this function exists,    *)
(* that it is the only one, and that the order does not matter.  They are  *)
(* inductions in first-order form: the set of counterexamples, were it not *)
(* empty, would have a smallest member.                                    *)
(***************************************************************************)
Pick(s) == CHOOSE x \in s : TRUE

IsSum(g, f, S) ==
  g = [s \in SUBSET S |->
         IF s = {} THEN 0 ELSE f[Pick(s)] + g[s \ {Pick(s)}]]

LEMMA PickIn == ASSUME NEW s, s # {} PROVE Pick(s) \in s
BY Zenon DEF Pick

LEMMA SumChosen ==
  ASSUME NEW f, NEW S, \E g : IsSum(g, f, S)
  PROVE  \E g : IsSum(g, f, S) /\ SumFunctionOnSet(f, S) = g[S]
<1> DEFINE g == CHOOSE h : IsSum(h, f, S)
<1>1. IsSum(g, f, S)
  OBVIOUS
<1>2. SumFunctionOnSet(f, S) = g[S]
  BY Zenon DEF SumFunctionOnSet, FoldFunctionOnSet, MapThenFoldSet, IsSum, Pick
<1> QED
  BY <1>1, <1>2

(* A set with 0 in it that is closed under successor holds all naturals. *)
LEMMA NaturalsByInduction ==
  ASSUME NEW A, 0 \in A, \A n \in Nat : n \in A => n + 1 \in A
  PROVE  Nat \subseteq A
<1> DEFINE B == Nat \ A
<1>1. SUFFICES ASSUME B # {} PROVE FALSE
  OBVIOUS
<1>2. PICK m \in B : \A k \in B : ~ (<<k, m>> \in OpToRel(<, Nat))
  <2>1. B \subseteq Nat
    OBVIOUS
  <2> HIDE DEF B
  <2> QED
    BY <1>1, <2>1, NatLessThanWellFounded, WFMin, Zenon
<1>3. m \in Nat /\ m # 0 /\ m - 1 \in Nat
  BY SMT
<1>4. m - 1 \notin B
  <2>1. <<m - 1, m>> \in OpToRel(<, Nat)
    BY <1>3, SMT DEF OpToRel
  <2> QED
    BY <1>2, <2>1
<1>5. m - 1 \in A /\ (m - 1) + 1 = m
  BY <1>3, <1>4, SMT
<1>6. m \in A
  BY <1>3, <1>5
<1> QED
  BY <1>6

(* A non-empty family of subsets of a finite set has a smallest one. *)
LEMMA MinimalSubset ==
  \A S, F : IsFiniteSet(S) /\ F \subseteq SUBSET S /\ F # {} =>
    \E T \in F : \A x \in T : \A U \in F : ~ (U \subseteq T \ {x})
<1> SUFFICES ASSUME NEW S, NEW F, IsFiniteSet(S), F \subseteq SUBSET S, F # {}
             PROVE  \E T \in F : \A x \in T : \A U \in F :
                      ~ (U \subseteq T \ {x})
  OBVIOUS
<1>1. IsWellFoundedOn(StrictSubsetOrdering(S), SUBSET S)
  BY FS_StrictSubsetOrderingWellFounded, FS_FiniteSubsetsOfFinite
<1>2. PICK T \in F : \A U \in F : ~ (<<U, T>> \in StrictSubsetOrdering(S))
  BY <1>1, WFMin, Zenon
<1>3. ASSUME NEW x \in T, NEW U \in F, U \subseteq T \ {x}
      PROVE  FALSE
  <2>1. <<U, T>> \in (SUBSET S) \X (SUBSET S) /\ U \subseteq T /\ U # T
    BY <1>3
  <2> QED
    BY <1>2, <1>3, <2>1 DEF StrictSubsetOrdering
<1> QED
  BY <1>3

(* The recursive equation has a solution on the subsets of a finite set.   *)
LEMMA SumExists ==
  ASSUME NEW f, NEW S, IsFiniteSet(S)
  PROVE  \E g : IsSum(g, f, S)
<1> DEFINE Small(k) == {s \in SUBSET S : Cardinality(s) <= k}
           Step(g, s) == IF s = {} THEN 0 ELSE f[Pick(s)] + g[s \ {Pick(s)}]
           Solvable == {k \in Nat : \E g : g = [s \in Small(k) |-> Step(g, s)]}
<1>1. \A s \in SUBSET S : IsFiniteSet(s) /\ Cardinality(s) \in Nat
  BY FS_Subset, FS_CardinalityType
<1>2. 0 \in Solvable
  <2>1. \A s \in Small(0) : s = {}
    BY <1>1, FS_EmptySet, SMT
  <2> DEFINE g == [s \in Small(0) |-> 0]
  <2>2. \A s \in Small(0) : Step(g, s) = 0
    BY <2>1
  <2>3. g = [s \in Small(0) |-> Step(g, s)]
    BY <2>2
  <2> QED
    BY <2>3
<1>3. ASSUME NEW k \in Nat, k \in Solvable
      PROVE  k + 1 \in Solvable
  <2>1. PICK g : g = [s \in Small(k) |-> Step(g, s)]
    BY <1>3
  <2> DEFINE h == [s \in Small(k + 1) |-> Step(g, s)]
  <2>2. Small(k) \subseteq Small(k + 1)
    BY <1>1, <1>3, SMT
  <2>3. ASSUME NEW s \in Small(k)
        PROVE  h[s] = g[s]
    <3>1. g[s] = Step(g, s) /\ h[s] = Step(g, s)
      BY <2>1, <2>2, Zenon
    <3> QED
      BY <3>1
  <2>4. ASSUME NEW s \in Small(k + 1), s # {}
        PROVE  s \ {Pick(s)} \in Small(k)
    <3>1. Pick(s) \in s /\ s \in SUBSET S /\ Cardinality(s) <= k + 1
      BY <2>4, PickIn
    <3>2. Cardinality(s \ {Pick(s)}) = Cardinality(s) - 1
      BY <1>1, <3>1, FS_RemoveElement
    <3>3. s \ {Pick(s)} \in SUBSET S
      BY <3>1
    <3> QED
      BY <1>1, <3>1, <3>2, <3>3, SMT
  <2>5. \A s \in Small(k + 1) : Step(g, s) = Step(h, s)
    BY <2>3, <2>4
  <2>6. h = [s \in Small(k + 1) |-> Step(h, s)]
    BY <2>5
  <2>7. k + 1 \in Nat
    BY SMT
  <2> QED
    BY <2>6, <2>7
<1>4. Cardinality(S) \in Solvable
  <2>1. Cardinality(S) \in Nat
    BY <1>1
  <2> HIDE DEF Solvable
  <2> QED
    BY <2>1, <1>2, <1>3, NaturalsByInduction
<1>5. Small(Cardinality(S)) = SUBSET S
  BY FS_Subset
<1> QED
  BY <1>4, <1>5 DEF IsSum

(* ... and only one, also as seen from a smaller set. *)
LEMMA SumUnique ==
  ASSUME NEW f, NEW S, IsFiniteSet(S), NEW T \in SUBSET S,
         NEW g, IsSum(g, f, S), NEW h, IsSum(h, f, T)
  PROVE  g[T] = h[T]
<1> DEFINE Differ == {U \in SUBSET T : g[U] # h[U]}
<1>1. SUFFICES ASSUME Differ # {} PROVE FALSE
  OBVIOUS
<1>2. IsFiniteSet(T)
  BY FS_Subset
<1>3. PICK U \in Differ : \A x \in U : \A V \in Differ : ~ (V \subseteq U \ {x})
  <2>1. Differ \subseteq SUBSET T
    OBVIOUS
  <2> HIDE DEF Differ
  <2> QED
    BY <1>1, <1>2, <2>1, MinimalSubset, ZenonT(60)
<1>4. U \in SUBSET S /\ U \in SUBSET T
  OBVIOUS
<1>5. /\ g[U] = IF U = {} THEN 0 ELSE f[Pick(U)] + g[U \ {Pick(U)}]
      /\ h[U] = IF U = {} THEN 0 ELSE f[Pick(U)] + h[U \ {Pick(U)}]
  BY <1>4, Zenon DEF IsSum
<1>6. U # {}
  BY <1>5
<1>7. Pick(U) \in U
  BY <1>6, PickIn
<1>8. U \ {Pick(U)} \notin Differ
  BY <1>3, <1>7
<1>9. U \ {Pick(U)} \in SUBSET T
  BY <1>4
<1>10. g[U \ {Pick(U)}] = h[U \ {Pick(U)}]
  BY <1>8, <1>9
<1>11. g[U] = h[U]
  BY <1>5, <1>6, <1>10
<1> QED
  BY <1>11

LEMMA SumEmpty ==
  ASSUME NEW f
  PROVE  SumFunctionOnSet(f, {}) = 0
<1>1. PICK g : IsSum(g, f, {}) /\ SumFunctionOnSet(f, {}) = g[{}]
  BY SumChosen, SumExists, FS_EmptySet
<1>2. {} \in SUBSET {}
  OBVIOUS
<1> QED
  BY <1>1, <1>2 DEF IsSum

LEMMA SumPick ==
  ASSUME NEW f, NEW S, IsFiniteSet(S), S # {}
  PROVE  SumFunctionOnSet(f, S) =
           f[Pick(S)] + SumFunctionOnSet(f, S \ {Pick(S)})
<1> DEFINE T == S \ {Pick(S)}
<1>1. PICK g : IsSum(g, f, S) /\ SumFunctionOnSet(f, S) = g[S]
  BY SumChosen, SumExists
<1>2. T \in SUBSET S /\ IsFiniteSet(T)
  BY FS_Subset
<1>3. PICK h : IsSum(h, f, T) /\ SumFunctionOnSet(f, T) = h[T]
  BY <1>2, SumChosen, SumExists
<1>4. g[T] = h[T]
  BY <1>1, <1>2, <1>3, SumUnique
<1>5. g[S] = f[Pick(S)] + g[T]
  <2>1. S \in SUBSET S
    OBVIOUS
  <2> QED
    BY <1>1, <2>1, Zenon DEF IsSum
<1> QED
  BY <1>1, <1>3, <1>4, <1>5

(* Sums of natural numbers are natural numbers. *)
LEMMA SumType ==
  ASSUME NEW f, NEW S, IsFiniteSet(S), \A x \in S : f[x] \in Nat
  PROVE  SumFunctionOnSet(f, S) \in Nat
<1> DEFINE Bad == {T \in SUBSET S : SumFunctionOnSet(f, T) \notin Nat}
<1>1. SUFFICES ASSUME Bad # {} PROVE FALSE
  OBVIOUS
<1>2. PICK T \in Bad : \A x \in T : \A U \in Bad : ~ (U \subseteq T \ {x})
  <2>1. Bad \subseteq SUBSET S
    OBVIOUS
  <2> HIDE DEF Bad
  <2> QED
    BY <1>1, <2>1, MinimalSubset, ZenonT(60)
<1>3. T # {}
  BY SumEmpty
<1>4. Pick(T) \in T /\ IsFiniteSet(T)
  BY <1>3, PickIn, FS_Subset
<1>5. T \ {Pick(T)} \notin Bad
  BY <1>2, <1>4
<1>6. SumFunctionOnSet(f, T \ {Pick(T)}) \in Nat
  BY <1>5
<1>7. f[Pick(T)] \in Nat
  BY <1>4
<1>8. SumFunctionOnSet(f, T) = f[Pick(T)] + SumFunctionOnSet(f, T \ {Pick(T)})
  BY <1>3, <1>4, SumPick
<1> QED
  BY <1>6, <1>7, <1>8

(* The sum may begin with any element. *)
LEMMA SumRemove ==
  ASSUME NEW f, NEW S, IsFiniteSet(S), \A x \in S : f[x] \in Nat,
         NEW x \in S
  PROVE  SumFunctionOnSet(f, S) = f[x] + SumFunctionOnSet(f, S \ {x})
<1> DEFINE Sum(T) == SumFunctionOnSet(f, T)
           Bad == {T \in SUBSET S :
                     \E y \in T : Sum(T) # f[y] + Sum(T \ {y})}
<1>1. SUFFICES ASSUME Bad # {} PROVE FALSE
  OBVIOUS
<1>2. PICK T \in Bad : \A y \in T : \A U \in Bad : ~ (U \subseteq T \ {y})
  <2>1. Bad \subseteq SUBSET S
    OBVIOUS
  <2> HIDE DEF Bad
  <2> QED
    BY <1>1, <2>1, MinimalSubset, ZenonT(60)
<1>3. PICK y \in T : Sum(T) # f[y] + Sum(T \ {y})
  BY <1>2
<1> DEFINE p == Pick(T)
           R == (T \ {p}) \ {y}
<1>4. p \in T /\ IsFiniteSet(T) /\ T \in SUBSET S
  BY <1>3, PickIn, FS_Subset
<1>5. /\ IsFiniteSet(T \ {p}) /\ IsFiniteSet(T \ {y}) /\ IsFiniteSet(R)
      /\ f[p] \in Nat /\ f[y] \in Nat
      /\ \A z \in R : f[z] \in Nat
  BY <1>4, FS_Subset
<1>6. Sum(T) = f[p] + Sum(T \ {p})
  BY <1>4, SumPick
<1>7. p # y
  BY <1>3, <1>6
<1>8. T \ {p} \notin Bad /\ T \ {y} \notin Bad
  BY <1>2, <1>4
<1>9. Sum(T \ {p}) = f[y] + Sum(R)
  BY <1>4, <1>7, <1>8
<1>10. Sum(T \ {y}) = f[p] + Sum(R)
  <2>1. (T \ {y}) \ {p} = R
    OBVIOUS
  <2>2. p \in T \ {y} /\ T \ {y} \in SUBSET S
    BY <1>4, <1>7
  <2> QED
    BY <1>8, <2>1, <2>2
<1>11. Sum(R) \in Nat
  BY <1>5, SumType
<1> HIDE DEF Sum, p, R
<1> QED
  BY <1>3, <1>5, <1>6, <1>9, <1>10, <1>11, SMT

LEMMA SumAdd ==
  ASSUME NEW f, NEW S, IsFiniteSet(S), NEW x, x \notin S,
         \A y \in S \cup {x} : f[y] \in Nat
  PROVE  SumFunctionOnSet(f, S \cup {x}) = f[x] + SumFunctionOnSet(f, S)
<1>1. (S \cup {x}) \ {x} = S /\ x \in S \cup {x}
  OBVIOUS
<1>2. IsFiniteSet(S \cup {x})
  BY FS_AddElement
<1> QED
  BY <1>1, <1>2, SumRemove

(* Only the summands of the set count. *)
LEMMA SumSame ==
  ASSUME NEW f, NEW g, NEW S, IsFiniteSet(S), \A x \in S : f[x] = g[x]
  PROVE  SumFunctionOnSet(f, S) = SumFunctionOnSet(g, S)
<1> DEFINE Bad == {T \in SUBSET S :
                     SumFunctionOnSet(f, T) # SumFunctionOnSet(g, T)}
<1>1. SUFFICES ASSUME Bad # {} PROVE FALSE
  OBVIOUS
<1>2. PICK T \in Bad : \A x \in T : \A U \in Bad : ~ (U \subseteq T \ {x})
  <2>1. Bad \subseteq SUBSET S
    OBVIOUS
  <2> HIDE DEF Bad
  <2> QED
    BY <1>1, <2>1, MinimalSubset, ZenonT(60)
<1>3. T # {}
  BY SumEmpty
<1>4. Pick(T) \in T /\ IsFiniteSet(T)
  BY <1>3, PickIn, FS_Subset
<1>5. SumFunctionOnSet(f, T \ {Pick(T)}) = SumFunctionOnSet(g, T \ {Pick(T)})
  BY <1>2, <1>4
<1>6. f[Pick(T)] = g[Pick(T)]
  BY <1>4
<1>7. /\ SumFunctionOnSet(f, T) =
           f[Pick(T)] + SumFunctionOnSet(f, T \ {Pick(T)})
      /\ SumFunctionOnSet(g, T) =
           g[Pick(T)] + SumFunctionOnSet(g, T \ {Pick(T)})
  BY <1>3, <1>4, SumPick
<1> QED
  BY <1>5, <1>6, <1>7

(* One summand changes, appears or disappears: the sum changes by it. *)
LEMMA SumUpdate ==
  ASSUME NEW f, NEW S, IsFiniteSet(S), \A y \in S : f[y] \in Nat,
         NEW g, NEW T, IsFiniteSet(T), \A y \in T : g[y] \in Nat,
         NEW x, S \ {x} = T \ {x}, \A y \in S \ {x} : f[y] = g[y]
  PROVE  SumFunctionOnSet(f, S) + (IF x \in T THEN g[x] ELSE 0) =
           SumFunctionOnSet(g, T) + (IF x \in S THEN f[x] ELSE 0)
<1> DEFINE rest == SumFunctionOnSet(f, S \ {x})
<1>1. IsFiniteSet(S \ {x}) /\ \A y \in S \ {x} : f[y] \in Nat
  BY FS_RemoveElement
<1>2. rest \in Nat
  BY <1>1, SumType
<1>3. SumFunctionOnSet(g, T \ {x}) = rest
  BY <1>1, SumSame
<1>4. SumFunctionOnSet(f, S) = rest + (IF x \in S THEN f[x] ELSE 0)
  <2>1. CASE x \in S
    <3>1. SumFunctionOnSet(f, S) = f[x] + rest
      BY <2>1, SumRemove
    <3> HIDE DEF rest
    <3> QED
      BY <2>1, <3>1, <1>2
  <2>2. CASE x \notin S
    <3>1. S \ {x} = S
      BY <2>2
    <3>2. SumFunctionOnSet(f, S) = rest
      BY <3>1
    <3> HIDE DEF rest
    <3> QED
      BY <2>2, <3>2, <1>2
  <2> QED
    BY <2>1, <2>2
<1>5. SumFunctionOnSet(g, T) = rest + (IF x \in T THEN g[x] ELSE 0)
  <2>1. CASE x \in T
    <3>1. SumFunctionOnSet(g, T) = g[x] + rest
      BY <2>1, <1>3, SumRemove
    <3> HIDE DEF rest
    <3> QED
      BY <2>1, <3>1, <1>2
  <2>2. CASE x \notin T
    <3>1. T \ {x} = T
      BY <2>2
    <3>2. SumFunctionOnSet(g, T) = rest
      BY <3>1, <1>3
    <3> HIDE DEF rest
    <3> QED
      BY <2>2, <3>2, <1>2
  <2> QED
    BY <2>1, <2>2
<1>6. /\ (IF x \in S THEN f[x] ELSE 0) \in Nat
      /\ (IF x \in T THEN g[x] ELSE 0) \in Nat
  OBVIOUS
<1> HIDE DEF rest
<1> QED
  BY <1>2, <1>4, <1>5, <1>6

(* A bounded set of naturals has a largest element, and Max is it. *)
LEMMA MaxIsLargest ==
  \A n \in Nat : \A S \in SUBSET (0..n) : S # {} =>
    Max(S) \in S /\ \A x \in S : x <= Max(S)
<1> SUFFICES ASSUME NEW n \in Nat, NEW S \in SUBSET (0..n), S # {}
             PROVE  Max(S) \in S /\ \A x \in S : x <= Max(S)
  OBVIOUS
<1> DEFINE gaps == {n - x : x \in S}
<1>1. PICK g \in gaps : \A k \in gaps : ~ (<<k, g>> \in OpToRel(<, Nat))
  <2>1. gaps \subseteq Nat
    BY SMT
  <2>2. gaps # {}
    OBVIOUS
  <2> HIDE DEF gaps
  <2> QED
    BY <2>1, <2>2, NatLessThanWellFounded, WFMin, Zenon
<1>2. PICK x \in S : g = n - x
  OBVIOUS
<1>3. \A y \in S : y <= x
  <2> SUFFICES ASSUME NEW y \in S, y > x PROVE FALSE
    BY SMT
  <2>1. n - y \in gaps /\ n - y \in Nat /\ n - x \in Nat /\ n - y < n - x
    BY SMT
  <2>2. <<n - y, n - x>> \in OpToRel(<, Nat)
    BY <2>1, SMT DEF OpToRel
  <2> QED
    BY <1>1, <1>2, <2>1, <2>2
<1>4. \E z \in S : \A y \in S : z >= y
  BY <1>3, SMT
<1>5. Max(S) \in S /\ \A y \in S : Max(S) >= y
  BY <1>4, Zenon DEF Max
<1> QED
  BY <1>5, SMT

LEMMA MaxOfTwo ==
  ASSUME NEW a \in Int, NEW b \in Int
  PROVE  Max({a, b}) = IF a >= b THEN a ELSE b
<1>1. \E z \in {a, b} : \A y \in {a, b} : z >= y
  BY SMT
<1>2. Max({a, b}) \in {a, b} /\ \A y \in {a, b} : Max({a, b}) >= y
  BY <1>1, Zenon DEF Max
<1> QED
  BY <1>2, SMT

(* A sum of zeros, and the change of one summand in place *)
LEMMA SumZero ==
  ASSUME NEW f, NEW S, IsFiniteSet(S), \A x \in S : f[x] = 0
  PROVE  SumFunctionOnSet(f, S) = 0
<1> DEFINE Bad == {T \in SUBSET S : SumFunctionOnSet(f, T) # 0}
<1>1. SUFFICES ASSUME Bad # {} PROVE FALSE
  OBVIOUS
<1>2. PICK T \in Bad : \A x \in T : \A U \in Bad : ~ (U \subseteq T \ {x})
  <2>1. Bad \subseteq SUBSET S
    OBVIOUS
  <2> HIDE DEF Bad
  <2> QED
    BY <1>1, <2>1, MinimalSubset, ZenonT(60)
<1>3. T # {}
  BY SumEmpty
<1>4. Pick(T) \in T /\ IsFiniteSet(T)
  BY <1>3, PickIn, FS_Subset
<1>5. SumFunctionOnSet(f, T \ {Pick(T)}) = 0 /\ f[Pick(T)] = 0
  BY <1>2, <1>4
<1> QED
  BY <1>3, <1>4, <1>5, SumPick

LEMMA SumChange ==
  ASSUME NEW S, IsFiniteSet(S), NEW f \in [S -> Nat], NEW x \in S,
         NEW d \in Int, f[x] + d \in Nat
  PROVE  SumFunctionOnSet([f EXCEPT ![x] = @ + d], S) = SumFunctionOnSet(f, S) + d
<1> DEFINE g == [f EXCEPT ![x] = @ + d]
<1>1. /\ g \in [S -> Nat] /\ g[x] = f[x] + d
      /\ \A y \in S \ {x} : f[y] = g[y]
      /\ f[x] \in Nat
  BY Zenon
<1> HIDE DEF g
<1>2. /\ \A y \in S : f[y] \in Nat
      /\ \A y \in S : g[y] \in Nat
  BY <1>1
<1>3. SumFunctionOnSet(f, S) + g[x] = SumFunctionOnSet(g, S) + f[x]
  BY <1>1, <1>2, SumUpdate
<1>4. SumFunctionOnSet(f, S) \in Nat /\ SumFunctionOnSet(g, S) \in Nat
  BY <1>2, SumType
<1>5. SumFunctionOnSet(g, S) = SumFunctionOnSet(f, S) + d
  BY <1>1, <1>3, <1>4, SMT
<1> QED
  BY <1>5 DEF g

-----------------------------------------------------------------------------
(* Sums over intervals: the last summand, and a run of equal ones *)
LEMMA SumLast ==
  ASSUME NEW f, NEW lo \in Int, NEW hi \in Int, lo <= hi,
         \A t \in lo..hi : f[t] \in Nat
  PROVE  SumFunctionOnSet(f, lo..hi) = SumFunctionOnSet(f, lo..(hi - 1)) + f[hi]
<1>1. /\ lo..hi = (lo..(hi - 1)) \cup {hi}
      /\ hi \notin lo..(hi - 1)
      /\ hi - 1 \in Int
  BY SMT
<1>2. IsFiniteSet(lo..(hi - 1))
  BY <1>1, FS_Interval
<1>3. SumFunctionOnSet(f, lo..(hi - 1)) \in Nat
  BY <1>1, <1>2, SumType
<1>4. SumFunctionOnSet(f, lo..hi) = f[hi] + SumFunctionOnSet(f, lo..(hi - 1))
  BY <1>1, <1>2, SumAdd
<1> QED
  BY <1>1, <1>3, <1>4, SMT

SumOver(f, lo, hi) == SumFunctionOnSet(f, lo..hi)

EndsInRun(f, lo, mid, n, c) ==
  /\ lo <= mid
  /\ \A t \in lo..(mid - 1) : f[t] \in Nat
  /\ \A t \in mid..(mid + n - 1) : f[t] = c

LEMMA SumRun ==
  \A f : \A lo \in Int, mid \in Int, n \in Nat, c \in Nat :
    EndsInRun(f, lo, mid, n, c) =>
      SumOver(f, lo, mid + n - 1) = SumOver(f, lo, mid - 1) + c * n
<1> SUFFICES ASSUME NEW f, NEW lo \in Int, NEW mid \in Int,
                    NEW n \in Nat, NEW c \in Nat,
                    EndsInRun(f, lo, mid, n, c)
             PROVE  SumOver(f, lo, mid + n - 1) = SumOver(f, lo, mid - 1) + c * n
  BY Zenon
<1> USE DEF EndsInRun
<1> DEFINE Sum(hi) == SumOver(f, lo, hi)
           A == {k \in Nat : k <= n => Sum(mid + k - 1) = Sum(mid - 1) + c * k}
<1>1. Sum(mid - 1) \in Nat
  <2>1. IsFiniteSet(lo..(mid - 1))
    BY FS_Interval
  <2> QED
    BY <2>1, SumType DEF SumOver
<1>2. 0 \in A
  <2>1. mid + 0 - 1 = mid - 1 /\ c * 0 = 0
    BY SMT
  <2> QED
    BY <1>1, <2>1, SMT
<1>3. ASSUME NEW k \in Nat, k \in A
      PROVE  k + 1 \in A
  <2> SUFFICES ASSUME k + 1 <= n
               PROVE  Sum(mid + (k + 1) - 1) = Sum(mid - 1) + c * (k + 1)
    BY SMT
  <2>1. Sum(mid + k - 1) = Sum(mid - 1) + c * k
    BY <1>3, SMT
  <2>2. /\ mid + k \in Int /\ lo <= mid + k
        /\ mid + (k + 1) - 1 = mid + k
        /\ mid + k \in mid..(mid + n - 1)
        /\ \A t \in lo..(mid + k) : f[t] \in Nat
    BY SMT
  <2>3. Sum(mid + k) = Sum(mid + k - 1) + f[mid + k]
    BY <2>2, SumLast DEF SumOver
  <2>4. f[mid + k] = c
    BY <2>2
  <2>5. c * (k + 1) = c * k + c /\ c * k \in Nat
    BY ProductType, SMT
  <2> HIDE DEF Sum
  <2> QED
    BY <1>1, <2>1, <2>2, <2>3, <2>4, <2>5, SMT
<1>4. n \in A
  <2> HIDE DEF A
  <2> QED
    BY <1>2, <1>3, NaturalsByInduction
<1> QED
  BY <1>4

(***************************************************************************)
(* A price that changes at the cuts, p[i] from cut[i] to cut[i + 1]: its   *)
(* sum over the time units is the sum of the prices, each weighted with    *)
(* the time it held, and lies between the bounds of the prices that held.  *)
(***************************************************************************)
IsSteps(cut, p, w, m, n) ==
  /\ \A i \in m..(n + 1) : cut[i] \in Int
  /\ \A i \in m..n : /\ cut[i] <= cut[i + 1]
                     /\ p[i] \in Nat
                     /\ w[i] = p[i] * (cut[i + 1] - cut[i])

LEMMA StepWeights ==
  ASSUME NEW cut, NEW p, NEW w, NEW m \in Nat, NEW n \in Nat,
         IsSteps(cut, p, w, m, n)
  PROVE  \A i \in m..n : w[i] \in Nat
<1> SUFFICES ASSUME NEW i \in m..n PROVE w[i] \in Nat
  OBVIOUS
<1>1. /\ i \in m..(n + 1) /\ i + 1 \in m..(n + 1)
  BY SMT
<1>2. cut[i + 1] - cut[i] \in Nat
  BY <1>1, SMT DEF IsSteps
<1> QED
  BY <1>2, ProductType DEF IsSteps

LEMMA StepsAscend ==
  ASSUME NEW cut, NEW p, NEW w, NEW m \in Nat, NEW n \in Nat,
         IsSteps(cut, p, w, m, n)
  PROVE  \A j \in Nat : m + j <= n + 1 => cut[m] <= cut[m + j]
<1> DEFINE A == {j \in Nat : m + j <= n + 1 => cut[m] <= cut[m + j]}
<1>1. 0 \in A
  BY SMT DEF IsSteps
<1>2. ASSUME NEW j \in Nat, j \in A
      PROVE  j + 1 \in A
  <2> SUFFICES ASSUME m + (j + 1) <= n + 1
               PROVE  cut[m] <= cut[m + (j + 1)]
    BY SMT
  <2>1. /\ m \in m..(n + 1) /\ m + j \in m..(n + 1) /\ m + j \in m..n
        /\ m + (j + 1) \in m..(n + 1) /\ m + (j + 1) = (m + j) + 1
        /\ cut[m] <= cut[m + j]
    BY <1>2, SMT
  <2>2. /\ cut[m] \in Int /\ cut[m + j] \in Int /\ cut[m + (j + 1)] \in Int
        /\ cut[m + j] <= cut[m + (j + 1)]
    BY <2>1 DEF IsSteps
  <2> QED
    BY <2>1, <2>2, SMT
<1>3. Nat \subseteq A
  <2> HIDE DEF A
  <2> QED
    BY <1>1, <1>2, NaturalsByInduction
<1> QED
  BY <1>3

FollowsSteps(f, cut, p, w, m, n) ==
  /\ m \in Nat /\ n \in Nat /\ m <= n
  /\ IsSteps(cut, p, w, m, n)
  /\ \A i \in m..n : \A t \in cut[i]..(cut[i + 1] - 1) : f[t] = p[i]

LEMMA StepSum ==
  \A f, cut, p, w, m, n : FollowsSteps(f, cut, p, w, m, n) =>
    SumOver(w, m, n) = SumOver(f, cut[m], cut[n + 1] - 1)
<1> SUFFICES
  ASSUME NEW f, NEW cut, NEW p, NEW w, NEW m, NEW n,
         FollowsSteps(f, cut, p, w, m, n)
  PROVE  SumOver(w, m, n) = SumOver(f, cut[m], cut[n + 1] - 1)
  BY Zenon
<1> /\ m \in Nat /\ n \in Nat /\ m <= n
    /\ IsSteps(cut, p, w, m, n)
  BY DEF FollowsSteps
<1> USE DEF FollowsSteps
<1> DEFINE Weights(j) == SumFunctionOnSet(w, m..(m + j - 1))
           Units(j) == SumFunctionOnSet(f, cut[m]..(cut[m + j] - 1))
           A == {j \in Nat : m + j <= n + 1 =>
                   /\ Weights(j) = Units(j) /\ Weights(j) \in Nat
                   /\ \A t \in cut[m]..(cut[m + j] - 1) : f[t] \in Nat}
<1>1. 0 \in A
  <2>1. cut[m + 0] = cut[m] /\ cut[m] \in Int
    BY SMT DEF IsSteps
  <2>2. m..(m + 0 - 1) = {} /\ cut[m]..(cut[m + 0] - 1) = {}
    BY <2>1, SMT
  <2>3. Weights(0) = 0 /\ Units(0) = 0
    BY <2>2, SumEmpty
  <2> QED
    BY <2>2, <2>3
<1>2. ASSUME NEW j \in Nat, j \in A
      PROVE  j + 1 \in A
  <2> SUFFICES ASSUME m + (j + 1) <= n + 1
               PROVE  /\ Weights(j + 1) = Units(j + 1)
                      /\ Weights(j + 1) \in Nat
                      /\ \A t \in cut[m]..(cut[m + (j + 1)] - 1) : f[t] \in Nat
    BY SMT
  <2> DEFINE i == m + j
  <2>1. /\ Weights(j) = Units(j) /\ Weights(j) \in Nat
        /\ \A t \in cut[m]..(cut[i] - 1) : f[t] \in Nat
    BY <1>2, SMT
  <2>2. /\ i \in m..n /\ m \in m..(n + 1)
        /\ m \in Int /\ i \in Int /\ m <= i
        /\ m + (j + 1) = i + 1 /\ m + (j + 1) - 1 = i
        /\ i \in m..(n + 1) /\ i + 1 \in m..(n + 1)
        /\ \A k \in m..i : k \in m..n
    BY SMT
  <2>3. /\ cut[m] \in Int /\ cut[i] \in Int /\ cut[i + 1] \in Int
        /\ cut[i] <= cut[i + 1] /\ p[i] \in Nat
        /\ w[i] = p[i] * (cut[i + 1] - cut[i])
    BY <2>2 DEF IsSteps
  <2>4. cut[m] <= cut[i]
    <3>1. m + j <= n + 1
      BY SMT
    <3> QED
      BY <3>1, StepsAscend, Zenon
  <2>5. Weights(j + 1) = Weights(j) + w[i] /\ w[i] \in Nat
    <3>1. \A k \in m..i : w[k] \in Nat
      BY <2>2, StepWeights
    <3> HIDE DEF i
    <3>2. SumFunctionOnSet(w, m..i) = SumFunctionOnSet(w, m..(i - 1)) + w[i]
      BY <2>2, <3>1, SumLast
    <3> QED
      BY <2>2, <3>1, <3>2 DEF i
  <2>6. PICK d \in Nat : d = cut[i + 1] - cut[i]
    BY <2>3, SMT
  <2>7. cut[i] + d - 1 = cut[i + 1] - 1
    BY <2>3, <2>6, SMT
  <2>8. \A t \in cut[i]..(cut[i] + d - 1) : f[t] = p[i]
    BY <2>2, <2>7
  <2>9. Units(j + 1) = Units(j) + p[i] * d
    <3> HIDE DEF i
    <3>1. EndsInRun(f, cut[m], cut[i], d, p[i])
      BY <2>1, <2>4, <2>8 DEF EndsInRun
    <3>2. SumOver(f, cut[m], cut[i] + d - 1) =
            SumOver(f, cut[m], cut[i] - 1) + p[i] * d
      BY <2>3, <3>1, SumRun
    <3> QED
      BY <2>2, <2>7, <3>2 DEF i, SumOver
  <2>10. \A t \in cut[m]..(cut[i + 1] - 1) : f[t] \in Nat
    <3> HIDE DEF i
    <3> QED
      BY <2>1, <2>3, <2>4, <2>7, <2>8, SMT
  <2> HIDE DEF Weights, Units
  <2> QED
    BY <2>1, <2>2, <2>3, <2>5, <2>6, <2>9, <2>10, SMT
<1>3. n + 1 - m \in A
  <2>1. n + 1 - m \in Nat
    BY SMT
  <2> HIDE DEF A
  <2> QED
    BY <1>1, <1>2, <2>1, NaturalsByInduction
<1>4. m + (n + 1 - m) = n + 1 /\ m + (n + 1 - m) - 1 = n
  BY SMT
<1> QED
  BY <1>3, <1>4 DEF SumOver

LEMMA StepBounds ==
  ASSUME NEW cut, NEW p, NEW w, NEW m \in Nat, NEW n \in Nat, m <= n,
         IsSteps(cut, p, w, m, n), NEW low \in Nat, NEW high \in Nat,
         \A i \in m..n : cut[i] < cut[i + 1] => low <= p[i] /\ p[i] <= high
  PROVE  /\ SumFunctionOnSet(w, m..n) \in Nat
         /\ cut[n + 1] - cut[m] \in Nat
         /\ low * (cut[n + 1] - cut[m]) <= SumFunctionOnSet(w, m..n)
         /\ SumFunctionOnSet(w, m..n) <= high * (cut[n + 1] - cut[m])
<1> DEFINE Weights(j) == SumFunctionOnSet(w, m..(m + j - 1))
           A == {j \in Nat : m + j <= n + 1 =>
                   /\ Weights(j) \in Nat
                   /\ low * (cut[m + j] - cut[m]) <= Weights(j)
                   /\ Weights(j) <= high * (cut[m + j] - cut[m])}
<1>1. 0 \in A
  <2>1. cut[m + 0] - cut[m] = 0
    BY SMT DEF IsSteps
  <2>2. m..(m + 0 - 1) = {}
    BY SMT
  <2>3. Weights(0) = 0
    BY <2>2, SumEmpty
  <2>4. low * 0 = 0 /\ high * 0 = 0
    BY SMT
  <2> QED
    BY <2>1, <2>3, <2>4
<1>2. ASSUME NEW j \in Nat, j \in A
      PROVE  j + 1 \in A
  <2> SUFFICES ASSUME m + (j + 1) <= n + 1
               PROVE  /\ Weights(j + 1) \in Nat
                      /\ low * (cut[m + (j + 1)] - cut[m]) <= Weights(j + 1)
                      /\ Weights(j + 1) <= high * (cut[m + (j + 1)] - cut[m])
    BY SMT
  <2> DEFINE i == m + j
  <2>1. /\ Weights(j) \in Nat
        /\ low * (cut[i] - cut[m]) <= Weights(j)
        /\ Weights(j) <= high * (cut[i] - cut[m])
    BY <1>2, SMT
  <2>2. /\ i \in m..n /\ m \in m..(n + 1)
        /\ m \in Int /\ i \in Int /\ m <= i
        /\ m + (j + 1) = i + 1 /\ m + (j + 1) - 1 = i
        /\ i \in m..(n + 1) /\ i + 1 \in m..(n + 1)
        /\ \A k \in m..i : k \in m..n
    BY SMT
  <2>3. /\ cut[m] \in Int /\ cut[i] \in Int /\ cut[i + 1] \in Int
        /\ cut[i] <= cut[i + 1] /\ p[i] \in Nat
        /\ w[i] = p[i] * (cut[i + 1] - cut[i])
    BY <2>2 DEF IsSteps
  <2>4. cut[m] <= cut[i]
    <3>1. m + j <= n + 1
      BY SMT
    <3> QED
      BY <3>1, StepsAscend, Zenon
  <2>5. Weights(j + 1) = Weights(j) + w[i] /\ w[i] \in Nat
    <3>1. \A k \in m..i : w[k] \in Nat
      BY <2>2, StepWeights
    <3> HIDE DEF i
    <3>2. SumFunctionOnSet(w, m..i) = SumFunctionOnSet(w, m..(i - 1)) + w[i]
      BY <2>2, <3>1, SumLast
    <3> QED
      BY <2>2, <3>1, <3>2 DEF i
  <2>6. PICK d \in Nat, e \in Nat :
          /\ d = cut[i + 1] - cut[i] /\ e = cut[i] - cut[m]
          /\ cut[i + 1] - cut[m] = e + d
    BY <2>3, <2>4, SMT
  <2>7. low * d <= w[i] /\ w[i] <= high * d
    <3>1. w[i] = p[i] * d
      BY <2>3, <2>6
    <3>2. CASE d = 0
      BY <3>1, <3>2, <2>3, SMT
    <3>3. CASE d # 0
      <4>1. cut[i] < cut[i + 1]
        BY <2>3, <2>6, <3>3, SMT
      <4>2. low <= p[i] /\ p[i] <= high
        BY <2>2, <4>1
      <4>3. /\ low * d = d * low /\ p[i] * d = d * p[i]
            /\ high * d = d * high
        BY <2>3, SMT
      <4> QED
        BY <2>3, <3>1, <4>2, <4>3, ProductMonotone
    <3> QED
      BY <3>2, <3>3
  <2>8. /\ low * (e + d) = low * e + low * d
        /\ high * (e + d) = high * e + high * d
        /\ low * e \in Nat /\ low * d \in Nat
        /\ high * e \in Nat /\ high * d \in Nat
    BY ProductType, SMT
  <2> HIDE DEF Weights, i
  <2> QED
    BY <2>1, <2>2, <2>5, <2>6, <2>7, <2>8, SMT
<1>3. n + 1 - m \in A /\ n + 1 - m \in Nat
  <2>1. n + 1 - m \in Nat
    BY SMT
  <2> HIDE DEF A
  <2> QED
    BY <1>1, <1>2, <2>1, NaturalsByInduction
<1>4. m + (n + 1 - m) = n + 1 /\ m + (n + 1 - m) - 1 = n
  BY SMT
<1>5. cut[n + 1] - cut[m] \in Nat
  <2>1. cut[m] <= cut[m + (n + 1 - m)]
    <3>1. m + (n + 1 - m) <= n + 1
      BY SMT
    <3> QED
      BY <1>3, <3>1, StepsAscend, Zenon
  <2>2. m \in m..(n + 1) /\ n + 1 \in m..(n + 1)
    BY SMT
  <2>3. cut[m] \in Int /\ cut[n + 1] \in Int
    BY <2>2 DEF IsSteps
  <2> QED
    BY <1>4, <2>1, <2>3, SMT
<1> QED
  BY <1>3, <1>4, <1>5
=============================================================================
