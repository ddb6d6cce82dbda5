-------------------------- MODULE HistogramProofs --------------------------
(***************************************************************************)
(* The invariants of Histogram, for any label sets, observations, buckets, *)
(* limits and float format.                                                *)
(***************************************************************************)
EXTENDS Histogram, FiniteSetTheorems, SequenceTheorems, WellFoundedInduction, TLAPS

-----------------------------------------------------------------------------
(***************************************************************************)
(* The least number of a set.  A proof by induction over Nat takes the     *)
(* least number at which the statement fails.                              *)
(***************************************************************************)
LEMMA Least ==
  ASSUME NEW S \in SUBSET Nat, S # {}
  PROVE  Min(S) \in S /\ \A n \in S : Min(S) <= n
<1> DEFINE Less == {pair \in Nat \X Nat : pair[1] < pair[2]}
<1>1. IsWellFoundedOn(Less, Nat)
  BY NatLessThanWellFounded DEF OpToRel
<1>2. PICK x \in S : \A y \in S : <<y, x>> \notin Less
  BY <1>1, WFMin
<1>3. ASSUME NEW y \in S
      PROVE  x <= y
  <2>1. x \in Nat /\ y \in Nat /\ <<y, x>> \notin Less
    BY <1>2
  <2> QED
    BY <2>1
<1> QED
  BY <1>3 DEF Min

-----------------------------------------------------------------------------
(***************************************************************************)
(* Floats.                                                                 *)
(***************************************************************************)
LEMMA AbsNat == \A n \in Int : Abs(n) \in Nat
BY DEF Abs

\* A function of the powers of two, as far as a number goes.
IsPowers(power, n) == power = [e \in 0 .. n |-> IF e = 0 THEN 1 ELSE 2 * power[e - 1]]

LEMMA PowersExist ==
  ASSUME NEW n \in Nat
  PROVE  \E power : IsPowers(power, n)
<1> DEFINE Bad == {m \in Nat : ~ \E power : IsPowers(power, m)}
<1>1. SUFFICES ASSUME Bad # {} PROVE FALSE
  OBVIOUS
<1>2. Min(Bad) \in Bad /\ \A m \in Bad : Min(Bad) <= m
  BY <1>1, Least
<1>3. PICK m \in Nat : (~ \E power : IsPowers(power, m)) /\ \A j \in 0 .. m - 1 : \E power : IsPowers(power, j)
  <2>1. \A j \in 0 .. Min(Bad) - 1 : j \notin Bad /\ j \in Nat
    BY <1>2
  <2> QED
    BY <1>2, <2>1
<1>4. CASE m = 0
  <2>1. IsPowers([e \in 0 .. 0 |-> 1], 0)
    BY DEF IsPowers
  <2> QED
    BY <1>3, <1>4, <2>1
<1>5. CASE m # 0
  <2>1. PICK power : IsPowers(power, m - 1)
    BY <1>3, <1>5
  <2> DEFINE longer == [e \in 0 .. m |-> IF e = m THEN 2 * power[m - 1] ELSE power[e]]
  <2>2. ASSUME NEW e \in 0 .. m
        PROVE  longer[e] = IF e = 0 THEN 1 ELSE 2 * longer[e - 1]
    <3>1. CASE e = m
      BY <1>5, <3>1
    <3>2. CASE e # m
      <4>1. e \in 0 .. m - 1 /\ longer[e] = power[e] /\ (e # 0 => longer[e - 1] = power[e - 1])
        BY <3>2
      <4>2. power[e] = IF e = 0 THEN 1 ELSE 2 * power[e - 1]
        BY <2>1, <4>1 DEF IsPowers
      <4> QED
        BY <4>1, <4>2
    <3> QED
      BY <3>1, <3>2
  <2>3. longer = [e \in 0 .. m |-> longer[e]]
    OBVIOUS
  <2> HIDE DEF longer
  <2>4. longer = [e \in 0 .. m |-> IF e = 0 THEN 1 ELSE 2 * longer[e - 1]]
    BY <2>2, <2>3, Zenon
  <2> QED
    BY <1>3, <2>4 DEF IsPowers
<1> QED
  BY <1>4, <1>5

\* 2 ^ e is more than e.
LEMMA PowersGrow ==
  ASSUME NEW n \in Nat, NEW power, IsPowers(power, n)
  PROVE  \A e \in 0 .. n : power[e] \in Nat /\ power[e] > e
<1> DEFINE Bad == {e \in 0 .. n : ~(power[e] \in Nat /\ power[e] > e)}
<1>1. SUFFICES ASSUME Bad # {} PROVE FALSE
  OBVIOUS
<1>2. Min(Bad) \in Bad /\ \A e \in Bad : Min(Bad) <= e
  <2>1. Bad \in SUBSET Nat
    OBVIOUS
  <2> HIDE DEF Bad
  <2> QED
    BY <1>1, <2>1, Least
<1>3. PICK e \in 0 .. n : e \in Bad /\ \A f \in Bad : e <= f
  BY <1>2
<1>4. power[e] = IF e = 0 THEN 1 ELSE 2 * power[e - 1]
  BY DEF IsPowers
<1>5. e # 0 => power[e - 1] \in Nat /\ power[e - 1] > e - 1
  BY <1>3
<1> QED
  BY <1>3, <1>4, <1>5

\* The spacing is large enough, and half of it would not be.
LEMMA SpacingFits ==
  ASSUME NEW n \in Int
  PROVE  /\ Spacing(n) \in Nat \ {0}
         /\ Abs(n) <= Significand * Spacing(n)
         /\ \/ Spacing(n) = 1
            \/ \E half \in Nat \ {0} : Spacing(n) = 2 * half /\ Abs(n) > Significand * half
<1>1. PICK power : /\ IsPowers(power, Abs(n))
                   /\ Spacing(n) = power[Min({e \in 0 .. Abs(n) : Abs(n) <= Significand * power[e]})]
  BY PowersExist, AbsNat, Zenon DEF Spacing, IsPowers
<1> DEFINE Enough == {e \in 0 .. Abs(n) : Abs(n) <= Significand * power[e]}
<1>2. Abs(n) \in Nat /\ Significand \in Nat \ {0}
  BY AbsNat, FloatAssumption
<1>3. \A e \in 0 .. Abs(n) : power[e] \in Nat /\ power[e] > e
  BY <1>1, <1>2, PowersGrow
<1>4. Abs(n) \in Enough
  <2>1. power[Abs(n)] \in Nat /\ power[Abs(n)] > Abs(n)
    BY <1>2, <1>3
  <2>2. Significand * power[Abs(n)] >= power[Abs(n)]
    BY <1>2, <2>1
  <2> QED
    BY <1>2, <2>1, <2>2
<1>5. PICK e : e = Min(Enough) /\ e \in Enough /\ \A f \in Enough : e <= f
  <2>1. Enough \in SUBSET Nat
    OBVIOUS
  <2> HIDE DEF Enough
  <2> QED
    BY <1>4, <2>1, Least
<1>6. e \in 0 .. Abs(n) /\ Spacing(n) = power[e] /\ power[e] \in Nat \ {0} /\ Abs(n) <= Significand * power[e]
  BY <1>1, <1>2, <1>3, <1>5
<1>7. power[e] = IF e = 0 THEN 1 ELSE 2 * power[e - 1]
  BY <1>1, <1>6 DEF IsPowers
<1>8. CASE e = 0
  BY <1>6, <1>7, <1>8
<1>9. CASE e # 0
  <2>1. e - 1 \in 0 .. Abs(n) /\ e - 1 \notin Enough
    BY <1>2, <1>5, <1>6, <1>9
  <2>2. power[e - 1] \in Nat \ {0}
    BY <1>2, <1>3, <2>1
  <2>3. ~(Abs(n) <= Significand * power[e - 1])
    BY <2>1
  <2> QED
    BY <1>2, <1>6, <1>7, <1>9, <2>2, <2>3
<1> QED
  BY <1>8, <1>9

\* An integer up to the significand is a float; a larger one is rounded to a
\* float that is not smaller than the significand.
LEMMA RoundedFloat ==
  ASSUME NEW n \in Int
  PROVE  /\ Rounded(n) \in Int
         /\ Abs(n) <= Significand => Rounded(n) = n
         /\ Abs(n) > Significand => Abs(Rounded(n)) >= Significand
<1>1. PICK step : step = Spacing(n)
  OBVIOUS
<1>2. PICK magnitude : magnitude = Abs(n)
  OBVIOUS
<1>3. step \in Nat \ {0} /\ magnitude \in Nat /\ Significand \in Nat \ {0}
  BY <1>1, <1>2, SpacingFits, AbsNat, FloatAssumption
<1> DEFINE down  == magnitude \div step
           rest  == 2 * (magnitude % step)
           units == IF rest > step \/ (rest = step /\ down % 2 = 1) THEN down + 1 ELSE down
<1>4. Rounded(n) = step * (IF n < 0 THEN -units ELSE units)
  BY <1>1, <1>2 DEF Rounded
<1>5. PICK q, r : q = magnitude \div step /\ r = magnitude % step
  OBVIOUS
<1>6. q \in Nat /\ r \in 0 .. step - 1 /\ magnitude = (step * q) + r
  BY <1>3, <1>5
<1>7. PICK u : u = units
  OBVIOUS
<1>8. \/ u = q + 1 /\ 2 * r >= step
      \/ u = q /\ 2 * r <= step
  BY <1>3, <1>5, <1>6, <1>7
<1>9. Rounded(n) = step * (IF n < 0 THEN -u ELSE u) /\ u \in Nat
  BY <1>4, <1>6, <1>7, <1>8
<1> HIDE DEF down, rest, units
<1>10. step * u \in Nat
  BY <1>3, <1>9
<1>11. Rounded(n) = (IF n < 0 THEN -(step * u) ELSE step * u)
  BY <1>3, <1>9
<1>12. Rounded(n) \in Int /\ Abs(Rounded(n)) = step * u
  BY <1>10, <1>11 DEF Abs
<1>13. CASE magnitude <= Significand
  <2>1. step = 1
    <3>1. ASSUME NEW half \in Nat \ {0}, step = 2 * half, magnitude > Significand * half
          PROVE  FALSE
      BY <1>3, <1>13, <3>1
    <3> QED
      BY <3>1, <1>1, <1>2, SpacingFits
  <2>2. r = 0 /\ u = q /\ q = magnitude
    BY <2>1, <1>3, <1>6, <1>8
  <2>3. step * u = magnitude
    BY <1>3, <2>1, <2>2
  <2>4. Rounded(n) = n
    BY <1>2, <1>11, <2>3 DEF Abs
  <2> QED
    BY <1>2, <1>3, <1>12, <1>13, <2>4
<1>14. CASE ~(magnitude <= Significand)
  <2>1. PICK half \in Nat \ {0} : step = 2 * half /\ magnitude > Significand * half
    <3>1. step # 1
      BY <1>1, <1>2, <1>3, <1>14, SpacingFits
    <3> QED
      BY <3>1, <1>1, <1>2, SpacingFits
  <2>2. step * u >= magnitude - half
    <3>1. CASE u = q + 1
      <4>1. step * u = (step * q) + step
        BY <1>3, <1>6, <3>1
      <4> QED
        BY <4>1, <1>3, <1>6, <2>1
    <3>2. CASE u = q /\ 2 * r <= step
      <4>1. r <= half
        BY <1>3, <1>6, <2>1, <3>2
      <4> QED
        BY <4>1, <1>3, <1>6, <2>1, <3>2
    <3> QED
      BY <3>1, <3>2, <1>8
  <2>3. (Significand * half) + 1 - half >= Significand
    <3>1. (Significand - 1) * half >= Significand - 1
      BY <1>3, <2>1
    <3>2. (Significand - 1) * half = (Significand * half) - half
      BY <1>3, <2>1
    <3> QED
      BY <3>1, <3>2, <1>3, <2>1
  <2>4. step * u >= Significand
    <3>1. Significand * half \in Nat
      BY <1>3, <2>1
    <3> QED
      BY <3>1, <2>1, <2>2, <2>3, <1>3, <1>10
  <2> QED
    BY <2>4, <1>2, <1>3, <1>12, <1>14
<1> QED
  BY <1>13, <1>14

\* So a sum that is below the significand after rounding has not been rounded.
LEMMA SmallSumsExact ==
  ASSUME NEW n \in Int, Abs(Rounded(n)) < Significand
  PROVE  Rounded(n) = n
<1>1. Abs(n) \in Nat /\ Abs(Rounded(n)) \in Nat /\ Significand \in Nat
  BY RoundedFloat, AbsNat, FloatAssumption
<1> QED
  BY <1>1, RoundedFloat

-----------------------------------------------------------------------------
(***************************************************************************)
(* Sums.                                                                   *)
(***************************************************************************)
\* The sums of the first values, up to n of them.
IsPartial(partial, values, n, rounding) ==
  partial = [i \in 0 .. n |->
               IF i = 0 THEN 0
               ELSE IF rounding THEN Rounded(partial[i - 1] + values[i])
               ELSE partial[i - 1] + values[i]]

LEMMA PartialsExist ==
  ASSUME NEW n \in Nat, NEW values, NEW rounding
  PROVE  \E partial : IsPartial(partial, values, n, rounding)
<1> DEFINE Next1(sum, i) ==
             IF rounding THEN Rounded(sum + values[i]) ELSE sum + values[i]
           Bad == {m \in Nat : ~ \E partial : IsPartial(partial, values, m, rounding)}
<1>1. SUFFICES ASSUME Bad # {} PROVE FALSE
  OBVIOUS
<1>2. Min(Bad) \in Bad /\ \A m \in Bad : Min(Bad) <= m
  BY <1>1, Least
<1>3. PICK m \in Nat : /\ ~ \E partial : IsPartial(partial, values, m, rounding)
                       /\ \A j \in 0 .. m - 1 : \E partial : IsPartial(partial, values, j, rounding)
  <2>1. \A j \in 0 .. Min(Bad) - 1 : j \notin Bad /\ j \in Nat
    BY <1>2
  <2> QED
    BY <1>2, <2>1
<1>4. CASE m = 0
  <2>1. IsPartial([i \in 0 .. 0 |-> 0], values, 0, rounding)
    BY DEF IsPartial
  <2> QED
    BY <1>3, <1>4, <2>1
<1>5. CASE m # 0
  <2>1. PICK partial : IsPartial(partial, values, m - 1, rounding)
    BY <1>3, <1>5
  <2> DEFINE longer == [i \in 0 .. m |-> IF i = m THEN Next1(partial[m - 1], m) ELSE partial[i]]
  <2> HIDE DEF Next1
  <2>2. ASSUME NEW i \in 0 .. m
        PROVE  longer[i] = IF i = 0 THEN 0 ELSE Next1(longer[i - 1], i)
    <3>1. CASE i = m
      BY <1>5, <3>1
    <3>2. CASE i # m
      <4>1. i \in 0 .. m - 1 /\ longer[i] = partial[i] /\ (i # 0 => longer[i - 1] = partial[i - 1])
        BY <3>2
      <4>2. partial[i] = IF i = 0 THEN 0 ELSE Next1(partial[i - 1], i)
        BY <2>1, <4>1, Zenon DEF IsPartial, Next1
      <4> QED
        BY <4>1, <4>2
    <3> QED
      BY <3>1, <3>2
  <2>3. longer = [i \in 0 .. m |-> longer[i]]
    OBVIOUS
  <2> HIDE DEF longer
  <2>4. longer = [i \in 0 .. m |-> IF i = 0 THEN 0 ELSE Next1(longer[i - 1], i)]
    BY <2>2, <2>3, Zenon
  <2> QED
    BY <1>3, <2>4, Zenon DEF IsPartial, Next1
<1> QED
  BY <1>4, <1>5

LEMMA AccumulatedIs ==
  ASSUME NEW values, Len(values) \in Nat, NEW rounding
  PROVE  \E partial : /\ IsPartial(partial, values, Len(values), rounding)
                      /\ Accumulated(values, rounding) = partial[Len(values)]
<1>1. \E partial : IsPartial(partial, values, Len(values), rounding)
  BY PartialsExist
<1> QED
  BY <1>1, Zenon DEF Accumulated, IsPartial

\* The sum of no values.
LEMMA AccumulatedNone ==
  ASSUME NEW rounding
  PROVE  Accumulated(<<>>, rounding) = 0
<1>1. Len(<<>>) = 0
  BY EmptySeq
<1>2. PICK partial : /\ IsPartial(partial, <<>>, 0, rounding)
                     /\ Accumulated(<<>>, rounding) = partial[0]
  BY <1>1, AccumulatedIs
<1>3. 0 \in 0 .. 0
  OBVIOUS
<1>4. partial[0] = 0
  BY <1>2, <1>3, Zenon DEF IsPartial
<1> QED
  BY <1>2, <1>4

\* The sum of one value more.
LEMMA AccumulatedAppend ==
  ASSUME NEW values \in Seq(Int), NEW v \in Int, NEW rounding
  PROVE  Accumulated(Append(values, v), rounding) =
           IF rounding THEN Rounded(Accumulated(values, rounding) + v)
           ELSE Accumulated(values, rounding) + v
<1>1. PICK n, more : n = Len(values) /\ more = Append(values, v)
  OBVIOUS
<1>2. n \in Nat /\ Len(more) = n + 1 /\ more[n + 1] = v /\ \A i \in 1 .. n : more[i] = values[i]
  BY <1>1
<1>3. PICK partial : IsPartial(partial, values, n, rounding) /\ Accumulated(values, rounding) = partial[n]
  BY <1>1, <1>2, AccumulatedIs
<1>4. PICK longer : IsPartial(longer, more, n + 1, rounding) /\ Accumulated(more, rounding) = longer[n + 1]
  <2>1. Len(more) \in Nat
    BY <1>2
  <2> QED
    BY <1>2, <2>1, AccumulatedIs
<1>5. \A i \in 0 .. n : longer[i] = partial[i]
  <2> DEFINE Bad == {i \in 0 .. n : longer[i] # partial[i]}
  <2>1. SUFFICES ASSUME Bad # {} PROVE FALSE
    OBVIOUS
  <2>2. Min(Bad) \in Bad /\ \A i \in Bad : Min(Bad) <= i
    <3>1. Bad \in SUBSET Nat
      BY <1>2
    <3> HIDE DEF Bad
    <3> QED
      BY <2>1, <3>1, Least
  <2>3. PICK i \in 0 .. n : i \in Bad /\ \A j \in Bad : i <= j
    BY <2>2
  <2>4. i # 0 => longer[i - 1] = partial[i - 1] /\ more[i] = values[i]
    BY <1>2, <2>3
  <2>5. i \in 0 .. n + 1
    BY <1>2, <2>3
  <2>6. partial[i] = (IF i = 0 THEN 0
                      ELSE IF rounding THEN Rounded(partial[i - 1] + values[i])
                      ELSE partial[i - 1] + values[i])
    BY <1>3, <2>3, Zenon DEF IsPartial
  <2>7. longer[i] = (IF i = 0 THEN 0
                     ELSE IF rounding THEN Rounded(longer[i - 1] + more[i])
                     ELSE longer[i - 1] + more[i])
    BY <1>4, <2>5, Zenon DEF IsPartial
  <2>8. longer[i] = partial[i]
    BY <2>4, <2>6, <2>7, Zenon
  <2> QED
    BY <2>3, <2>8
<1>6. n + 1 \in 0 .. n + 1 /\ n + 1 # 0 /\ (n + 1) - 1 = n
  BY <1>2
<1>7. longer[n] = partial[n]
  <2>1. n \in 0 .. n
    BY <1>2
  <2> QED
    BY <1>5, <2>1
<1>8. longer[n + 1] = IF rounding THEN Rounded(longer[n] + more[n + 1]) ELSE longer[n] + more[n + 1]
  BY <1>4, <1>6, Zenon DEF IsPartial
<1> QED
  BY <1>1, <1>2, <1>3, <1>4, <1>7, <1>8, Zenon

\* The sum of one value.
LEMMA AccumulatedOne ==
  ASSUME NEW v \in Int
  PROVE  Accumulated(<<v>>, TRUE) = Rounded(v) /\ Accumulated(<<v>>, FALSE) = v
<1>1. <<>> \in Seq(Int) /\ Append(<<>>, v) = <<v>>
  BY EmptySeq
<1>2. 0 + v = v
  OBVIOUS
<1>3. Accumulated(Append(<<>>, v), TRUE) = Rounded(Accumulated(<<>>, TRUE) + v)
  BY <1>1, AccumulatedAppend, Zenon
<1>4. Accumulated(Append(<<>>, v), FALSE) = Accumulated(<<>>, FALSE) + v
  BY <1>1, AccumulatedAppend, Zenon
<1>5. Accumulated(<<>>, TRUE) = 0 /\ Accumulated(<<>>, FALSE) = 0
  BY AccumulatedNone, Zenon
<1> QED
  BY <1>1, <1>2, <1>3, <1>4, <1>5, Zenon

LEMMA AccumulatedInt ==
  ASSUME NEW values \in Seq(Int), NEW rounding
  PROVE  Accumulated(values, rounding) \in Int
<1>1. PICK n : n = Len(values) /\ n \in Nat
  OBVIOUS
<1>2. \A i \in 1 .. n : values[i] \in Int
  BY <1>1
<1>3. PICK partial : IsPartial(partial, values, n, rounding) /\ Accumulated(values, rounding) = partial[n]
  BY <1>1, AccumulatedIs
<1> DEFINE Bad == {i \in 0 .. n : partial[i] \notin Int}
<1>4. ASSUME Bad # {} PROVE FALSE
  <2>1. Min(Bad) \in Bad /\ \A i \in Bad : Min(Bad) <= i
    <3>1. Bad \in SUBSET Nat
      BY <1>1
    <3> HIDE DEF Bad
    <3> QED
      BY <1>4, <3>1, Least
  <2>2. PICK i \in 0 .. n : i \in Bad /\ \A j \in Bad : i <= j
    BY <2>1
  <2>3. i # 0 => partial[i - 1] \in Int /\ values[i] \in Int
    BY <1>1, <1>2, <2>2
  <2>4. partial[i] = (IF i = 0 THEN 0
                      ELSE IF rounding THEN Rounded(partial[i - 1] + values[i])
                      ELSE partial[i - 1] + values[i])
    BY <1>3, <2>2, Zenon DEF IsPartial
  <2>5. i # 0 => Rounded(partial[i - 1] + values[i]) \in Int
    <3>1. SUFFICES ASSUME i # 0, NEW sum, sum = partial[i - 1] + values[i]
                   PROVE  Rounded(sum) \in Int
      OBVIOUS
    <3>2. sum \in Int
      BY <2>3, <3>1
    <3> QED
      BY <3>2, RoundedFloat
  <2>6. partial[i] \in Int
    BY <2>3, <2>4, <2>5
  <2> QED
    BY <2>2, <2>6
<1>5. n \in 0 .. n
  BY <1>1
<1>6. n \notin Bad
  BY <1>4
<1> QED
  BY <1>3, <1>5, <1>6

-----------------------------------------------------------------------------
(***************************************************************************)
(* Buckets.                                                                *)
(***************************************************************************)
LEMMA AtMostNat ==
  ASSUME NEW values \in Seq(Int), NEW bound \in Int
  PROVE  /\ IsFiniteSet({i \in DOMAIN values : values[i] <= bound})
         /\ AtMost(values, bound) \in Nat /\ AtMost(values, bound) <= Len(values)
<1>1. DOMAIN values = 1 .. Len(values) /\ Len(values) \in Nat
  OBVIOUS
<1>2. IsFiniteSet(1 .. Len(values)) /\ Cardinality(1 .. Len(values)) = Len(values)
  BY <1>1, FS_Interval
<1>3. {i \in DOMAIN values : values[i] <= bound} \in SUBSET (1 .. Len(values))
  BY <1>1
<1>4. /\ IsFiniteSet({i \in DOMAIN values : values[i] <= bound})
      /\ Cardinality({i \in DOMAIN values : values[i] <= bound}) <= Len(values)
  BY <1>2, <1>3, FS_Subset
<1>5. Cardinality({i \in DOMAIN values : values[i] <= bound}) \in Nat
  BY <1>4, FS_CardinalityType
<1> QED
  BY <1>1, <1>4, <1>5 DEF AtMost

LEMMA AtMostNone ==
  ASSUME NEW bound
  PROVE  AtMost(<<>>, bound) = 0
<1>1. {i \in DOMAIN <<>> : <<>>[i] <= bound} = {}
  BY EmptySeq
<1> QED
  BY <1>1, FS_EmptySet DEF AtMost

LEMMA AtMostAppend ==
  ASSUME NEW values \in Seq(Int), NEW v \in Int, NEW bound \in Int
  PROVE  AtMost(Append(values, v), bound) =
           AtMost(values, bound) + IF v <= bound THEN 1 ELSE 0
<1>1. PICK n, more : n = Len(values) /\ more = Append(values, v)
  OBVIOUS
<1>2. /\ n \in Nat /\ DOMAIN values = 1 .. n /\ DOMAIN more = 1 .. n + 1
      /\ more[n + 1] = v /\ \A i \in 1 .. n : more[i] = values[i]
  BY <1>1
<1> DEFINE S == {i \in DOMAIN values : values[i] <= bound}
           T == {i \in DOMAIN more : more[i] <= bound}
<1>3. IsFiniteSet(S) /\ Cardinality(S) \in Nat
  BY AtMostNat DEF AtMost
<1>4. n + 1 \notin S
  BY <1>2
<1>5. T = IF v <= bound THEN S \cup {n + 1} ELSE S
  <2>1. \A i : i \in T <=> i \in 1 .. n + 1 /\ more[i] <= bound
    BY <1>2
  <2>2. \A i : i \in S <=> i \in 1 .. n /\ values[i] <= bound
    BY <1>2
  <2>3. \A i : i \in 1 .. n + 1 <=> i \in 1 .. n \/ i = n + 1
    BY <1>2
  <2> HIDE DEF S, T
  <2>4. CASE v <= bound
    <3>1. \A i : i \in T <=> i \in S \/ i = n + 1
      BY <1>2, <2>1, <2>2, <2>3, <2>4
    <3> QED
      BY <2>4, <3>1
  <2>5. CASE ~(v <= bound)
    <3>1. \A i : i \in T <=> i \in S
      BY <1>2, <2>1, <2>2, <2>3, <2>5
    <3> QED
      BY <2>5, <3>1
  <2> QED
    BY <2>4, <2>5
<1>6. AtMost(values, bound) = Cardinality(S) /\ AtMost(more, bound) = Cardinality(T)
  BY DEF AtMost
<1> HIDE DEF S, T
<1>7. Cardinality(S \cup {n + 1}) = Cardinality(S) + 1
  BY <1>3, <1>4, FS_AddElement
<1> QED
  BY <1>1, <1>3, <1>5, <1>6, <1>7

\* What falls out of a window cannot raise its count.
LEMMA AtMostTail ==
  ASSUME NEW values \in Seq(Int), values # <<>>, NEW bound \in Int
  PROVE  AtMost(Tail(values), bound) <= AtMost(values, bound)
<1>1. PICK n, rest : n = Len(values) /\ rest = Tail(values)
  OBVIOUS
<1>2. /\ n \in Nat \ {0} /\ DOMAIN values = 1 .. n /\ DOMAIN rest = 1 .. n - 1
      /\ \A i \in 1 .. n - 1 : rest[i] = values[i + 1]
  BY <1>1
<1> DEFINE S == {i \in DOMAIN values : values[i] <= bound}
           T == {i \in DOMAIN rest : rest[i] <= bound}
           shift == [i \in T |-> i + 1]
<1>3. shift \in Injection(T, S)
  <2>1. shift \in [T -> S]
    BY <1>2
  <2>2. \A i, j \in T : shift[i] = shift[j] => i = j
    BY <1>2
  <2> QED
    BY <2>1, <2>2 DEF Injection, IsInjective
<1>4. IsFiniteSet(S)
  BY AtMostNat
<1>5. AtMost(values, bound) = Cardinality(S) /\ AtMost(rest, bound) = Cardinality(T)
  BY DEF AtMost
<1> HIDE DEF S, T, shift
<1>6. Cardinality(T) <= Cardinality(S)
  BY <1>3, <1>4, FS_Injection
<1> QED
  BY <1>1, <1>5, <1>6

\* The bounds below all values, and those above all values.
LEMMA AtMostExtremes ==
  ASSUME NEW values \in Seq(Int), NEW bound \in Int
  PROVE  /\ AtMost(values, bound) = 0 <=> \A i \in 1 .. Len(values) : values[i] > bound
         /\ AtMost(values, bound) = Len(values) <=> \A i \in 1 .. Len(values) : values[i] <= bound
<1>1. PICK n : n = Len(values) /\ n \in Nat /\ DOMAIN values = 1 .. n
  OBVIOUS
<1> DEFINE S == {i \in DOMAIN values : values[i] <= bound}
<1>2. IsFiniteSet(S) /\ AtMost(values, bound) = Cardinality(S)
  BY AtMostNat DEF AtMost
<1>3. \A i \in 1 .. n : values[i] \in Int
  BY <1>1
<1>4. IsFiniteSet(1 .. n) /\ Cardinality(1 .. n) = n
  <2>1. n \in Nat
    BY <1>1
  <2> QED
    BY <2>1, FS_Interval
<1>5. S \in SUBSET (1 .. n)
  BY <1>1
<1>6. S = {} <=> \A i \in 1 .. n : values[i] > bound
  BY <1>1, <1>3
<1>7. S = 1 .. n <=> \A i \in 1 .. n : values[i] <= bound
  BY <1>1
<1> HIDE DEF S
<1>8. Cardinality(S) = 0 <=> S = {}
  BY <1>2, FS_EmptySet
<1>9. Cardinality(S) = n <=> S = 1 .. n
  BY <1>4, <1>5, FS_Subset
<1> QED
  BY <1>1, <1>2, <1>6, <1>7, <1>8, <1>9

-----------------------------------------------------------------------------
(***************************************************************************)
(* Observing.                                                              *)
(***************************************************************************)
LEMMA Constants ==
  /\ MaxSeries \in Nat \ {0} /\ MaxSamples \in Nat \ {0}
  /\ MaxFinite \in Nat \ {0} /\ MaxCount \in Nat \ {0}
  /\ Significand \in Nat \ {0} /\ Tolerance \in Nat \ {0}
  /\ Finite \subseteq Int /\ Value \subseteq Int /\ Value \subseteq Finite
  /\ Bucket \subseteq Nat
  /\ \A b \in Bucket : Bounds[b] \in Int
  /\ \A b, c \in Bucket : b < c => Bounds[b] < Bounds[c]
<1>1. MaxFinite \in Nat
  BY LimitsAssumption
<1>2. Finite \subseteq Int
  BY <1>1 DEF Finite
<1>3. ASSUME NEW b \in Bucket
      PROVE  Bounds[b] \in Int
  <2>1. Bounds \in Seq(Finite) /\ b \in 1 .. Len(Bounds)
    BY BoundsAssumption DEF Bucket
  <2>2. Bounds[b] \in Finite
    BY <2>1, ElementOfSeq
  <2> QED
    BY <1>2, <2>2
<1> QED
  BY <1>2, <1>3, LimitsAssumption, FloatAssumption, ValueAssumption, BoundsAssumption DEF Bucket

\* The window after one observation more.
LEMMA SlidWindow ==
  ASSUME NEW recent \in Seq(Int), NEW v \in Int, Len(recent) <= MaxSamples
  PROVE  /\ Slid(recent, v) \in Seq(Int)
         /\ Len(Slid(recent, v)) = IF Len(recent) < MaxSamples THEN Len(recent) + 1 ELSE MaxSamples
         /\ Slid(recent, v) # <<>>
         /\ Len(recent) < MaxSamples => Slid(recent, v) = Append(recent, v)
         /\ \A i \in 1 .. Len(Slid(recent, v)) :
              Slid(recent, v)[i] = v \/ \E j \in 1 .. Len(recent) : Slid(recent, v)[i] = recent[j]
         /\ \A bound \in Int : AtMost(Slid(recent, v), bound) <=
                                 AtMost(recent, bound) + IF v <= bound THEN 1 ELSE 0
<1>1. MaxSamples \in Nat \ {0}
  BY Constants
<1>2. PICK kept : kept = IF Len(recent) < MaxSamples THEN recent ELSE Tail(recent)
  OBVIOUS
<1>3. Slid(recent, v) = Append(kept, v)
  BY <1>2 DEF Slid
<1>4. Len(recent) \in Nat /\ (~(Len(recent) < MaxSamples) => recent # <<>>)
  BY <1>1
<1>5. /\ kept \in Seq(Int)
      /\ Len(kept) = IF Len(recent) < MaxSamples THEN Len(recent) ELSE MaxSamples - 1
      /\ \A i \in 1 .. Len(kept) : \E j \in 1 .. Len(recent) : kept[i] = recent[j]
  <2>1. CASE Len(recent) < MaxSamples
    BY <1>2, <2>1
  <2>2. CASE ~(Len(recent) < MaxSamples)
    <3>1. kept = Tail(recent) /\ recent # <<>>
      BY <1>2, <1>4, <2>2
    <3>2. kept \in Seq(Int) /\ Len(kept) = Len(recent) - 1 /\ \A i \in 1 .. Len(kept) : kept[i] = recent[i + 1]
      BY <3>1
    <3>3. \A i \in 1 .. Len(kept) : i + 1 \in 1 .. Len(recent)
      BY <3>2
    <3>4. Len(recent) = MaxSamples
      BY <1>1, <1>4, <2>2
    <3> QED
      BY <2>2, <3>2, <3>3, <3>4
  <2> QED
    BY <2>1, <2>2
<1>6. ASSUME NEW bound \in Int
      PROVE  AtMost(kept, bound) <= AtMost(recent, bound)
  <2>1. AtMost(recent, bound) \in Nat
    BY AtMostNat
  <2>2. CASE Len(recent) < MaxSamples
    BY <1>2, <2>1, <2>2
  <2>3. CASE ~(Len(recent) < MaxSamples)
    BY <1>2, <1>4, <2>3, AtMostTail
  <2> QED
    BY <2>2, <2>3
<1>7. ASSUME NEW bound \in Int
      PROVE  AtMost(Append(kept, v), bound) <= AtMost(recent, bound) + IF v <= bound THEN 1 ELSE 0
  <2> kept \in Seq(Int)
    BY <1>5
  <2>1. AtMost(recent, bound) \in Nat /\ AtMost(kept, bound) \in Nat
    BY AtMostNat
  <2>2. AtMost(Append(kept, v), bound) = AtMost(kept, bound) + IF v <= bound THEN 1 ELSE 0
    BY AtMostAppend
  <2> QED
    BY <1>6, <2>1, <2>2
<1>8. /\ Append(kept, v) \in Seq(Int) /\ Len(Append(kept, v)) = Len(kept) + 1
      /\ Append(kept, v)[Len(kept) + 1] = v
      /\ \A i \in 1 .. Len(kept) : Append(kept, v)[i] = kept[i]
      /\ Append(kept, v) # <<>>
  <2>1. kept \in Seq(Int)
    BY <1>5
  <2> QED
    BY <2>1, AppendProperties
<1>10. \A i \in 1 .. Len(kept) + 1 : i = Len(kept) + 1 \/ i \in 1 .. Len(kept)
  BY <1>5
<1>11. \A i \in 1 .. Len(Append(kept, v)) :
         Append(kept, v)[i] = v \/ \E j \in 1 .. Len(recent) : Append(kept, v)[i] = recent[j]
  BY <1>5, <1>8, <1>10
<1>12. Len(Append(kept, v)) = IF Len(recent) < MaxSamples THEN Len(recent) + 1 ELSE MaxSamples
  BY <1>1, <1>4, <1>5, <1>8
<1>13. Len(recent) < MaxSamples => Append(kept, v) = Append(recent, v)
  BY <1>2
<1> QED
  BY <1>3, <1>7, <1>8, <1>11, <1>12, <1>13

\* What the validator demands of a series apart from its sums and the greatest
\* count it accepts.
Consistent(s) ==
  /\ s.count \in Nat \ {0}
  /\ {s.total, s.minimum, s.maximum} \subseteq Finite
  /\ s.minimum <= s.maximum
  /\ \A b \in Bucket : s.buckets[b] <= s.count
  /\ \A b, c \in Bucket : b < c => s.buckets[b] <= s.buckets[c]
  /\ Len(s.recent) = IF s.count < MaxSamples THEN s.count ELSE MaxSamples
  /\ \A i \in DOMAIN s.recent : s.recent[i] \in s.minimum .. s.maximum
  /\ \A b \in Bucket :
       /\ AtMost(s.recent, Bounds[b]) <= s.buckets[b]
       /\ (Bounds[b] < s.minimum) = (s.buckets[b] = 0)
       /\ (Bounds[b] >= s.maximum) = (s.buckets[b] = s.count)
  /\ s.count = Len(s.recent) =>
       /\ s.minimum \in Range(s.recent) /\ s.maximum \in Range(s.recent)
       /\ \A b \in Bucket : s.buckets[b] = AtMost(s.recent, Bounds[b])

\* What it demands of the sums: the mean within the extremes, and the total of
\* a complete window.
SumsAgree(s) ==
  MeanWithin(s) /\ (s.count = Len(s.recent) => Close(Sum(s.recent), s.total))

LEMMA ValidParts ==
  \A s : Valid(s) <=> Consistent(s) /\ s.count <= MaxCount /\ SumsAgree(s)
<1> TAKE s
<1>1. s.count \in 1 .. MaxCount <=> s.count \in Nat \ {0} /\ s.count <= MaxCount
  BY Constants
<1> QED
  BY <1>1, Zenon DEF Valid, Plausible, Exact, Consistent, SumsAgree

\* The fields of a series after one observation more.
LEMMA ObservedFields ==
  ASSUME NEW s \in SeriesType, NEW v \in Int, Rounded(s.total + v) \in Finite,
         Len(s.recent) <= MaxSamples
  PROVE  LET t == Observed(s, v) IN
         /\ t \in SeriesType
         /\ t.count = s.count + 1
         /\ t.total = Rounded(s.total + v)
         /\ t.minimum = IF s.count = 0 \/ v < s.minimum THEN v ELSE s.minimum
         /\ t.maximum = IF s.count = 0 \/ v > s.maximum THEN v ELSE s.maximum
         /\ \A b \in Bucket : t.buckets[b] = s.buckets[b] + IF v <= Bounds[b] THEN 1 ELSE 0
         /\ t.recent = Slid(s.recent, v)
<1>1. PICK t : t = Observed(s, v)
  OBVIOUS
<1>2. /\ s.count \in Nat /\ s.minimum \in Int /\ s.maximum \in Int
      /\ s.buckets \in [Bucket -> Nat] /\ s.recent \in Seq(Int)
  BY DEF SeriesType
<1>3. Slid(s.recent, v) \in Seq(Int)
  BY <1>2, SlidWindow
<1>4. Rounded(s.total + v) \in Int
  BY Constants
<1> DEFINE buckets == [b \in Bucket |-> s.buckets[b] + IF InBucket(v, b) THEN 1 ELSE 0]
<1>5. buckets \in [Bucket -> Nat]
  BY <1>2
<1>6. \A b \in Bucket : buckets[b] = s.buckets[b] + IF v <= Bounds[b] THEN 1 ELSE 0
  BY DEF InBucket
<1> DEFINE recent == Slid(s.recent, v)
           total == Rounded(s.total + v)
           minimum == IF s.count = 0 \/ v < s.minimum THEN v ELSE s.minimum
           maximum == IF s.count = 0 \/ v > s.maximum THEN v ELSE s.maximum
<1>7. t = [count |-> s.count + 1, total |-> total, minimum |-> minimum, maximum |-> maximum,
           buckets |-> buckets, recent |-> recent]
  BY <1>1 DEF Observed
<1>8. s.count + 1 \in Nat /\ minimum \in Int /\ maximum \in Int /\ total \in Int /\ recent \in Seq(Int)
  BY <1>2, <1>3, <1>4
<1> HIDE DEF buckets, recent, total, minimum, maximum
<1>9. /\ t.count = s.count + 1 /\ t.total = total /\ t.minimum = minimum /\ t.maximum = maximum
      /\ t.buckets = buckets /\ t.recent = recent
  BY <1>7
<1>10. t \in SeriesType
  BY <1>5, <1>7, <1>8 DEF SeriesType
<1> QED
  BY <1>1, <1>6, <1>9, <1>10 DEF recent, total, minimum, maximum

\* Observing keeps all of it.
LEMMA ObservedConsistent ==
  ASSUME NEW s \in SeriesType, Consistent(s),
         NEW v \in Value, Rounded(s.total + v) \in Finite
  PROVE  Observed(s, v) \in SeriesType /\ Consistent(Observed(s, v))
<1>1. v \in Int /\ v \in Finite /\ MaxSamples \in Nat \ {0} /\ MaxCount \in Nat
  BY Constants
<1>2. PICK n, lo, hi, tally, window :
        /\ n = s.count /\ lo = s.minimum /\ hi = s.maximum /\ tally = s.buckets /\ window = s.recent
        /\ n \in Nat /\ lo \in Int /\ hi \in Int /\ tally \in [Bucket -> Nat] /\ window \in Seq(Int)
  BY DEF SeriesType
<1>3. /\ n \in Nat \ {0}
      /\ lo \in Finite /\ hi \in Finite /\ lo <= hi
      /\ Len(window) = IF n < MaxSamples THEN n ELSE MaxSamples
  BY <1>2 DEF Consistent
<1>4. ASSUME NEW b \in Bucket
      PROVE  /\ tally[b] \in Nat /\ tally[b] <= n /\ AtMost(window, Bounds[b]) <= tally[b]
             /\ Bounds[b] < lo <=> tally[b] = 0
             /\ Bounds[b] >= hi <=> tally[b] = n
             /\ n = Len(window) => tally[b] = AtMost(window, Bounds[b])
  BY <1>2 DEF Consistent
<1>5. \A b, c \in Bucket : b < c => tally[b] <= tally[c]
  BY <1>2 DEF Consistent
<1>6. \A i \in 1 .. Len(window) : window[i] \in lo .. hi
  BY <1>2 DEF Consistent
<1>7. n = Len(window) => lo \in Range(window) /\ hi \in Range(window)
  BY <1>2 DEF Consistent
<1>8. Len(window) <= MaxSamples
  BY <1>1, <1>3
<1>9. PICK t : t = Observed(s, v)
  OBVIOUS
<1>10. /\ t \in SeriesType /\ t.count = n + 1 /\ t.total \in Finite
       /\ t.minimum = (IF v < lo THEN v ELSE lo)
       /\ t.maximum = (IF v > hi THEN v ELSE hi)
       /\ \A b \in Bucket : t.buckets[b] = tally[b] + IF v <= Bounds[b] THEN 1 ELSE 0
       /\ t.recent = Slid(window, v)
  <2>1. Len(s.recent) <= MaxSamples /\ s.count # 0
    BY <1>2, <1>3, <1>8
  <2> QED
    BY <2>1, <1>1, <1>2, <1>9, ObservedFields
<1>11. PICK slid : slid = Slid(window, v)
  OBVIOUS
<1>12. /\ slid \in Seq(Int)
       /\ Len(slid) = IF Len(window) < MaxSamples THEN Len(window) + 1 ELSE MaxSamples
       /\ Len(window) < MaxSamples => slid = Append(window, v)
       /\ \A i \in 1 .. Len(slid) : slid[i] = v \/ \E j \in 1 .. Len(window) : slid[i] = window[j]
       /\ \A bound \in Int : AtMost(slid, bound) <= AtMost(window, bound) + IF v <= bound THEN 1 ELSE 0
  <2>1. window \in Seq(Int) /\ v \in Int
    BY <1>1, <1>2
  <2> QED
    BY <2>1, <1>8, <1>11, SlidWindow
<1>13. PICK low, high : low = t.minimum /\ high = t.maximum
  OBVIOUS
<1>14. /\ low \in Int /\ high \in Int /\ low \in Finite /\ high \in Finite /\ low <= high
       /\ low <= lo /\ low <= v /\ hi <= high /\ v <= high
       /\ (low = v \/ low = lo) /\ (high = v \/ high = hi)
  BY <1>1, <1>2, <1>3, <1>10, <1>13
<1>15. t.count \in Nat \ {0}
  BY <1>1, <1>2, <1>3, <1>10
<1>16. Len(slid) = IF t.count < MaxSamples THEN t.count ELSE MaxSamples
  BY <1>1, <1>2, <1>3, <1>10, <1>12
<1>17. ASSUME NEW i \in DOMAIN slid
       PROVE  slid[i] \in low .. high
  <2>1. slid[i] = v \/ \E j \in 1 .. Len(window) : slid[i] = window[j]
    BY <1>12
  <2>2. CASE slid[i] = v
    BY <1>1, <1>14, <2>2
  <2>3. ASSUME NEW j \in 1 .. Len(window), slid[i] = window[j]
        PROVE  slid[i] \in low .. high
    <3>1. window[j] \in lo .. hi
      BY <1>6
    <3> QED
      BY <1>2, <1>14, <2>3, <3>1
  <2> QED
    BY <2>1, <2>2, <2>3
<1>18. ASSUME NEW b \in Bucket
       PROVE  /\ t.buckets[b] <= t.count
              /\ AtMost(slid, Bounds[b]) <= t.buckets[b]
              /\ (Bounds[b] < low) = (t.buckets[b] = 0)
              /\ (Bounds[b] >= high) = (t.buckets[b] = t.count)
  <2>1. Bounds[b] \in Int
    BY Constants
  <2>2. t.buckets[b] = tally[b] + IF v <= Bounds[b] THEN 1 ELSE 0
    BY <1>10
  <2>3. AtMost(slid, Bounds[b]) <= AtMost(window, Bounds[b]) + IF v <= Bounds[b] THEN 1 ELSE 0
    BY <1>12, <2>1
  <2>4. AtMost(slid, Bounds[b]) \in Nat /\ AtMost(window, Bounds[b]) \in Nat
    BY <1>2, <1>12, <2>1, AtMostNat
  <2>5. t.count = n + 1
    BY <1>10
  <2>6. t.buckets[b] <= t.count
    BY <1>2, <1>4, <2>2, <2>5
  <2>7. AtMost(slid, Bounds[b]) <= t.buckets[b]
    BY <1>4, <2>2, <2>3, <2>4
  <2>8. Bounds[b] < low <=> t.buckets[b] = 0
    <3>1. tally[b] \in Nat /\ (Bounds[b] < lo <=> tally[b] = 0)
      BY <1>4
    <3>2. v \in Int /\ lo \in Int /\ low \in Int /\ low <= lo /\ low <= v /\ (low = v \/ low = lo)
      BY <1>1, <1>2, <1>14
    <3> QED
      BY <3>1, <3>2, <2>1, <2>2
  <2>9. Bounds[b] >= high <=> t.buckets[b] = t.count
    <3>1. tally[b] \in Nat /\ tally[b] <= n /\ (Bounds[b] >= hi <=> tally[b] = n) /\ n \in Nat
      BY <1>2, <1>4
    <3>2. v \in Int /\ hi \in Int /\ high \in Int /\ hi <= high /\ v <= high /\ (high = v \/ high = hi)
      BY <1>1, <1>2, <1>14
    <3> QED
      BY <3>1, <3>2, <2>1, <2>2, <2>5
  <2> QED
    BY <2>6, <2>7, <2>8, <2>9
<1>19. ASSUME NEW b \in Bucket, NEW c \in Bucket, b < c
       PROVE  t.buckets[b] <= t.buckets[c]
  <2>1. Bounds[b] \in Int /\ Bounds[c] \in Int /\ Bounds[b] < Bounds[c]
    BY <1>19, Constants
  <2>2. tally[b] \in Nat /\ tally[c] \in Nat /\ tally[b] <= tally[c]
    BY <1>4, <1>5, <1>19
  <2>3. /\ t.buckets[b] = tally[b] + (IF v <= Bounds[b] THEN 1 ELSE 0)
        /\ t.buckets[c] = tally[c] + (IF v <= Bounds[c] THEN 1 ELSE 0)
    BY <1>10
  <2> QED
    BY <1>1, <2>1, <2>2, <2>3
<1>20. ASSUME t.count = Len(slid)
       PROVE  /\ low \in Range(slid) /\ high \in Range(slid)
              /\ \A b \in Bucket : t.buckets[b] = AtMost(slid, Bounds[b])
  <2>1. n = Len(window) /\ Len(window) < MaxSamples
    BY <1>1, <1>2, <1>3, <1>10, <1>12, <1>20
  <2>2. slid = Append(window, v)
    BY <1>12, <2>1
  <2>3. v \in Range(slid) /\ \A x \in Range(window) : x \in Range(slid)
    <3>1. /\ DOMAIN window = 1 .. Len(window) /\ DOMAIN slid = 1 .. Len(window) + 1 /\ Len(window) \in Nat
          /\ slid[Len(window) + 1] = v /\ \A i \in 1 .. Len(window) : slid[i] = window[i]
      BY <1>1, <1>2, <2>2
    <3>2. Len(window) + 1 \in DOMAIN slid /\ \A i \in DOMAIN window : i \in DOMAIN slid /\ slid[i] = window[i]
      BY <3>1
    <3> QED
      BY <3>1, <3>2 DEF Range
  <2>4. low \in Range(slid) /\ high \in Range(slid)
    BY <1>7, <1>14, <2>1, <2>3
  <2>5. ASSUME NEW b \in Bucket
        PROVE  t.buckets[b] = AtMost(slid, Bounds[b])
    <3>1. Bounds[b] \in Int
      BY Constants
    <3>2. AtMost(slid, Bounds[b]) = AtMost(window, Bounds[b]) + IF v <= Bounds[b] THEN 1 ELSE 0
      BY <1>1, <1>2, <2>2, <3>1, AtMostAppend
    <3> QED
      BY <1>4, <1>10, <2>1, <3>2
  <2> QED
    BY <2>4, <2>5
<1>21. {t.total, t.minimum, t.maximum} \subseteq Finite /\ t.minimum <= t.maximum
  BY <1>10, <1>13, <1>14
<1>22. t.recent = slid
  BY <1>10, <1>11
<1>23. Consistent(t)
  BY <1>13, <1>15, <1>16, <1>17, <1>18, <1>19, <1>20, <1>21, <1>22 DEF Consistent
<1> QED
  BY <1>9, <1>10, <1>23

\* The first observation of a label set.
LEMMA FirstFields ==
  ASSUME NEW v \in Value, Rounded(NewSeries.total + v) \in Finite
  PROVE  LET t == Observed(NewSeries, v) IN
         /\ t \in SeriesType
         /\ t.count = 1 /\ t.total = Rounded(v) /\ t.minimum = v /\ t.maximum = v
         /\ \A b \in Bucket : t.buckets[b] = IF v <= Bounds[b] THEN 1 ELSE 0
         /\ t.recent = <<v>>
         /\ NewSeries.total + v = v
<1>1. PICK t : t = Observed(NewSeries, v)
  OBVIOUS
<1>2. v \in Int /\ MaxSamples \in Nat \ {0} /\ Finite \subseteq Int
  BY Constants
<1>3. /\ NewSeries.count = 0 /\ NewSeries.total = 0 /\ NewSeries.recent = <<>>
      /\ NewSeries.buckets = [b \in Bucket |-> 0]
  BY DEF NewSeries
<1>4. NewSeries.total + v = v
  BY <1>2, <1>3
<1>5. Slid(<<>>, v) = <<v>>
  BY <1>2 DEF Slid
<1> DEFINE buckets == [b \in Bucket |-> NewSeries.buckets[b] + IF InBucket(v, b) THEN 1 ELSE 0]
<1>6. /\ buckets \in [Bucket -> Nat]
      /\ \A b \in Bucket : buckets[b] = IF v <= Bounds[b] THEN 1 ELSE 0
  BY <1>3 DEF InBucket
<1> HIDE DEF buckets
<1>7. t = [count |-> NewSeries.count + 1, total |-> Rounded(NewSeries.total + v),
           minimum |-> IF NewSeries.count = 0 \/ v < NewSeries.minimum THEN v ELSE NewSeries.minimum,
           maximum |-> IF NewSeries.count = 0 \/ v > NewSeries.maximum THEN v ELSE NewSeries.maximum,
           buckets |-> buckets, recent |-> Slid(NewSeries.recent, v)]
  BY <1>1 DEF Observed, buckets
<1>8. t = [count |-> 1, total |-> Rounded(v), minimum |-> v, maximum |-> v,
           buckets |-> buckets, recent |-> <<v>>]
  BY <1>3, <1>4, <1>5, <1>7
<1>9. Rounded(v) \in Int /\ <<v>> \in Seq(Int)
  BY <1>2, RoundedFloat
<1>10. t \in SeriesType
  BY <1>2, <1>6, <1>8, <1>9 DEF SeriesType
<1> QED
  BY <1>1, <1>4, <1>6, <1>8, <1>10

LEMMA FirstConsistent ==
  ASSUME NEW v \in Value, Rounded(NewSeries.total + v) \in Finite
  PROVE  Observed(NewSeries, v) \in SeriesType /\ Consistent(Observed(NewSeries, v))
<1>1. PICK t : t = Observed(NewSeries, v)
  OBVIOUS
<1>2. /\ v \in Int /\ v \in Finite /\ Finite \subseteq Int
      /\ MaxSamples \in Nat \ {0} /\ MaxCount \in Nat \ {0}
  BY Constants
<1>3. /\ t \in SeriesType
      /\ t.count = 1 /\ t.total = Rounded(v) /\ t.minimum = v /\ t.maximum = v
      /\ \A b \in Bucket : t.buckets[b] = IF v <= Bounds[b] THEN 1 ELSE 0
      /\ t.recent = <<v>> /\ NewSeries.total + v = v
  BY <1>1, FirstFields
<1>4. PICK window : window = t.recent
  OBVIOUS
<1>5. /\ window \in Seq(Int) /\ Len(window) = 1 /\ DOMAIN window = 1 .. 1 /\ window[1] = v
  BY <1>2, <1>3, <1>4
<1>6. ASSUME NEW b \in Bucket
      PROVE  t.buckets[b] = AtMost(window, Bounds[b]) /\ AtMost(window, Bounds[b]) \in Nat
  <2>1. Bounds[b] \in Int
    BY Constants
  <2>2. AtMost(window, Bounds[b]) \in Nat /\ AtMost(window, Bounds[b]) <= 1
    BY <1>5, <2>1, AtMostNat
  <2>3. AtMost(window, Bounds[b]) = 0 <=> \A i \in 1 .. 1 : window[i] > Bounds[b]
    BY <1>5, <2>1, AtMostExtremes
  <2>4. AtMost(window, Bounds[b]) = 0 <=> v > Bounds[b]
    BY <1>5, <2>3
  <2> QED
    BY <1>2, <1>3, <2>1, <2>2, <2>4
<1>7. ASSUME NEW b \in Bucket
      PROVE  /\ t.buckets[b] <= t.count
             /\ AtMost(window, Bounds[b]) <= t.buckets[b]
             /\ (Bounds[b] < t.minimum) = (t.buckets[b] = 0)
             /\ (Bounds[b] >= t.maximum) = (t.buckets[b] = t.count)
  <2>1. Bounds[b] \in Int
    BY Constants
  <2>2. t.buckets[b] = (IF v <= Bounds[b] THEN 1 ELSE 0)
    BY <1>3
  <2>3. /\ t.buckets[b] <= t.count
        /\ Bounds[b] < v <=> t.buckets[b] = 0
        /\ Bounds[b] >= v <=> t.buckets[b] = 1
    BY <1>2, <1>3, <2>1, <2>2
  <2>4. AtMost(window, Bounds[b]) <= t.buckets[b]
    BY <1>6
  <2> QED
    BY <1>3, <2>3, <2>4
<1>8. ASSUME NEW b \in Bucket, NEW c \in Bucket, b < c
      PROVE  t.buckets[b] <= t.buckets[c]
  <2>1. Bounds[b] \in Int /\ Bounds[c] \in Int /\ Bounds[b] < Bounds[c]
    BY <1>8, Constants
  <2> QED
    BY <1>2, <1>3, <2>1
<1>9. v \in Range(window) /\ \A i \in DOMAIN window : window[i] \in v .. v
  BY <1>2, <1>5 DEF Range
<1>10. Rounded(v) \in Finite
  BY <1>3
<1>11. Len(window) = IF t.count < MaxSamples THEN t.count ELSE MaxSamples
  BY <1>2, <1>3, <1>5
<1>12. t.count \in Nat \ {0} /\ {t.total, t.minimum, t.maximum} \subseteq Finite /\ t.minimum <= t.maximum
  BY <1>2, <1>3, <1>10
<1>13. \A i \in DOMAIN window : window[i] \in t.minimum .. t.maximum
  BY <1>3, <1>9
<1>14. t.minimum \in Range(window) /\ t.maximum \in Range(window)
  BY <1>3, <1>9
<1>15. Consistent(t)
  BY <1>4, <1>6, <1>7, <1>8, <1>11, <1>12, <1>13, <1>14 DEF Consistent
<1> QED
  BY <1>1, <1>3, <1>15

-----------------------------------------------------------------------------
(***************************************************************************)
(* The inductive invariant.                                                *)
(***************************************************************************)
HeldIn(table) == {k \in Key : table[k] # NoSeries}

Table == [Key -> SeriesType \cup {NoSeries}]

\* What can be said of the series in memory and of those in a checkpoint.
Sound(table) ==
  /\ table \in Table
  /\ IsFiniteSet(HeldIn(table)) /\ Cardinality(HeldIn(table)) <= MaxSeries
  /\ \A k \in HeldIn(table) : Consistent(table[k])

IInv ==
  /\ Sound(series)
  /\ saved # NoCheckpoint => Sound(saved)
  /\ seen \in [Key -> Seq(Value)] /\ savedSeen \in [Key -> Seq(Value)]
  /\ own \in BOOLEAN /\ refused \in BOOLEAN

LEMMA HeldIsSeries ==
  ASSUME NEW table \in Table, NEW k \in HeldIn(table)
  PROVE  table[k] \in SeriesType
BY DEF HeldIn, Table

LEMMA Initially == Init => IInv
<1> SUFFICES ASSUME Init PROVE IInv
  OBVIOUS
<1>1. series = [k \in Key |-> NoSeries] /\ HeldIn(series) = {} /\ series \in Table
  BY DEF Init, HeldIn, Table
<1>2. IsFiniteSet({}) /\ Cardinality({}) = 0 /\ 0 <= MaxSeries
  BY FS_EmptySet, Constants
<1>3. Sound(series)
  BY <1>1, <1>2 DEF Sound
<1>4. [k \in Key |-> <<>>] \in [Key -> Seq(Value)]
  BY EmptySeq
<1> QED
  BY <1>3, <1>4 DEF Init, IInv

\* What observing does to the series of k and to those of the others.
LEMMA ObserveTable ==
  ASSUME Sound(series), NEW k \in Key, NEW v \in Value, Observe(k, v)
  PROVE  /\ series'[k] = Observed(Current(k), v)
         /\ \/ series[k] = NoSeries /\ Current(k) = NewSeries
            \/ /\ series[k] # NoSeries /\ Current(k) = series[k]
               /\ Current(k) \in SeriesType /\ Consistent(Current(k))
         /\ series'[k] \in SeriesType /\ Consistent(series'[k]) /\ series'[k] # NoSeries
         /\ Rounded(Current(k).total + v) \in Finite
         /\ \A j \in Key : j # k => series'[j] = series[j]
         /\ series' \in Table
<1>1. /\ series \in Table /\ series' = [series EXCEPT ![k] = Observed(Current(k), v)]
      /\ Rounded(Current(k).total + v) \in Finite
  BY DEF Sound, Observe, Accepted
<1>2. series'[k] = Observed(Current(k), v) /\ \A j \in Key : j # k => series'[j] = series[j]
  BY <1>1 DEF Table
<1>3. \/ series[k] = NoSeries /\ Current(k) = NewSeries
      \/ /\ series[k] # NoSeries /\ Current(k) = series[k]
         /\ Current(k) \in SeriesType /\ Consistent(Current(k))
  <2>1. CASE series[k] = NoSeries
    BY <2>1 DEF Current, Held
  <2>2. CASE series[k] # NoSeries
    <3>1. k \in HeldIn(series) /\ Current(k) = series[k]
      BY <2>2 DEF HeldIn, Current, Held
    <3> QED
      BY <1>1, <2>2, <3>1, HeldIsSeries DEF Sound
  <2> QED
    BY <2>1, <2>2
<1>4. Observed(Current(k), v) \in SeriesType /\ Consistent(Observed(Current(k), v))
  <2>1. CASE Current(k) = NewSeries
    BY <1>1, <2>1, FirstConsistent
  <2>2. CASE Current(k) \in SeriesType /\ Consistent(Current(k))
    BY <1>1, <2>2, ObservedConsistent
  <2> QED
    BY <1>3, <2>1, <2>2
<1>5. series'[k] # NoSeries
  <2>1. series'[k].count # 0
    BY <1>2, <1>4 DEF Consistent
  <2>2. NoSeries.count = 0
    BY DEF NoSeries
  <2> QED
    BY <2>1, <2>2
<1>6. series' \in Table
  BY <1>1, <1>4 DEF Table
<1> QED
  BY <1>1, <1>2, <1>3, <1>4, <1>5, <1>6

LEMMA Inductive == IInv /\ [Next]_vars => IInv'
<1> SUFFICES ASSUME IInv, [Next]_vars PROVE IInv'
  OBVIOUS
<1>1. ASSUME NEW k \in Key, NEW v \in Value, Observe(k, v)
      PROVE  IInv'
  <2>1. /\ HasRoom(k) /\ UNCHANGED <<saved, savedSeen, own, refused>>
        /\ seen' = [seen EXCEPT ![k] = Append(seen[k], v)]
    BY <1>1 DEF Observe, Accepted, disk
  <2>2. /\ series'[k] # NoSeries /\ Consistent(series'[k])
        /\ \A j \in Key : j # k => series'[j] = series[j]
        /\ series' \in Table
    BY <1>1, ObserveTable DEF IInv
  <2>3. HeldIn(series') = HeldIn(series) \cup {k}
    BY <2>2 DEF HeldIn
  <2>4. /\ IsFiniteSet(HeldIn(series)) /\ Cardinality(HeldIn(series)) \in Nat
        /\ Cardinality(HeldIn(series)) <= MaxSeries
        /\ \A j \in HeldIn(series) : Consistent(series[j])
    BY FS_CardinalityType DEF IInv, Sound
  <2>5. k \in HeldIn(series) \/ Cardinality(HeldIn(series)) < MaxSeries
    BY <2>1 DEF HasRoom, Held, HeldIn
  <2>6. /\ IsFiniteSet(HeldIn(series) \cup {k})
        /\ Cardinality(HeldIn(series) \cup {k}) =
             IF k \in HeldIn(series) THEN Cardinality(HeldIn(series)) ELSE Cardinality(HeldIn(series)) + 1
    BY <2>4, FS_AddElement
  <2>7. IsFiniteSet(HeldIn(series')) /\ Cardinality(HeldIn(series')) <= MaxSeries
    BY <2>3, <2>4, <2>5, <2>6, Constants
  <2>8. \A j \in HeldIn(series') : Consistent(series'[j])
    <3> TAKE j \in HeldIn(series')
    <3>1. CASE j = k
      BY <3>1, <2>2
    <3>2. CASE j # k
      <4>1. j \in Key /\ j \in HeldIn(series)
        BY <2>3, <3>2 DEF HeldIn
      <4> QED
        BY <2>2, <2>4, <3>2, <4>1
    <3> QED
      BY <3>1, <3>2
  <2>9. Sound(series)'
    BY <2>2, <2>7, <2>8 DEF Sound
  <2>10. seen' \in [Key -> Seq(Value)]
    <3>1. seen \in [Key -> Seq(Value)]
      BY DEF IInv
    <3>2. Append(seen[k], v) \in Seq(Value)
      BY <3>1, AppendProperties
    <3> QED
      BY <2>1, <3>1, <3>2
  <2> QED
    BY <2>1, <2>9, <2>10 DEF IInv, Sound
<1>2. CASE Save
  BY <1>2 DEF Save, memory, IInv, Sound
<1>3. CASE Load
  <2>1. /\ saved # NoCheckpoint /\ Sound(saved) /\ UNCHANGED <<saved, savedSeen, own>>
        /\ \/ series' = saved /\ seen' = savedSeen /\ refused' = refused
           \/ refused' = TRUE /\ UNCHANGED <<series, seen>>
    BY <1>3 DEF Load, IInv, memory, disk
  <2> QED
    BY <2>1 DEF IInv, Sound
<1>4. ASSUME NEW k \in Key, LoadForeign(k)
      PROVE  IInv'
  <2>1. PICK s \in Foreign : Valid(s) /\ series' = [series EXCEPT ![k] = s]
    BY <1>4 DEF LoadForeign
  <2>2. /\ HeldIn(series) = {} /\ saved = NoCheckpoint /\ own' = FALSE
        /\ UNCHANGED <<seen, saved, savedSeen, refused>>
    BY <1>4 DEF LoadForeign, Held, HeldIn, disk
  <2>3. s \in SeriesType /\ Consistent(s)
    BY <2>1, ValidParts, ForeignAssumption
  <2>4. series \in Table
    BY DEF IInv, Sound
  <2>5. series' \in Table /\ series'[k] = s /\ \A j \in Key : j # k => series'[j] = NoSeries
    BY <2>1, <2>2, <2>3, <2>4 DEF Table, HeldIn
  <2>6. HeldIn(series') \in SUBSET {k}
    BY <2>5 DEF HeldIn
  <2>7. IsFiniteSet({k}) /\ Cardinality({k}) = 1
    BY FS_Singleton
  <2>8. /\ IsFiniteSet(HeldIn(series')) /\ Cardinality(HeldIn(series')) <= 1
        /\ Cardinality(HeldIn(series')) \in Nat
    BY <2>6, <2>7, FS_Subset, FS_CardinalityType
  <2>9. Cardinality(HeldIn(series')) <= MaxSeries
    BY <2>8, Constants
  <2>10. \A j \in HeldIn(series') : Consistent(series'[j])
    BY <2>3, <2>5, <2>6
  <2>11. Sound(series)'
    BY <2>5, <2>8, <2>9, <2>10 DEF Sound
  <2> QED
    BY <2>2, <2>11 DEF IInv, Sound
<1>5. CASE UNCHANGED vars \/ \E k \in Key, v \in Value : ObserveRefused(k, v)
  BY <1>5 DEF ObserveRefused, vars, memory, disk, IInv, Sound
<1> QED
  BY <1>1, <1>2, <1>3, <1>4, <1>5 DEF Next

LEMMA Invariance == Spec => []IInv
<1> QED
  BY Initially, Inductive, PTL DEF Spec

\* Every variable has its type, and max_series bounds the series in memory,
\* also after a restart.
THEOREM TypeCorrect == Spec => []TypeOK
<1>1. IInv => TypeOK
  <2> SUFFICES ASSUME IInv PROVE TypeOK
    OBVIOUS
  <2>1. series \in Table /\ Cardinality(Held) <= MaxSeries
    BY DEF IInv, Sound, Held, HeldIn
  <2>2. saved \in Table \cup {NoCheckpoint}
    BY DEF IInv, Sound
  <2> QED
    BY <2>1, <2>2 DEF IInv, TypeOK, Table
<1> QED
  BY <1>1, Invariance, PTL

\* What the validator of _restore_checkpoint_series checks apart from the mean,
\* the sum of the window and the greatest count holds of every series at any
\* time, whatever its observations and however they are rounded: counts,
\* extremes, cumulative buckets and the window agree with each other.
HeldConsistent == \A k \in Held : Consistent(series[k])

THEOREM SeriesConsistent == Spec => []HeldConsistent
<1>1. IInv => HeldConsistent
  BY DEF IInv, Sound, Held, HeldIn, HeldConsistent
<1> QED
  BY <1>1, Invariance, PTL

\* So a restart that fails does so because of rounded sums or a great count: the
\* checkpoint has a series whose mean or whose window's sum the validator does
\* not accept, or one that has counted beyond what the validator accepts.
RefusedForSums ==
  [][~refused /\ refused' =>
       \E k \in Key : saved[k] # NoSeries /\ (~SumsAgree(saved[k]) \/ saved[k].count > MaxCount)]_vars

THEOREM RefusalsForSums == Spec => RefusedForSums
<1>1. ASSUME IInv, [Next]_vars, ~refused, refused'
      PROVE  \E k \in Key : saved[k] # NoSeries /\ (~SumsAgree(saved[k]) \/ saved[k].count > MaxCount)
  <2>1. Load
    BY <1>1 DEF Next, Observe, ObserveRefused, Save, LoadForeign, vars, disk, memory
  <2>2. saved # NoCheckpoint /\ ~ \A k \in Key : saved[k] # NoSeries => Valid(saved[k])
    BY <1>1, <2>1 DEF Load
  <2>3. PICK k \in Key : saved[k] # NoSeries /\ ~Valid(saved[k])
    BY <2>2
  <2>4. Consistent(saved[k])
    BY <1>1, <2>2, <2>3 DEF IInv, Sound, HeldIn
  <2>5. saved[k].count \in Nat
    BY <2>4 DEF Consistent
  <2> QED
    BY <2>3, <2>5, <2>4, ValidParts, Constants
<1>2. IInv /\ [Next]_vars =>
        [~refused /\ refused' => \E k \in Key : saved[k] # NoSeries /\ (~SumsAgree(saved[k]) \/ saved[k].count > MaxCount)]_vars
  BY <1>1
<1> QED
  BY <1>2, Invariance, PTL DEF Spec, RefusedForSums

-----------------------------------------------------------------------------
(***************************************************************************)
(* Aggregates.                                                             *)
(***************************************************************************)
\* The least and the greatest are what they are said to be.
LEMMA ExtremesOf ==
  ASSUME NEW S \in SUBSET Int, NEW m \in S
  PROVE  /\ (\A x \in S : m <= x) => Min(S) = m
         /\ (\A x \in S : x <= m) => Max(S) = m
<1>1. ASSUME \A x \in S : m <= x
      PROVE  Min(S) = m
  <2>1. \A x \in S : (\A y \in S : x <= y) => x = m
    BY <1>1
  <2>2. \E x \in S : \A y \in S : x <= y
    BY <1>1
  <2> QED
    BY <2>1, <2>2, Zenon DEF Min
<1>2. ASSUME \A x \in S : x <= m
      PROVE  Max(S) = m
  <2>1. \A x \in S : (\A y \in S : x >= y) => x = m
    BY <1>2
  <2>2. \E x \in S : \A y \in S : x >= y
    BY <1>2
  <2> QED
    BY <2>1, <2>2, Zenon DEF Max
<1> QED
  BY <1>1, <1>2

\* The last of values, as many as a window holds.
IsWindow(window, values) ==
  /\ window \in Seq(Int)
  /\ Len(window) = IF Len(values) < MaxSamples THEN Len(values) ELSE MaxSamples
  /\ \A i \in 1 .. Len(window) : window[i] = values[Len(values) - Len(window) + i]

\* s has the count, the extremes, the buckets and the window of values, and
\* their sum, rounded at every step.
Summarises(s, values) ==
  /\ s \in SeriesType
  /\ s.count = Len(values)
  /\ s.total = Accumulated(values, TRUE)
  /\ s.minimum \in Range(values) /\ \A x \in Range(values) : s.minimum <= x
  /\ s.maximum \in Range(values) /\ \A x \in Range(values) : x <= s.maximum
  /\ \A b \in Bucket : s.buckets[b] = AtMost(values, Bounds[b])
  /\ IsWindow(s.recent, values)

LEMMA RangeAppend ==
  ASSUME NEW values \in Seq(Int), NEW v \in Int
  PROVE  Range(Append(values, v)) = Range(values) \cup {v}
<1>1. /\ DOMAIN values = 1 .. Len(values) /\ DOMAIN Append(values, v) = 1 .. Len(values) + 1
      /\ Len(values) \in Nat /\ Append(values, v)[Len(values) + 1] = v
      /\ \A i \in 1 .. Len(values) : Append(values, v)[i] = values[i]
  OBVIOUS
<1>2. \A i : i \in 1 .. Len(values) + 1 <=> i \in 1 .. Len(values) \/ i = Len(values) + 1
  BY <1>1
<1> QED
  BY <1>1, <1>2 DEF Range

LEMMA WindowSlides ==
  ASSUME NEW values \in Seq(Int), NEW v \in Int, NEW window, IsWindow(window, values)
  PROVE  IsWindow(Slid(window, v), Append(values, v))
<1>1. PICK n, l, more : n = Len(values) /\ l = Len(window) /\ more = Append(values, v)
  OBVIOUS
<1>2. MaxSamples \in Nat \ {0} /\ n \in Nat
  BY <1>1, Constants
<1>3. /\ window \in Seq(Int) /\ l = (IF n < MaxSamples THEN n ELSE MaxSamples)
      /\ \A i \in 1 .. l : window[i] = values[n - l + i]
  BY <1>1 DEF IsWindow
<1>4. /\ Len(more) = n + 1 /\ more[n + 1] = v
      /\ \A i \in 1 .. n : more[i] = values[i]
  BY <1>1
<1>5. Slid(window, v) = Append(IF l < MaxSamples THEN window ELSE Tail(window), v)
  BY <1>1 DEF Slid
<1>6. CASE n < MaxSamples
  <2>1. Slid(window, v) = Append(window, v) /\ l = n
    BY <1>3, <1>5, <1>6
  <2>2. PICK slid : slid = Append(window, v)
    OBVIOUS
  <2>3. /\ slid \in Seq(Int) /\ Len(slid) = n + 1 /\ slid[n + 1] = v
        /\ \A i \in 1 .. n : slid[i] = window[i]
    <3>1. window \in Seq(Int) /\ Len(window) = n
      BY <1>1, <1>3, <2>1
    <3> QED
      BY <2>2, <3>1, AppendProperties
  <2>4. \A i \in 1 .. n : window[i] = values[i]
    BY <1>2, <1>3, <2>1
  <2>5. \A i \in 1 .. n + 1 : slid[i] = more[i]
    BY <1>2, <1>4, <2>3, <2>4
  <2>6. \A i \in 1 .. n + 1 : (n + 1) - (n + 1) + i = i
    BY <1>2
  <2>7. n + 1 = IF n + 1 < MaxSamples THEN n + 1 ELSE MaxSamples
    BY <1>2, <1>6
  <2> QED
    BY <1>1, <1>4, <2>1, <2>2, <2>3, <2>5, <2>6, <2>7 DEF IsWindow
<1>7. CASE ~(n < MaxSamples)
  <2>1. l = MaxSamples /\ l \in Nat \ {0} /\ l <= n /\ window # <<>>
    <3>1. l = MaxSamples /\ l \in Nat \ {0} /\ l <= n
      BY <1>2, <1>3, <1>7
    <3>2. Len(window) # 0
      BY <1>1, <3>1
    <3> QED
      BY <3>1, <3>2, EmptySeq
  <2>2. Slid(window, v) = Append(Tail(window), v)
    BY <1>5, <2>1, <1>2
  <2>3. PICK rest, slid : rest = Tail(window) /\ slid = Append(rest, v)
    OBVIOUS
  <2>4. rest \in Seq(Int) /\ Len(rest) = l - 1 /\ \A i \in 1 .. l - 1 : rest[i] = window[i + 1]
    <3>1. window \in Seq(Int) /\ window # <<>> /\ Len(window) = l
      BY <1>1, <1>3, <2>1
    <3>2. rest \in Seq(Int) /\ Len(rest) = Len(window) - 1
          /\ \A i \in 1 .. Len(window) - 1 : rest[i] = window[i + 1]
      BY <2>3, <3>1
    <3> QED
      BY <3>1, <3>2
  <2>5. slid \in Seq(Int) /\ Len(slid) = l /\ slid[l] = v /\ \A i \in 1 .. l - 1 : slid[i] = rest[i]
    <3>1. /\ slid \in Seq(Int) /\ Len(slid) = Len(rest) + 1 /\ slid[Len(rest) + 1] = v
          /\ \A i \in 1 .. Len(rest) : slid[i] = rest[i]
      BY <2>3, <2>4
    <3> QED
      BY <2>1, <2>4, <3>1
  <2>6. ASSUME NEW i \in 1 .. l
        PROVE  slid[i] = more[(n + 1) - l + i]
    <3>1. CASE i = l
      <4>1. (n + 1) - l + i = n + 1
        BY <1>2, <2>1, <3>1
      <4> QED
        BY <1>4, <2>5, <3>1, <4>1
    <3>2. CASE i # l
      <4>1. i \in 1 .. l - 1 /\ i + 1 \in 1 .. l /\ n - l + (i + 1) = (n + 1) - l + i
            /\ (n + 1) - l + i \in 1 .. n
        BY <1>2, <2>1, <3>2
      <4>2. slid[i] = window[i + 1]
        BY <2>4, <2>5, <4>1
      <4>3. window[i + 1] = values[n - l + (i + 1)]
        BY <1>3, <4>1
      <4> QED
        BY <1>4, <4>1, <4>2, <4>3
    <3> QED
      BY <3>1, <3>2
  <2>7. l = IF n + 1 < MaxSamples THEN n + 1 ELSE MaxSamples
    BY <1>2, <1>7, <2>1
  <2> QED
    <3>1. slid = Slid(window, v)
      BY <2>2, <2>3
    <3>2. Len(slid) = l /\ Len(more) = n + 1 /\ slid \in Seq(Int)
      BY <1>4, <2>5
    <3>3. IsWindow(slid, more)
      BY <2>6, <2>7, <3>2, Zenon DEF IsWindow
    <3> QED
      BY <1>1, <3>1, <3>3
<1> QED
  BY <1>6, <1>7

LEMMA ObservedSummarises ==
  ASSUME NEW s, NEW values \in Seq(Int), values # <<>>, Summarises(s, values),
         NEW v \in Value, Rounded(s.total + v) \in Finite
  PROVE  Summarises(Observed(s, v), Append(values, v))
<1>1. PICK t, more : t = Observed(s, v) /\ more = Append(values, v)
  OBVIOUS
<1>2. v \in Int /\ MaxSamples \in Nat
  BY Constants
<1>3. s \in SeriesType /\ s.count = Len(values) /\ Len(values) \in Nat \ {0}
  BY DEF Summarises
<1>4. Len(s.recent) <= MaxSamples
  BY <1>2, <1>3 DEF Summarises, IsWindow
<1>5. /\ t \in SeriesType /\ t.count = s.count + 1 /\ t.total = Rounded(s.total + v)
      /\ t.minimum = (IF v < s.minimum THEN v ELSE s.minimum)
      /\ t.maximum = (IF v > s.maximum THEN v ELSE s.maximum)
      /\ \A b \in Bucket : t.buckets[b] = s.buckets[b] + IF v <= Bounds[b] THEN 1 ELSE 0
      /\ t.recent = Slid(s.recent, v)
  BY <1>1, <1>2, <1>3, <1>4, ObservedFields
<1>6. Len(more) = Len(values) + 1
  BY <1>1, <1>2
<1>7. t.total = Accumulated(more, TRUE)
  BY <1>1, <1>2, <1>5, AccumulatedAppend DEF Summarises
<1>8. Range(more) = Range(values) \cup {v}
  BY <1>1, <1>2, RangeAppend
<1>9. Range(values) \subseteq Int /\ s.minimum \in Int /\ s.maximum \in Int
  BY <1>3 DEF Range, SeriesType
<1>10. t.minimum \in Range(more) /\ \A x \in Range(more) : t.minimum <= x
  <2>1. s.minimum \in Range(values) /\ \A x \in Range(values) : s.minimum <= x
    BY DEF Summarises
  <2> QED
    BY <1>2, <1>5, <1>8, <1>9, <2>1
<1>11. t.maximum \in Range(more) /\ \A x \in Range(more) : x <= t.maximum
  <2>1. s.maximum \in Range(values) /\ \A x \in Range(values) : x <= s.maximum
    BY DEF Summarises
  <2> QED
    BY <1>2, <1>5, <1>8, <1>9, <2>1
<1>12. ASSUME NEW b \in Bucket
       PROVE  t.buckets[b] = AtMost(more, Bounds[b])
  <2>1. Bounds[b] \in Int
    BY Constants
  <2>2. s.buckets[b] = AtMost(values, Bounds[b])
    BY DEF Summarises
  <2>3. AtMost(more, Bounds[b]) = AtMost(values, Bounds[b]) + IF v <= Bounds[b] THEN 1 ELSE 0
    BY <1>1, <1>2, <2>1, AtMostAppend
  <2> QED
    BY <1>5, <2>2, <2>3
<1>13. IsWindow(t.recent, more)
  BY <1>1, <1>2, <1>5, WindowSlides DEF Summarises
<1>14. t.count = Len(more)
  BY <1>3, <1>5, <1>6
<1> QED
  BY <1>1, <1>5, <1>7, <1>10, <1>11, <1>12, <1>13, <1>14 DEF Summarises

LEMMA FirstSummarises ==
  ASSUME NEW v \in Value, Rounded(NewSeries.total + v) \in Finite
  PROVE  Summarises(Observed(NewSeries, v), <<v>>)
<1>1. PICK t : t = Observed(NewSeries, v)
  OBVIOUS
<1>2. v \in Int /\ MaxSamples \in Nat \ {0}
  BY Constants
<1>3. /\ t \in SeriesType
      /\ t.count = 1 /\ t.total = Rounded(v) /\ t.minimum = v /\ t.maximum = v
      /\ \A b \in Bucket : t.buckets[b] = IF v <= Bounds[b] THEN 1 ELSE 0
      /\ t.recent = <<v>>
  BY <1>1, FirstFields
<1>4. <<>> \in Seq(Int) /\ Append(<<>>, v) = <<v>> /\ <<v>> \in Seq(Int) /\ Len(<<v>>) = 1 /\ <<v>>[1] = v
  BY <1>2, EmptySeq
<1>5. Accumulated(<<v>>, TRUE) = Rounded(v)
  BY <1>2, AccumulatedOne
<1>6. Range(<<v>>) = {v}
  BY <1>4 DEF Range
<1>7. ASSUME NEW b \in Bucket
      PROVE  t.buckets[b] = AtMost(<<v>>, Bounds[b])
  <2>1. Bounds[b] \in Int
    BY Constants
  <2>2. AtMost(Append(<<>>, v), Bounds[b]) = AtMost(<<>>, Bounds[b]) + IF v <= Bounds[b] THEN 1 ELSE 0
    BY <1>2, <1>4, <2>1, AtMostAppend
  <2>3. AtMost(<<>>, Bounds[b]) = 0
    BY AtMostNone
  <2> QED
    BY <1>3, <1>4, <2>2, <2>3
<1>8. IsWindow(<<v>>, <<v>>)
  <2>1. 1 = IF 1 < MaxSamples THEN 1 ELSE MaxSamples
    BY <1>2
  <2>2. \A i \in 1 .. 1 : 1 - 1 + i = i
    OBVIOUS
  <2> QED
    BY <1>4, <2>1, <2>2 DEF IsWindow
<1>9. /\ t.count = Len(<<v>>) /\ t.total = Accumulated(<<v>>, TRUE)
      /\ t.minimum \in Range(<<v>>) /\ t.maximum \in Range(<<v>>)
  BY <1>3, <1>4, <1>5, <1>6
<1>10. \A x \in Range(<<v>>) : t.minimum <= x /\ x <= t.maximum
  BY <1>2, <1>3, <1>6
<1> QED
  BY <1>1, <1>3, <1>7, <1>8, <1>9, <1>10 DEF Summarises

LEMMA ObservedAreNumbers ==
  ASSUME NEW values \in Seq(Value)
  PROVE  values \in Seq(Int)
BY Constants, SeqMonotonic

LEMMA WindowIsLast ==
  ASSUME NEW values \in Seq(Int), values # <<>>, NEW window, IsWindow(window, values)
  PROVE  window = SubSeq(values, Max({1, Len(values) - MaxSamples + 1}), Len(values))
<1>1. PICK n, l, first : n = Len(values) /\ l = Len(window) /\ first = (n - l) + 1
  OBVIOUS
<1>2. MaxSamples \in Nat \ {0} /\ n \in Nat \ {0}
  BY <1>1, Constants
<1>3. window \in Seq(Int) /\ l = (IF n < MaxSamples THEN n ELSE MaxSamples)
  BY <1>1 DEF IsWindow
<1>4. l \in 1 .. n /\ first \in 1 .. n /\ (n - first) + 1 = l
  BY <1>1, <1>2, <1>3
<1>5. Max({1, n - MaxSamples + 1}) = first
  <2>1. PICK x : x = n - MaxSamples + 1
    OBVIOUS
  <2>2. x \in Int /\ first \in Int /\ (first = 1 \/ first = x) /\ 1 <= first /\ x <= first
    <3>1. first = (n - l) + 1 /\ l \in 1 .. n /\ l = (IF n < MaxSamples THEN n ELSE MaxSamples)
      BY <1>1, <1>3, <1>4
    <3>2. CASE n < MaxSamples
      BY <1>2, <2>1, <3>1, <3>2
    <3>3. CASE ~(n < MaxSamples)
      BY <1>2, <2>1, <3>1, <3>3
    <3> QED
      BY <3>2, <3>3
  <2>3. {1, x} \in SUBSET Int /\ first \in {1, x} /\ \A y \in {1, x} : y <= first
    BY <2>2
  <2>4. Max({1, x}) = first
    BY <2>3, ExtremesOf
  <2> QED
    BY <2>1, <2>4
<1>6. PICK last : last = SubSeq(values, first, n)
  OBVIOUS
<1>7. last \in Seq(Int) /\ Len(last) = l /\ \A i \in 1 .. l : last[i] = values[first + i - 1]
  <2>1. /\ last \in Seq(Int) /\ Len(last) = IF first <= n THEN n - first + 1 ELSE 0
        /\ \A i \in 1 .. n - first + 1 : last[i] = values[first + i - 1]
    BY <1>1, <1>4, <1>6, SubSeqProperties
  <2> QED
    BY <1>2, <1>4, <2>1
<1>8. ASSUME NEW i \in 1 .. l
      PROVE  window[i] = last[i]
  <2>1. first + i - 1 = n - l + i
    BY <1>1, <1>2, <1>4
  <2>2. window[i] = values[n - l + i]
    BY <1>1 DEF IsWindow
  <2> QED
    BY <1>7, <2>1, <2>2
<1>9. window = last
  <2>1. window \in Seq(Int) /\ last \in Seq(Int) /\ Len(window) = Len(last)
    BY <1>1, <1>3, <1>7
  <2>2. \A i \in 1 .. Len(window) : window[i] = last[i]
    BY <1>1, <1>8
  <2> QED
    BY <2>1, <2>2, SeqEqual
<1> QED
  BY <1>1, <1>5, <1>6, <1>9

\* The series of values, when they have the given total.
SeriesOf(values, total) ==
  [count |-> Len(values), total |-> total,
   minimum |-> Min(Range(values)), maximum |-> Max(Range(values)),
   buckets |-> [b \in Bucket |-> AtMost(values, Bounds[b])],
   recent |-> SubSeq(values, Max({1, Len(values) - MaxSamples + 1}), Len(values))]

LEMMA SummaryIs ==
  ASSUME NEW s, NEW values \in Seq(Int), values # <<>>, Summarises(s, values)
  PROVE  s = SeriesOf(values, s.total)
<1>1. Range(values) \in SUBSET Int
  BY DEF Range
<1>2. s.minimum = Min(Range(values)) /\ s.maximum = Max(Range(values))
  BY <1>1, ExtremesOf DEF Summarises
<1>3. s.recent = SubSeq(values, Max({1, Len(values) - MaxSamples + 1}), Len(values))
  BY WindowIsLast DEF Summarises
<1>4. s.buckets = [b \in Bucket |-> AtMost(values, Bounds[b])]
  <2>1. s.buckets = [b \in Bucket |-> s.buckets[b]]
    BY DEF Summarises, SeriesType
  <2>2. \A b \in Bucket : s.buckets[b] = AtMost(values, Bounds[b])
    BY DEF Summarises
  <2> QED
    BY <2>1, <2>2, Zenon
<1>5. s = [count |-> s.count, total |-> s.total, minimum |-> s.minimum, maximum |-> s.maximum,
           buckets |-> s.buckets, recent |-> s.recent]
  BY DEF Summarises, SeriesType
<1>6. s.count = Len(values)
  BY DEF Summarises
<1> QED
  BY <1>2, <1>3, <1>4, <1>5, <1>6, Zenon DEF SeriesOf

\* The series of table are those of the observations.
Aggregated(table, observed) ==
  \A k \in Key : IF observed[k] = <<>> THEN table[k] = NoSeries
                 ELSE Summarises(table[k], observed[k])

AggregatesInv ==
  own => /\ Aggregated(series, seen)
         /\ saved # NoCheckpoint => Aggregated(saved, savedSeen)

LEMMA AggregatesInitially == Init => AggregatesInv
BY DEF Init, AggregatesInv, Aggregated

\* What observing does to the observations of k and to those of the others.
LEMMA ObserveSeen ==
  ASSUME IInv, NEW k \in Key, NEW v \in Value, Observe(k, v)
  PROVE  /\ seen[k] \in Seq(Int) /\ seen'[k] = Append(seen[k], v) /\ seen'[k] # <<>>
         /\ \A j \in Key : j # k => seen'[j] = seen[j]
<1>1. seen \in [Key -> Seq(Value)] /\ seen' = [seen EXCEPT ![k] = Append(seen[k], v)]
  BY DEF Observe, IInv
<1>2. seen[k] \in Seq(Value) /\ seen[k] \in Seq(Int)
  BY <1>1, ObservedAreNumbers
<1>3. seen'[k] = Append(seen[k], v) /\ \A j \in Key : j # k => seen'[j] = seen[j]
  BY <1>1
<1>4. Append(seen[k], v) # <<>>
  BY <1>2, AppendProperties
<1> QED
  BY <1>2, <1>3, <1>4

\* A label set that has observations has a series.
LEMMA ObservedIsCurrent ==
  ASSUME Aggregated(series, seen), seen \in [Key -> Seq(Value)], NEW k \in Key, seen[k] # <<>>
  PROVE  Current(k) = series[k] /\ Summarises(series[k], seen[k])
<1>1. Summarises(series[k], seen[k])
  BY DEF Aggregated
<1>2. series[k].count = Len(seen[k]) /\ Len(seen[k]) # 0
  BY <1>1 DEF Summarises
<1>3. series[k] # NoSeries
  BY <1>2 DEF NoSeries
<1> QED
  BY <1>1, <1>3 DEF Current, Held

LEMMA AggregatesInductive == IInv /\ AggregatesInv /\ [Next]_vars => AggregatesInv'
<1> SUFFICES ASSUME IInv, AggregatesInv, [Next]_vars PROVE AggregatesInv'
  OBVIOUS
<1>1. ASSUME NEW k \in Key, NEW v \in Value, Observe(k, v)
      PROVE  AggregatesInv'
  <2>1. UNCHANGED <<saved, savedSeen, own>>
    BY <1>1 DEF Observe, disk
  <2>2. SUFFICES ASSUME own, Aggregated(series, seen)
                 PROVE  Aggregated(series, seen)'
    BY <2>1 DEF AggregatesInv, Aggregated
  <2>3. /\ series'[k] = Observed(Current(k), v)
        /\ series[k] = NoSeries => Current(k) = NewSeries
        /\ series[k] # NoSeries => Current(k) = series[k]
        /\ Rounded(Current(k).total + v) \in Finite
        /\ \A j \in Key : j # k => series'[j] = series[j]
    BY <1>1, ObserveTable DEF IInv
  <2>4. /\ seen[k] \in Seq(Int) /\ seen'[k] = Append(seen[k], v) /\ seen'[k] # <<>>
        /\ \A j \in Key : j # k => seen'[j] = seen[j]
    BY <1>1, ObserveSeen
  <2>5. Summarises(series'[k], seen'[k])
    <3>1. CASE seen[k] = <<>>
      <4>1. series[k] = NoSeries
        BY <2>2, <3>1 DEF Aggregated
      <4>2. Append(seen[k], v) = <<v>>
        BY <3>1
      <4> QED
        BY <2>3, <2>4, <4>1, <4>2, FirstSummarises
    <3>2. CASE seen[k] # <<>>
      <4>1. Summarises(series[k], seen[k]) /\ Current(k) = series[k]
        BY <2>2, <3>2, ObservedIsCurrent DEF IInv
      <4> QED
        BY <2>3, <2>4, <3>2, <4>1, ObservedSummarises
    <3> QED
      BY <3>1, <3>2
  <2>6. ASSUME NEW j \in Key, j # k
        PROVE  IF seen'[j] = <<>> THEN series'[j] = NoSeries ELSE Summarises(series'[j], seen'[j])
    <3>1. series'[j] = series[j] /\ seen'[j] = seen[j]
      BY <2>3, <2>4, <2>6
    <3>2. IF seen[j] = <<>> THEN series[j] = NoSeries ELSE Summarises(series[j], seen[j])
      BY <2>2 DEF Aggregated
    <3> QED
      BY <3>1, <3>2
  <2>7. ASSUME NEW j \in Key
        PROVE  IF seen'[j] = <<>> THEN series'[j] = NoSeries ELSE Summarises(series'[j], seen'[j])
    BY <2>4, <2>5, <2>6
  <2> QED
    BY <2>7 DEF Aggregated
<1>2. CASE Save
  BY <1>2 DEF Save, memory, AggregatesInv, Aggregated
<1>3. CASE Load
  <2>1. /\ saved # NoCheckpoint /\ UNCHANGED <<saved, savedSeen, own>>
        /\ (series' = saved /\ seen' = savedSeen) \/ UNCHANGED <<series, seen>>
    BY <1>3 DEF Load, memory, disk
  <2>2. CASE series' = saved /\ seen' = savedSeen
    BY <2>1, <2>2 DEF AggregatesInv, Aggregated
  <2>3. CASE UNCHANGED <<series, seen>>
    BY <2>1, <2>3 DEF AggregatesInv, Aggregated
  <2> QED
    BY <2>1, <2>2, <2>3
<1>4. ASSUME NEW k \in Key, LoadForeign(k)
      PROVE  AggregatesInv'
  BY <1>4 DEF LoadForeign, AggregatesInv
<1>5. CASE UNCHANGED vars \/ \E k \in Key, v \in Value : ObserveRefused(k, v)
  BY <1>5 DEF ObserveRefused, vars, memory, disk, AggregatesInv, Aggregated
<1> QED
  BY <1>1, <1>2, <1>3, <1>4, <1>5 DEF Next

\* In every float format: count, extremes, buckets and window of a series are
\* exactly those of its observations, whatever was evicted, refused, or lost and
\* recovered, and its total is their sum, rounded after each of them.
AggregatesRounded ==
  own => \A k \in Key :
    IF seen[k] = <<>> THEN series[k] = NoSeries
    ELSE series[k] = SeriesOf(seen[k], Accumulated(seen[k], TRUE))

THEOREM AggregatesOfAll == Spec => []AggregatesRounded
<1>1. IInv /\ AggregatesInv => AggregatesRounded
  <2> SUFFICES ASSUME IInv, AggregatesInv, own, NEW k \in Key
               PROVE  IF seen[k] = <<>> THEN series[k] = NoSeries
                      ELSE series[k] = SeriesOf(seen[k], Accumulated(seen[k], TRUE))
    BY DEF AggregatesRounded
  <2>1. CASE seen[k] = <<>>
    BY <2>1 DEF AggregatesInv, Aggregated
  <2>2. CASE seen[k] # <<>>
    <3>1. Summarises(series[k], seen[k])
      BY <2>2 DEF AggregatesInv, Aggregated
    <3>2. seen[k] \in Seq(Int)
      BY ObservedAreNumbers DEF IInv
    <3>3. series[k] = SeriesOf(seen[k], series[k].total)
      BY <2>2, <3>1, <3>2, SummaryIs
    <3>4. series[k].total = Accumulated(seen[k], TRUE)
      BY <3>1, Zenon DEF Summarises
    <3> QED
      BY <2>2, <3>3, <3>4
  <2> QED
    BY <2>1, <2>2
<1> QED
  BY <1>1, Invariance, AggregatesInitially, AggregatesInductive, PTL DEF Spec

-----------------------------------------------------------------------------
(***************************************************************************)
(* The mean.  It lies between the extremes up to the tolerance of          *)
(* math.isclose; exact addition keeps it there.                            *)
(***************************************************************************)
LEMMA CloseIs ==
  ASSUME NEW x \in Int, NEW y \in Int
  PROVE  Close(x, y) <=> Tolerance * Abs(x - y) <= Abs(x) \/ Tolerance * Abs(x - y) <= Abs(y)
<1>1. PICK m, n, d : m = Abs(x) /\ n = Abs(y) /\ d = Tolerance * Abs(x - y)
  OBVIOUS
<1>2. m \in Nat /\ n \in Nat /\ d \in Int
  BY <1>1, AbsNat, Constants
<1>3. CASE m <= n
  <2>1. {m, n} \in SUBSET Int /\ n \in {m, n} /\ \A z \in {m, n} : z <= n
    BY <1>2, <1>3
  <2>2. Max({m, n}) = n
    BY <2>1, ExtremesOf
  <2>3. Close(x, y) <=> d <= n
    BY <1>1, <2>2 DEF Close
  <2> QED
    BY <1>1, <1>2, <1>3, <2>3
<1>4. CASE ~(m <= n)
  <2>1. {m, n} \in SUBSET Int /\ m \in {m, n} /\ \A z \in {m, n} : z <= m
    BY <1>2, <1>4
  <2>2. Max({m, n}) = m
    BY <2>1, ExtremesOf
  <2>3. Close(x, y) <=> d <= m
    BY <1>1, <2>2 DEF Close
  <2> QED
    BY <1>1, <1>2, <1>4, <2>3
<1> QED
  BY <1>3, <1>4

LEMMA CloseItself ==
  ASSUME NEW x \in Int
  PROVE  Close(x, x)
<1>1. Tolerance * Abs(x - x) = 0 /\ Abs(x) \in Nat
  BY Constants DEF Abs
<1> QED
  BY <1>1, CloseIs

\* Multiplying a distance by the tolerance.
LEMMA Magnified ==
  ASSUME NEW d \in Nat
  PROVE  /\ Tolerance * d \in Nat /\ d <= Tolerance * d
         /\ \A e \in Nat : e <= d => Tolerance * (d - e) = (Tolerance * d) - (Tolerance * e)
         /\ \A e \in Nat : e <= d => Tolerance * e <= Tolerance * d
BY Constants

\* A number on the way from x to y is close to x when y is.
LEMMA CloseBetween ==
  ASSUME NEW x \in Int, NEW y \in Int, NEW z \in Int, Close(x, y),
         (x < z /\ z <= y) \/ (y <= z /\ z < x)
  PROVE  Close(x, z)
<1>1. Tolerance * Abs(x - y) <= Abs(x) \/ Tolerance * Abs(x - y) <= Abs(y)
  BY CloseIs
<1>2. Abs(x - y) \in Nat /\ Abs(x - z) \in Nat /\ Abs(y - z) \in Nat
  BY AbsNat
<1>3. Abs(x - y) = Abs(x - z) + Abs(y - z) /\ Abs(y) <= Abs(z) + Abs(y - z)
  BY DEF Abs
<1>4. PICK whole, near, far :
        whole = Tolerance * Abs(x - y) /\ near = Tolerance * Abs(x - z) /\ far = Tolerance * Abs(y - z)
  OBVIOUS
<1>5. whole \in Nat /\ near \in Nat /\ far \in Nat /\ whole = near + far /\ Abs(y - z) <= far
  BY <1>2, <1>3, <1>4, Constants
<1>6. Abs(x) \in Nat /\ Abs(y) \in Nat /\ Abs(z) \in Nat
  BY AbsNat
<1>7. near <= Abs(x) \/ near <= Abs(z)
  BY <1>1, <1>2, <1>3, <1>4, <1>5, <1>6
<1> QED
  BY <1>4, <1>7, CloseIs

\* Not below y, up to the tolerance.
NotBelow(x, y) == x >= y \/ Close(x, y)

\* With c observations that total t and are not below m in the mean: with one
\* more, v, they are not below the smaller of m and v.
LEMMA NotBelowKept ==
  ASSUME NEW c \in Nat \ {0}, NEW t \in Int, NEW m \in Int, NEW v \in Int, NotBelow(t, m * c)
  PROVE  NotBelow(t + v, (IF v < m THEN v ELSE m) * (c + 1))
<1>1. PICK a : a = m * c /\ a \in Int
  OBVIOUS
<1>2. m * (c + 1) = a + m /\ (m >= 0 => a >= m) /\ (m < 0 => a <= m)
  BY <1>1
<1>3. PICK w : w = v * c /\ w \in Int
  OBVIOUS
<1>4. v * (c + 1) = w + v /\ (v >= 0 => w >= v) /\ (v < 0 => w <= v) /\ (v < m => w <= a)
  BY <1>1, <1>3
<1>5. CASE t >= a
  <2>1. CASE v < m
    BY <1>4, <1>5, <1>1, <1>3, <2>1 DEF NotBelow
  <2>2. CASE ~(v < m)
    BY <1>1, <1>2, <1>5, <2>2 DEF NotBelow
  <2> QED
    BY <2>1, <2>2
<1>6. CASE t < a /\ Close(t, a)
  <2>1. CASE v < m
    <3>1. CASE t >= w
      BY <1>3, <1>4, <2>1, <3>1 DEF NotBelow
    <3>2. CASE t < w
      <4>1. Close(t, w)
        BY <1>1, <1>3, <1>4, <1>6, <2>1, <3>2, CloseBetween
      <4>2. PICK d : d = w - t /\ d \in Nat \ {0}
        BY <1>3, <3>2
      <4>3. Abs(t - w) = d /\ Abs((t + v) - (w + v)) = d
        BY <1>3, <4>2 DEF Abs
      <4>4. PICK far : far = Tolerance * d /\ far \in Nat /\ d <= far
        BY <4>2, Magnified
      <4>5. far <= Abs(t) \/ far <= Abs(w)
        BY <1>3, <4>1, <4>3, <4>4, CloseIs
      <4>6. far <= Abs(t + v) \/ far <= Abs(w + v)
        BY <1>3, <1>4, <4>2, <4>4, <4>5 DEF Abs
      <4>7. Close(t + v, w + v)
        BY <1>3, <4>3, <4>4, <4>6, CloseIs
      <4> QED
        BY <1>4, <2>1, <4>7 DEF NotBelow
    <3> QED
      BY <1>3, <3>1, <3>2
  <2>2. CASE ~(v < m)
    <3>1. CASE t + v >= a + m
      BY <1>2, <2>2, <3>1 DEF NotBelow
    <3>2. CASE t + v < a + m
      <4>1. PICK d, e, f : /\ d = a - t /\ d \in Nat \ {0}
                           /\ e = v - m /\ e \in Nat
                           /\ f = (a + m) - (t + v) /\ f \in Nat /\ f = d - e /\ e <= d
        BY <1>1, <1>6, <2>2, <3>2
      <4>2. Abs(t - a) = d /\ Abs((t + v) - (a + m)) = f
        BY <1>1, <4>1 DEF Abs
      <4>3. PICK whole, left : whole = Tolerance * d /\ left = Tolerance * f
        OBVIOUS
      <4>4. /\ whole \in Nat /\ left \in Nat /\ d <= whole /\ f <= left
            /\ left <= whole - e
        <5>1. Tolerance * f = (Tolerance * d) - (Tolerance * e) /\ e <= Tolerance * e /\ Tolerance * e \in Nat
          BY <4>1, Magnified
        <5>2. whole \in Nat /\ left \in Nat /\ d <= whole /\ f <= left
          BY <4>1, <4>3, Magnified
        <5> QED
          BY <4>1, <4>3, <5>1, <5>2
      <4>5. whole <= Abs(t) \/ whole <= Abs(a)
        BY <1>1, <1>6, <4>2, <4>3, CloseIs
      <4>6. left <= Abs(t + v) \/ left <= Abs(a + m)
        <5>1. CASE m < 0
          BY <1>1, <1>2, <1>6, <4>1, <4>4, <4>5, <5>1 DEF Abs
        <5>2. CASE m > 0
          BY <1>1, <1>2, <1>6, <4>1, <4>4, <4>5, <5>2 DEF Abs
        <5>3. CASE m = 0
          <6>1. a = 0 /\ d = -t /\ whole <= d
            BY <1>1, <4>1, <4>5, <5>3, <4>4 DEF Abs
          <6>2. left <= f
            BY <4>1, <4>4, <6>1
          <6>3. Abs(t + v) = f
            BY <1>1, <4>1, <5>3, <6>1 DEF Abs
          <6> QED
            BY <6>2, <6>3
        <5> QED
          BY <5>1, <5>2, <5>3
      <4>7. Close(t + v, a + m)
        BY <1>1, <4>2, <4>3, <4>6, CloseIs
      <4> QED
        BY <1>2, <2>2, <4>7 DEF NotBelow
    <3> QED
      BY <1>1, <3>1, <3>2
  <2> QED
    BY <2>1, <2>2
<1> QED
  BY <1>1, <1>5, <1>6 DEF NotBelow

\* The mean against the least and the greatest, one at a time; the greatest by
\* changing signs.
LEMMA CloseNegated ==
  ASSUME NEW x \in Int, NEW y \in Int
  PROVE  Close(-x, -y) <=> Close(x, y)
<1>1. Abs(-x) = Abs(x) /\ Abs(-y) = Abs(y) /\ Abs((-x) - (-y)) = Abs(x - y) /\ -x \in Int /\ -y \in Int
  BY DEF Abs
<1> QED
  BY <1>1, CloseIs

LEMMA MeanSides ==
  ASSUME NEW s \in SeriesType, s.minimum <= s.maximum
  PROVE  MeanWithin(s) <=> /\ NotBelow(s.total, s.minimum * s.count)
                           /\ NotBelow(-s.total, (-s.maximum) * s.count)
<1>1. PICK t, a, b : t = s.total /\ a = s.minimum * s.count /\ b = s.maximum * s.count
  OBVIOUS
<1>2. s.count \in Nat /\ s.minimum \in Int /\ s.maximum \in Int /\ s.total \in Int
  BY DEF SeriesType
<1>3. t \in Int /\ a \in Int /\ b \in Int /\ a <= b /\ (-s.maximum) * s.count = -b
  BY <1>1, <1>2
<1>4. MeanWithin(s) <=> (a <= t /\ t <= b) \/ Close(t, a) \/ Close(t, b)
  BY <1>1, Zenon DEF MeanWithin
<1>5. NotBelow(t, a) <=> a <= t \/ Close(t, a)
  BY <1>3 DEF NotBelow
<1>6. NotBelow(-t, -b) <=> t <= b \/ Close(t, b)
  BY <1>3, CloseNegated DEF NotBelow
<1>7. Close(t, a) /\ ~(t <= b) => Close(t, b)
  <2> SUFFICES ASSUME Close(t, a), ~(t <= b) PROVE Close(t, b)
    OBVIOUS
  <2>1. a <= b /\ b < t
    BY <1>3
  <2> QED
    BY <1>3, <2>1, CloseBetween
<1>8. Close(t, b) /\ ~(a <= t) => Close(t, a)
  <2> SUFFICES ASSUME Close(t, b), ~(a <= t) PROVE Close(t, a)
    OBVIOUS
  <2>1. t < a /\ a <= b
    BY <1>3
  <2> QED
    BY <1>3, <2>1, CloseBetween
<1>9. MeanWithin(s) <=> NotBelow(t, a) /\ NotBelow(-t, -b)
  BY <1>4, <1>5, <1>6, <1>7, <1>8
<1> QED
  BY <1>1, <1>3, <1>9

LEMMA MeanKept ==
  ASSUME NEW s \in SeriesType, Consistent(s), MeanWithin(s), NEW v \in Int,
         NEW t \in SeriesType, t.count = s.count + 1, t.total = s.total + v,
         t.minimum = IF v < s.minimum THEN v ELSE s.minimum,
         t.maximum = IF v > s.maximum THEN v ELSE s.maximum
  PROVE  MeanWithin(t)
<1>1. PICK n, total, lo, hi : n = s.count /\ total = s.total /\ lo = s.minimum /\ hi = s.maximum
  OBVIOUS
<1>2. /\ n \in Nat \ {0} /\ total \in Int /\ lo \in Int /\ hi \in Int /\ lo <= hi
      /\ t.count = n + 1 /\ t.total = total + v
  BY <1>1 DEF Consistent, SeriesType
<1>3. NotBelow(total, lo * n) /\ NotBelow(-total, (-hi) * n)
  BY <1>1, <1>2, MeanSides
<1>4. NotBelow(t.total, t.minimum * t.count)
  <2>1. NotBelow(total + v, (IF v < lo THEN v ELSE lo) * (n + 1))
    BY <1>2, <1>3, NotBelowKept
  <2> QED
    BY <1>1, <1>2, <2>1
<1>5. NotBelow(-t.total, (-t.maximum) * t.count)
  <2>1. -total \in Int /\ -v \in Int /\ -hi \in Int
    BY <1>2
  <2>2. NotBelow((-total) + (-v), (IF -v < -hi THEN -v ELSE -hi) * (n + 1))
    BY <1>2, <1>3, <2>1, NotBelowKept
  <2>3. (-total) + (-v) = -t.total /\ (IF -v < -hi THEN -v ELSE -hi) = -t.maximum
    BY <1>1, <1>2
  <2> QED
    BY <1>2, <2>2, <2>3
<1>6. t.minimum <= t.maximum
  BY <1>1, <1>2
<1> QED
  BY <1>4, <1>5, <1>6, MeanSides

-----------------------------------------------------------------------------
(***************************************************************************)
(* While sums are exact.                                                   *)
(***************************************************************************)
\* The sums of a series are exact.
SumsExact(s) ==
  /\ MeanWithin(s)
  /\ s.count = Len(s.recent) => Total(s.recent) = s.total /\ Sum(s.recent) = s.total

ExactSums(table) == \A k \in HeldIn(table) : SumsExact(table[k])

LoadableInv ==
  /\ ExactSums(series)
  /\ saved # NoCheckpoint => ExactSums(saved)

LEMMA ExactIsValid ==
  ASSUME NEW s \in SeriesType, Consistent(s), SumsExact(s)
  PROVE  Valid(s) <=> s.count <= MaxCount
<1>1. s.total \in Int
  BY DEF SeriesType
<1>2. Close(s.total, s.total)
  BY <1>1, CloseItself
<1>3. s.count = Len(s.recent) => Close(Sum(s.recent), s.total)
  BY <1>2 DEF SumsExact
<1>4. SumsAgree(s)
  BY <1>3 DEF SumsAgree, SumsExact
<1> QED
  BY <1>4, ValidParts

\* A sum that fits is the sum before it and the observation.
LEMMA ObserveExactly ==
  ASSUME IInv, SumsFit', NEW k \in Key, NEW v \in Value, Observe(k, v)
  PROVE  series'[k].total = Current(k).total + v /\ Current(k).total + v \in Int
<1>1. /\ series'[k] = Observed(Current(k), v) /\ series'[k] # NoSeries
      /\ Current(k) = NewSeries \/ Current(k) \in SeriesType
  BY ObserveTable DEF IInv
<1>2. series'[k].total = Rounded(Current(k).total + v)
  BY <1>1 DEF Observed
<1>3. Current(k).total \in Int
  BY <1>1 DEF NewSeries, SeriesType
<1>4. Current(k).total + v \in Int
  BY <1>3, Constants
<1>5. Abs(series'[k].total) < Significand
  BY <1>1 DEF SumsFit, Held
<1> QED
  BY <1>2, <1>4, <1>5, SmallSumsExact

LEMMA FirstExact ==
  ASSUME NEW v \in Value, NEW t \in SeriesType, Consistent(t), Abs(t.total) < Significand,
         t.count = 1, t.total = v, t.minimum = v, t.maximum = v, t.recent = <<v>>
  PROVE  SumsExact(t)
<1>1. v \in Int
  BY Constants
<1>2. MeanWithin(t)
  BY <1>1 DEF MeanWithin
<1>3. Rounded(v) = v
  <2>1. Abs(v) <= Significand
    BY <1>1, AbsNat, Constants
  <2> QED
    BY <1>1, <2>1, RoundedFloat
<1>4. Accumulated(<<v>>, FALSE) = v /\ Accumulated(<<v>>, TRUE) = v
  BY <1>1, <1>3, AccumulatedOne
<1>5. Total(<<v>>) = v /\ Sum(<<v>>) = v
  BY <1>3, <1>4 DEF Total, Sum
<1> QED
  BY <1>2, <1>5 DEF SumsExact

LEMMA NextExact ==
  ASSUME NEW s \in SeriesType, Consistent(s), SumsExact(s), NEW v \in Value,
         NEW t \in SeriesType, t = Observed(s, v), Rounded(s.total + v) \in Finite,
         t.total = s.total + v, Abs(t.total) < Significand
  PROVE  SumsExact(t)
<1>1. v \in Int /\ MaxSamples \in Nat \ {0}
  BY Constants
<1>2. PICK n, window : n = s.count /\ window = s.recent
  OBVIOUS
<1>3. /\ n \in Nat \ {0} /\ window \in Seq(Int) /\ s.total \in Int
      /\ Len(window) = IF n < MaxSamples THEN n ELSE MaxSamples
  BY <1>2, Constants DEF Consistent, SeriesType
<1>4. /\ t.count = n + 1
      /\ t.minimum = (IF v < s.minimum THEN v ELSE s.minimum)
      /\ t.maximum = (IF v > s.maximum THEN v ELSE s.maximum)
      /\ t.recent = Slid(window, v)
  <2>1. Len(s.recent) <= MaxSamples /\ s.count # 0 /\ v \in Int
    BY <1>1, <1>2, <1>3
  <2>2. /\ t.count = s.count + 1
        /\ t.minimum = (IF s.count = 0 \/ v < s.minimum THEN v ELSE s.minimum)
        /\ t.maximum = (IF s.count = 0 \/ v > s.maximum THEN v ELSE s.maximum)
        /\ t.recent = Slid(s.recent, v)
    BY <2>1, ObservedFields
  <2> QED
    BY <1>2, <2>1, <2>2
<1>5. MeanWithin(t)
  BY <1>1, <1>2, <1>4, MeanKept DEF SumsExact
<1>6. ASSUME t.count = Len(t.recent)
      PROVE  Total(t.recent) = t.total /\ Sum(t.recent) = t.total
  <2>1. Len(window) < MaxSamples /\ n = Len(window) /\ t.recent = Append(window, v)
    <3>1. Len(window) <= MaxSamples
      BY <1>1, <1>3
    <3>2. /\ Len(Slid(window, v)) = IF Len(window) < MaxSamples THEN Len(window) + 1 ELSE MaxSamples
          /\ Len(window) < MaxSamples => Slid(window, v) = Append(window, v)
      BY <1>1, <1>3, <3>1, SlidWindow
    <3>3. n + 1 = IF Len(window) < MaxSamples THEN Len(window) + 1 ELSE MaxSamples
      BY <1>4, <1>6, <3>2
    <3>4. Len(window) < MaxSamples /\ n = Len(window)
      BY <1>1, <1>3, <3>3
    <3> QED
      BY <1>4, <3>2, <3>4
  <2>2. Total(window) = s.total /\ Sum(window) = s.total
    BY <1>2, <2>1 DEF SumsExact
  <2>3. Rounded(t.total) = t.total
    <3>1. t.total \in Int
      BY DEF SeriesType
    <3>2. Abs(t.total) <= Significand
      BY <3>1, AbsNat, Constants
    <3> QED
      BY <3>1, <3>2, RoundedFloat
  <2>4. Total(t.recent) = t.total
    <3>1. Accumulated(Append(window, v), FALSE) = Accumulated(window, FALSE) + v
      BY <1>1, <1>3, AccumulatedAppend, Zenon
    <3> QED
      BY <2>1, <2>2, <3>1 DEF Total
  <2>5. Sum(t.recent) = t.total
    <3>1. CASE Compensated
      BY <2>3, <2>4, <3>1 DEF Sum
    <3>2. CASE ~Compensated
      <4>1. Accumulated(Append(window, v), TRUE) = Rounded(Accumulated(window, TRUE) + v)
        BY <1>1, <1>3, AccumulatedAppend, Zenon
      <4>2. Accumulated(window, TRUE) = s.total /\ Sum(t.recent) = Accumulated(t.recent, TRUE)
        BY <2>2, <3>2 DEF Sum
      <4> QED
        BY <2>1, <2>3, <4>1, <4>2
    <3> QED
      BY <3>1, <3>2
  <2> QED
    BY <2>4, <2>5
<1> QED
  BY <1>5, <1>6 DEF SumsExact

LEMMA ObserveKeepsExact ==
  ASSUME IInv, SumsFit', ExactSums(series), NEW k \in Key, NEW v \in Value, Observe(k, v)
  PROVE  ExactSums(series')
<1>1. /\ series'[k] = Observed(Current(k), v)
      /\ \/ series[k] = NoSeries /\ Current(k) = NewSeries
         \/ /\ series[k] # NoSeries /\ Current(k) = series[k]
            /\ Current(k) \in SeriesType /\ Consistent(Current(k))
      /\ series'[k] \in SeriesType /\ Consistent(series'[k]) /\ series'[k] # NoSeries
      /\ Rounded(Current(k).total + v) \in Finite
      /\ \A j \in Key : j # k => series'[j] = series[j]
  BY ObserveTable DEF IInv
<1>2. series'[k].total = Current(k).total + v
  BY ObserveExactly
<1>3. Abs(series'[k].total) < Significand
  BY <1>1 DEF SumsFit, Held
<1>4. SumsExact(series'[k])
  <2>1. CASE Current(k) = NewSeries
    <3>1. /\ series'[k].count = 1 /\ series'[k].minimum = v /\ series'[k].maximum = v
          /\ series'[k].recent = <<v>> /\ NewSeries.total + v = v
      BY <1>1, <2>1, FirstFields
    <3>2. series'[k].total = v
      BY <1>2, <2>1, <3>1
    <3> QED
      BY <1>1, <1>3, <3>1, <3>2, FirstExact
  <2>2. CASE series[k] # NoSeries /\ Current(k) = series[k]
    <3>1. SumsExact(Current(k))
      BY <2>2 DEF ExactSums, HeldIn
    <3>2. Current(k) \in SeriesType /\ Consistent(Current(k))
      BY <1>1, <2>2
    <3>3. PICK s, t : s = Current(k) /\ t = series'[k]
      OBVIOUS
    <3>4. /\ s \in SeriesType /\ Consistent(s) /\ SumsExact(s)
          /\ t \in SeriesType /\ t = Observed(s, v) /\ Rounded(s.total + v) \in Finite
          /\ t.total = s.total + v /\ Abs(t.total) < Significand
      BY <1>1, <1>2, <1>3, <3>1, <3>2, <3>3
    <3>5. SumsExact(t)
      BY <3>4, NextExact
    <3> QED
      BY <3>3, <3>5
  <2> QED
    BY <1>1, <2>1, <2>2
<1>5. ASSUME NEW j \in HeldIn(series')
      PROVE  SumsExact(series'[j])
  <2>1. CASE j = k
    BY <1>4, <2>1
  <2>2. CASE j # k
    <3>1. j \in HeldIn(series) /\ series'[j] = series[j]
      BY <1>1, <2>2 DEF HeldIn
    <3> QED
      BY <3>1 DEF ExactSums
  <2> QED
    BY <2>1, <2>2
<1> QED
  BY <1>5 DEF ExactSums

LEMMA TableValid ==
  ASSUME NEW table, Sound(table), ExactSums(table)
  PROVE  RefusedForCountOnly(table)
<1> SUFFICES ASSUME NEW k \in Key, table[k] # NoSeries
             PROVE  Valid(table[k]) <=> table[k].count <= MaxCount
  BY DEF RefusedForCountOnly
<1>1. k \in HeldIn(table)
  BY DEF HeldIn
<1>2. table[k] \in SeriesType /\ Consistent(table[k]) /\ SumsExact(table[k])
  BY <1>1, HeldIsSeries DEF Sound, ExactSums
<1> QED
  BY <1>2, ExactIsValid

LEMMA LoadableInductive ==
  ASSUME ForeignExact
  PROVE  IInv /\ LoadableInv /\ [Next]_vars /\ SumsFit' => LoadableInv'
<1> SUFFICES ASSUME IInv, LoadableInv, [Next]_vars, SumsFit' PROVE LoadableInv'
  OBVIOUS
<1>1. ASSUME NEW k \in Key, NEW v \in Value, Observe(k, v)
      PROVE  LoadableInv'
  <2>1. saved' = saved
    BY <1>1 DEF Observe, disk
  <2>2. ExactSums(series')
    BY <1>1, ObserveKeepsExact DEF LoadableInv
  <2> QED
    BY <2>1, <2>2 DEF LoadableInv, ExactSums
<1>2. CASE Save
  BY <1>2 DEF Save, memory, LoadableInv, ExactSums
<1>3. CASE Load
  <2>1. saved # NoCheckpoint /\ ExactSums(saved)
    BY <1>3 DEF Load, LoadableInv
  <2>2. saved' = saved /\ (series' = saved \/ series' = series)
    BY <1>3 DEF Load, disk, memory
  <2> QED
    BY <2>1, <2>2 DEF LoadableInv, ExactSums
<1>4. ASSUME NEW k \in Key, LoadForeign(k)
      PROVE  LoadableInv'
  <2>1. PICK s \in Foreign : Valid(s) /\ series' = [series EXCEPT ![k] = s]
    BY <1>4 DEF LoadForeign
  <2>2. HeldIn(series) = {} /\ saved = NoCheckpoint /\ UNCHANGED <<saved, refused>>
    BY <1>4 DEF LoadForeign, Held, HeldIn, disk
  <2>3. SumsExact(s)
    BY <2>1 DEF ForeignExact, SumsExact, Valid, Plausible
  <2>4. series \in Table
    BY DEF IInv, Sound
  <2>5. series'[k] = s /\ \A j \in Key : j # k => series'[j] = NoSeries
    BY <2>1, <2>2, <2>4 DEF Table, HeldIn
  <2>6. \A j \in HeldIn(series') : SumsExact(series'[j])
    BY <2>3, <2>5 DEF HeldIn
  <2> QED
    BY <2>2, <2>6 DEF LoadableInv, ExactSums
<1>5. CASE UNCHANGED vars \/ \E k \in Key, v \in Value : ObserveRefused(k, v)
  BY <1>5 DEF ObserveRefused, vars, memory, disk, LoadableInv, ExactSums
<1> QED
  BY <1>1, <1>2, <1>3, <1>4, <1>5 DEF Next

\* While sums are exact, the validator refuses a series of the program only when
\* it has counted beyond the greatest count that is accepted, also if the program
\* went on from a checkpoint that was written elsewhere.
THEOREM LoadableWhileExact ==
  ASSUME ForeignExact
  PROVE  Spec /\ []SumsFit => []SeriesStayLoadable
<1>1. Init => LoadableInv
  BY DEF Init, LoadableInv, ExactSums, HeldIn
<1>2. IInv /\ LoadableInv => SeriesStayLoadable
  BY TableValid DEF IInv, LoadableInv, SeriesStayLoadable
<1>3. IInv /\ LoadableInv /\ [Next]_vars /\ SumsFit' => LoadableInv'
  BY LoadableInductive
<1> QED
  BY <1>1, <1>2, <1>3, Invariance, PTL DEF Spec

\* The totals of table are the sums of the observations.
Totalled(table, observed) ==
  \A k \in Key : observed[k] # <<>> => table[k].total = Total(observed[k])

TotalsInv ==
  own => /\ Totalled(series, seen)
         /\ saved # NoCheckpoint => Totalled(saved, savedSeen)

LEMMA TotalsInductive ==
  IInv /\ AggregatesInv /\ TotalsInv /\ [Next]_vars /\ SumsFit' => TotalsInv'
<1> SUFFICES ASSUME IInv, AggregatesInv, TotalsInv, [Next]_vars, SumsFit' PROVE TotalsInv'
  OBVIOUS
<1>1. ASSUME NEW k \in Key, NEW v \in Value, Observe(k, v)
      PROVE  TotalsInv'
  <2>1. UNCHANGED <<saved, savedSeen, own>>
    BY <1>1 DEF Observe, disk
  <2>2. SUFFICES ASSUME own, Totalled(series, seen), Aggregated(series, seen)
                 PROVE  Totalled(series, seen)'
    BY <2>1 DEF TotalsInv, Totalled, AggregatesInv
  <2>3. /\ series'[k].total = Current(k).total + v
        /\ \A j \in Key : j # k => series'[j] = series[j]
    BY <1>1, ObserveTable, ObserveExactly DEF IInv
  <2>4. /\ seen[k] \in Seq(Int) /\ seen'[k] = Append(seen[k], v)
        /\ \A j \in Key : j # k => seen'[j] = seen[j]
    BY <1>1, ObserveSeen
  <2>5. v \in Int
    BY Constants
  <2>6. Current(k).total = Total(seen[k])
    <3>1. CASE seen[k] = <<>>
      <4>1. Current(k).total = 0
        BY <2>2, <3>1 DEF Aggregated, NewSeries, Current, Held
      <4>2. Total(<<>>) = 0
        BY AccumulatedNone, Zenon DEF Total
      <4> QED
        BY <3>1, <4>1, <4>2
    <3>2. CASE seen[k] # <<>>
      BY <2>2, <3>2, ObservedIsCurrent DEF Totalled, IInv
    <3> QED
      BY <3>1, <3>2
  <2>7. Total(Append(seen[k], v)) = Total(seen[k]) + v
    BY <2>4, <2>5, AccumulatedAppend, Zenon DEF Total
  <2>8. series'[k].total = Total(seen'[k])
    BY <2>3, <2>4, <2>6, <2>7
  <2>9. ASSUME NEW j \in Key, seen'[j] # <<>>
        PROVE  series'[j].total = Total(seen'[j])
    <3>1. CASE j = k
      BY <2>8, <3>1
    <3>2. CASE j # k
      <4>1. series'[j] = series[j] /\ seen'[j] = seen[j]
        BY <2>3, <2>4, <3>2
      <4>2. series[j].total = Total(seen[j])
        BY <2>2, <2>9, <4>1 DEF Totalled
      <4> QED
        BY <4>1, <4>2
    <3> QED
      BY <3>1, <3>2
  <2> QED
    BY <2>9 DEF Totalled
<1>2. CASE Save
  BY <1>2 DEF Save, memory, TotalsInv, Totalled
<1>3. CASE Load
  <2>1. /\ saved # NoCheckpoint /\ UNCHANGED <<saved, savedSeen, own>>
        /\ (series' = saved /\ seen' = savedSeen) \/ UNCHANGED <<series, seen>>
    BY <1>3 DEF Load, memory, disk
  <2>2. CASE series' = saved /\ seen' = savedSeen
    BY <2>1, <2>2 DEF TotalsInv, Totalled
  <2>3. CASE UNCHANGED <<series, seen>>
    BY <2>1, <2>3 DEF TotalsInv, Totalled
  <2> QED
    BY <2>1, <2>2, <2>3
<1>4. ASSUME NEW k \in Key, LoadForeign(k)
      PROVE  TotalsInv'
  BY <1>4 DEF LoadForeign, TotalsInv
<1>5. CASE UNCHANGED vars \/ \E k \in Key, v \in Value : ObserveRefused(k, v)
  BY <1>5 DEF ObserveRefused, vars, memory, disk, TotalsInv, Totalled
<1> QED
  BY <1>1, <1>2, <1>3, <1>4, <1>5 DEF Next

\* While sums are exact, the totals are, too: a series is exactly that of all its
\* observations.
THEOREM AggregatesWhileExact == Spec /\ []SumsFit => []AggregatesExact
<1>1. Init => TotalsInv
  BY DEF Init, TotalsInv, Totalled
<1>2. IInv /\ AggregatesInv /\ TotalsInv => AggregatesExact
  <2> SUFFICES ASSUME IInv, AggregatesInv, TotalsInv, own, NEW k \in Key
               PROVE  IF seen[k] = <<>> THEN series[k] = NoSeries
                      ELSE series[k] = SeriesOf(seen[k], Total(seen[k]))
    BY Zenon DEF AggregatesExact, SeriesOf
  <2>1. CASE seen[k] = <<>>
    BY <2>1 DEF AggregatesInv, Aggregated
  <2>2. CASE seen[k] # <<>>
    <3>1. Summarises(series[k], seen[k])
      BY <2>2 DEF AggregatesInv, Aggregated
    <3>2. seen[k] \in Seq(Int)
      BY ObservedAreNumbers DEF IInv
    <3>3. series[k] = SeriesOf(seen[k], series[k].total)
      BY <2>2, <3>1, <3>2, SummaryIs
    <3>4. series[k].total = Total(seen[k])
      BY <2>2 DEF TotalsInv, Totalled
    <3> QED
      BY <2>2, <3>3, <3>4
  <2> QED
    BY <2>1, <2>2
<1>3. IInv /\ AggregatesInv /\ TotalsInv /\ [Next]_vars /\ SumsFit' => TotalsInv'
  BY TotalsInductive
<1> QED
  BY <1>1, <1>2, <1>3, Invariance, AggregatesInitially, AggregatesInductive, PTL DEF Spec

\* With observations of at most B, a total is exact while the number of
\* observations times B is within the significand.
ShortTotals(B, table, observed) ==
  \A k \in Key :
    observed[k] # <<>> /\ Len(observed[k]) * B <= Significand =>
      /\ table[k].total = Total(observed[k])
      /\ Abs(table[k].total) <= Len(observed[k]) * B

ShortInv(B) ==
  own => /\ ShortTotals(B, series, seen)
         /\ saved # NoCheckpoint => ShortTotals(B, saved, savedSeen)

\* One observation more.
LEMMA ObserveShort ==
  ASSUME NEW B \in Nat, \A v \in Value : Abs(v) <= B,
         IInv, Aggregated(series, seen), ShortTotals(B, series, seen),
         NEW k \in Key, NEW v \in Value, Observe(k, v),
         Len(seen'[k]) * B <= Significand
  PROVE  /\ series'[k].total = Total(seen'[k])
         /\ Abs(series'[k].total) <= Len(seen'[k]) * B
<1>1. /\ series'[k] = Observed(Current(k), v)
      /\ Current(k) = NewSeries \/ Current(k) \in SeriesType
  BY ObserveTable DEF IInv
<1>2. series'[k].total = Rounded(Current(k).total + v)
  BY <1>1 DEF Observed
<1>3. seen[k] \in Seq(Int) /\ seen'[k] = Append(seen[k], v)
  BY ObserveSeen
<1>4. v \in Int /\ Abs(v) <= B /\ Significand \in Nat
  BY Constants
<1>5. PICK n, bound, more :
        /\ n = Len(seen[k]) /\ n \in Nat /\ bound = n * B /\ bound \in Nat
        /\ more = (n + 1) * B /\ more = bound + B /\ more \in Nat
  <2>1. PICK n : n = Len(seen[k]) /\ n \in Nat
    BY <1>3
  <2>2. n * B \in Nat /\ (n + 1) * B = n * B + B
    BY <2>1
  <2> QED
    BY <2>1, <2>2
<1>6. Len(seen'[k]) * B = more /\ more <= Significand
  <2>1. Len(seen'[k]) = n + 1
    BY <1>3, <1>4, <1>5
  <2> QED
    BY <1>5, <2>1
<1>7. PICK total : total = Current(k).total
  OBVIOUS
<1>8. total \in Int /\ total = Total(seen[k]) /\ Abs(total) <= bound
  <2>1. CASE seen[k] = <<>>
    <3>1. Current(k).total = 0
      BY <2>1 DEF Aggregated, NewSeries, Current, Held
    <3>2. Total(<<>>) = 0
      BY AccumulatedNone, Zenon DEF Total
    <3> QED
      BY <1>5, <1>7, <2>1, <3>1, <3>2 DEF Abs
  <2>2. CASE seen[k] # <<>>
    <3>1. Current(k) = series[k] /\ series[k] \in SeriesType
      BY <2>2, ObservedIsCurrent DEF IInv, Summarises
    <3>2. bound <= Significand
      BY <1>4, <1>5, <1>6
    <3>3. series[k].total = Total(seen[k]) /\ Abs(series[k].total) <= Len(seen[k]) * B
      BY <1>5, <2>2, <3>2 DEF ShortTotals
    <3> QED
      BY <1>5, <1>7, <3>1, <3>3 DEF SeriesType
  <2> QED
    BY <2>1, <2>2
<1>9. total + v \in Int /\ Abs(total + v) <= more
  BY <1>4, <1>5, <1>8 DEF Abs
<1>10. Abs(total + v) <= Significand
  <2>1. Abs(total + v) \in Nat
    BY <1>9, AbsNat
  <2> QED
    BY <1>4, <1>5, <1>6, <1>9, <2>1
<1>11. Rounded(total + v) = total + v
  BY <1>9, <1>10, RoundedFloat
<1>12. Total(Append(seen[k], v)) = Total(seen[k]) + v
  BY <1>3, <1>4, AccumulatedAppend, Zenon DEF Total
<1> QED
  BY <1>2, <1>3, <1>6, <1>7, <1>8, <1>9, <1>11, <1>12

LEMMA ShortInductive ==
  ASSUME NEW B \in Nat, \A v \in Value : Abs(v) <= B
  PROVE  IInv /\ AggregatesInv /\ ShortInv(B) /\ [Next]_vars => ShortInv(B)'
<1> SUFFICES ASSUME IInv, AggregatesInv, ShortInv(B), [Next]_vars PROVE ShortInv(B)'
  OBVIOUS
<1>1. ASSUME NEW k \in Key, NEW v \in Value, Observe(k, v)
      PROVE  ShortInv(B)'
  <2>1. UNCHANGED <<saved, savedSeen, own>>
    BY <1>1 DEF Observe, disk
  <2>2. SUFFICES ASSUME own, Aggregated(series, seen), ShortTotals(B, series, seen)
                 PROVE  ShortTotals(B, series, seen)'
    BY <2>1 DEF ShortInv, ShortTotals, AggregatesInv
  <2>3. \A j \in Key : j # k => series'[j] = series[j] /\ seen'[j] = seen[j]
    BY <1>1, ObserveTable, ObserveSeen DEF IInv
  <2>4. ASSUME NEW j \in Key, seen'[j] # <<>>, Len(seen'[j]) * B <= Significand
        PROVE  series'[j].total = Total(seen'[j]) /\ Abs(series'[j].total) <= Len(seen'[j]) * B
    <3>1. CASE j = k
      BY <1>1, <2>2, <2>4, <3>1, ObserveShort
    <3>2. CASE j # k
      BY <2>2, <2>3, <2>4, <3>2, Zenon DEF ShortTotals
    <3> QED
      BY <3>1, <3>2
  <2> QED
    BY <2>4, Zenon DEF ShortTotals
<1>2. CASE Save
  BY <1>2, Zenon DEF Save, memory, ShortInv, ShortTotals
<1>3. CASE Load
  <2>1. /\ saved # NoCheckpoint /\ UNCHANGED <<saved, savedSeen, own>>
        /\ (series' = saved /\ seen' = savedSeen) \/ UNCHANGED <<series, seen>>
    BY <1>3 DEF Load, memory, disk
  <2>2. CASE series' = saved /\ seen' = savedSeen
    BY <2>1, <2>2 DEF ShortInv, ShortTotals
  <2>3. CASE UNCHANGED <<series, seen>>
    BY <2>1, <2>3 DEF ShortInv, ShortTotals
  <2> QED
    BY <2>1, <2>2, <2>3
<1>4. ASSUME NEW k \in Key, LoadForeign(k)
      PROVE  ShortInv(B)'
  BY <1>4 DEF LoadForeign, ShortInv
<1>5. CASE UNCHANGED vars \/ \E k \in Key, v \in Value : ObserveRefused(k, v)
  BY <1>5 DEF ObserveRefused, vars, memory, disk, ShortInv, ShortTotals
<1> QED
  BY <1>1, <1>2, <1>3, <1>4, <1>5 DEF Next

\* Without looking at the sums: a series of few observations, each at most B, is
\* exactly that of all its observations, whatever was lost and recovered in
\* between, and whatever the sums of other series are.
ShortSeriesExact(B) ==
  own => \A k \in Key :
    seen[k] # <<>> /\ Len(seen[k]) * B <= Significand =>
      series[k] = SeriesOf(seen[k], Total(seen[k]))

THEOREM ShortSeriesAlwaysExact ==
  ASSUME NEW B \in Nat, \A v \in Value : Abs(v) <= B
  PROVE  Spec => []ShortSeriesExact(B)
<1>1. Init => ShortInv(B)
  BY DEF Init, ShortInv, ShortTotals
<1>2. IInv /\ AggregatesInv /\ ShortInv(B) => ShortSeriesExact(B)
  <2> SUFFICES ASSUME IInv, AggregatesInv, ShortInv(B), own, NEW k \in Key,
                      seen[k] # <<>>, Len(seen[k]) * B <= Significand
               PROVE  series[k] = SeriesOf(seen[k], Total(seen[k]))
    BY DEF ShortSeriesExact
  <2>1. Summarises(series[k], seen[k])
    BY DEF AggregatesInv, Aggregated
  <2>2. seen[k] \in Seq(Int)
    BY ObservedAreNumbers DEF IInv
  <2>3. series[k] = SeriesOf(seen[k], series[k].total)
    BY <2>1, <2>2, SummaryIs
  <2>4. series[k].total = Total(seen[k])
    BY DEF ShortInv, ShortTotals
  <2> QED
    BY <2>3, <2>4
<1>3. IInv /\ AggregatesInv /\ ShortInv(B) /\ [Next]_vars => ShortInv(B)'
  BY ShortInductive
<1> QED
  BY <1>1, <1>2, <1>3, Invariance, AggregatesInitially, AggregatesInductive, PTL DEF Spec

\* Where sum() adds up as observe() does, a complete window has the total of the
\* series however often it was rounded.
LEMMA CompleteWindow ==
  ASSUME ~Compensated, NEW s, NEW values \in Seq(Int), Summarises(s, values),
         s.count = Len(s.recent)
  PROVE  Sum(s.recent) = s.total
<1>1. /\ s.recent \in Seq(Int) /\ Len(s.recent) = Len(values)
      /\ \A i \in 1 .. Len(s.recent) : s.recent[i] = values[Len(values) - Len(s.recent) + i]
  BY DEF Summarises, IsWindow
<1>2. \A i \in 1 .. Len(s.recent) : s.recent[i] = values[i]
  <2> TAKE i \in 1 .. Len(s.recent)
  <2>1. Len(values) - Len(s.recent) + i = i
    BY <1>1
  <2> QED
    BY <1>1, <2>1
<1>3. s.recent = values
  BY <1>1, <1>2, SeqEqual
<1>4. Sum(values) = Accumulated(values, TRUE)
  BY Zenon DEF Sum
<1>5. s.total = Accumulated(values, TRUE)
  BY Zenon DEF Summarises
<1> QED
  BY <1>3, <1>4, <1>5

\* Without compensated sums, what refuses a checkpoint of the program is the mean,
\* which the rounding of the total has moved out of the extremes, or the count.
RefusedForMean ==
  [][~refused /\ refused' /\ own /\ ~Compensated =>
       \E k \in Key : saved[k] # NoSeries /\ (~MeanWithin(saved[k]) \/ saved[k].count > MaxCount)]_vars

THEOREM RefusalsForMean == Spec => RefusedForMean
<1>1. ASSUME IInv, AggregatesInv, [Next]_vars, ~refused, refused', own, ~Compensated
      PROVE  \E k \in Key : saved[k] # NoSeries /\ (~MeanWithin(saved[k]) \/ saved[k].count > MaxCount)
  <2>1. Load
    BY <1>1 DEF Next, Observe, ObserveRefused, Save, LoadForeign, vars, disk, memory
  <2>2. saved # NoCheckpoint /\ ~ \A k \in Key : saved[k] # NoSeries => Valid(saved[k])
    BY <1>1, <2>1 DEF Load
  <2>3. PICK k \in Key : saved[k] # NoSeries /\ ~Valid(saved[k])
    BY <2>2
  <2>4. k \in HeldIn(saved) /\ Sound(saved) /\ Aggregated(saved, savedSeen)
    BY <1>1, <2>2, <2>3 DEF IInv, AggregatesInv, HeldIn
  <2>5. Consistent(saved[k]) /\ saved[k] \in SeriesType
    BY <2>4, HeldIsSeries DEF Sound
  <2>6. Summarises(saved[k], savedSeen[k]) /\ savedSeen[k] \in Seq(Int)
    BY <1>1, <2>3, <2>4, ObservedAreNumbers DEF Aggregated, IInv
  <2>7. saved[k].count = Len(saved[k].recent) => Close(Sum(saved[k].recent), saved[k].total)
    <3> SUFFICES ASSUME saved[k].count = Len(saved[k].recent)
                 PROVE  Close(Sum(saved[k].recent), saved[k].total)
      OBVIOUS
    <3>1. Sum(saved[k].recent) = saved[k].total
      BY <1>1, <2>6, CompleteWindow
    <3>2. saved[k].total \in Int
      BY <2>5 DEF SeriesType
    <3>3. Close(saved[k].total, saved[k].total)
      BY <3>2, CloseItself
    <3> QED
      BY <3>1, <3>3
  <2>8. saved[k].count \in Nat /\ MaxCount \in Nat
    BY <2>5, Constants DEF Consistent
  <2> QED
    BY <2>3, <2>5, <2>7, <2>8, ValidParts DEF SumsAgree
<1>2. IInv /\ AggregatesInv /\ [Next]_vars =>
        [~refused /\ refused' /\ own /\ ~Compensated =>
           \E k \in Key : saved[k] # NoSeries /\ (~MeanWithin(saved[k]) \/ saved[k].count > MaxCount)]_vars
  BY <1>1
<1> QED
  BY <1>2, Invariance, AggregatesInitially, AggregatesInductive, PTL DEF Spec, RefusedForMean

=============================================================================
