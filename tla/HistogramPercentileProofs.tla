--------------------- MODULE HistogramPercentileProofs ---------------------
(***************************************************************************)
(* The percentiles that Histogram reports are ordered and within the       *)
(* extremes of the window, for any window and any values.                  *)
(***************************************************************************)
EXTENDS HistogramProofs

-----------------------------------------------------------------------------
(***************************************************************************)
(* Ranks.                                                                  *)
(***************************************************************************)
\* v is the i-th of the values in ascending order.
IsRank(values, i, v) ==
  v \in Range(values) /\ AtMost(values, v) >= i /\ AtMost(values, v - 1) < i

LEMMA AtMostMonotonic ==
  ASSUME NEW values \in Seq(Int), NEW x \in Int, NEW y \in Int, x <= y
  PROVE  AtMost(values, x) <= AtMost(values, y)
<1> DEFINE S == {i \in DOMAIN values : values[i] <= x}
           T == {i \in DOMAIN values : values[i] <= y}
<1>1. IsFiniteSet(T)
  BY AtMostNat
<1>2. S \in SUBSET T
  <2>1. \A i \in DOMAIN values : values[i] \in Int
    OBVIOUS
  <2> QED
    BY <2>1
<1>3. AtMost(values, x) = Cardinality(S) /\ AtMost(values, y) = Cardinality(T)
  BY DEF AtMost
<1> HIDE DEF S, T
<1> QED
  BY <1>1, <1>2, <1>3, FS_Subset

\* Of integers, fewer than x are those up to x - 1.
LEMMA BelowIs ==
  ASSUME NEW values \in Seq(Int), NEW x \in Int
  PROVE  Cardinality({j \in DOMAIN values : values[j] < x}) = AtMost(values, x - 1)
<1>1. \A j \in DOMAIN values : values[j] \in Int
  OBVIOUS
<1>2. {j \in DOMAIN values : values[j] < x} = {j \in DOMAIN values : values[j] <= x - 1}
  BY <1>1
<1> QED
  BY <1>2 DEF AtMost

LEMMA RankExists ==
  ASSUME NEW values \in Seq(Int), NEW lo \in Int, NEW hi \in Int,
         \A j \in 1 .. Len(values) : values[j] \in lo .. hi,
         NEW i \in 1 .. Len(values)
  PROVE  \E v \in Int : IsRank(values, i, v)
<1> DEFINE Enough == {d \in Nat : AtMost(values, lo + d) >= i}
<1>1. \A j \in 1 .. Len(values) : values[j] \in Int /\ lo <= values[j] /\ values[j] <= hi
  OBVIOUS
<1>2. AtMost(values, hi) = Len(values)
  BY <1>1, AtMostExtremes
<1>3. lo - 1 \in Int /\ AtMost(values, lo - 1) = 0
  <2>1. lo - 1 \in Int /\ \A j \in 1 .. Len(values) : values[j] > lo - 1
    BY <1>1
  <2> QED
    BY <2>1, AtMostExtremes
<1>4. lo <= hi /\ i <= Len(values) /\ Len(values) \in Nat
  BY <1>1
<1>5. hi - lo \in Enough
  <2>1. hi - lo \in Nat /\ lo + (hi - lo) = hi
    BY <1>4
  <2> QED
    BY <1>2, <1>4, <2>1
<1>6. PICK d \in Nat : AtMost(values, lo + d) >= i /\ \A e \in Enough : d <= e
  <2>1. Enough \in SUBSET Nat /\ Enough # {}
    BY <1>5
  <2>2. Min(Enough) \in Enough /\ \A e \in Enough : Min(Enough) <= e
    <3> HIDE DEF Enough
    <3> QED
      BY <2>1, Least
  <2> QED
    BY <2>2
<1>7. PICK v : v = lo + d /\ v \in Int /\ v - 1 \in Int
  OBVIOUS
<1>8. AtMost(values, v) \in Nat /\ AtMost(values, v - 1) \in Nat
  BY <1>7, AtMostNat
<1>9. AtMost(values, v - 1) < i
  <2>1. CASE d = 0
    BY <1>3, <1>7, <2>1
  <2>2. CASE d # 0
    <3>1. PICK e : e = d - 1 /\ e \in Nat /\ e < d /\ lo + e = v - 1
      BY <1>7, <2>2
    <3>2. e \notin Enough
      <4>1. \A x \in Enough : d <= x
        BY <1>6
      <4>2. ~(d <= e)
        BY <3>1
      <4> HIDE DEF Enough
      <4> QED
        BY <4>1, <4>2
    <3>3. ~(AtMost(values, v - 1) >= i)
      BY <3>1, <3>2
    <3> QED
      BY <1>8, <3>3
  <2> QED
    BY <2>1, <2>2
<1>10. v \in Range(values)
  <2>1. SUFFICES ASSUME \A j \in DOMAIN values : values[j] # v
                 PROVE  FALSE
    BY DEF Range
  <2>2. \A j \in DOMAIN values : values[j] \in Int
    OBVIOUS
  <2>3. {j \in DOMAIN values : values[j] <= v} = {j \in DOMAIN values : values[j] <= v - 1}
    BY <1>7, <2>1, <2>2
  <2>4. AtMost(values, v) = AtMost(values, v - 1)
    BY <2>3 DEF AtMost
  <2> QED
    BY <1>6, <1>7, <1>8, <1>9, <2>4
<1> QED
  BY <1>6, <1>7, <1>9, <1>10 DEF IsRank

\* What Ranked chooses.
LEMMA RankedIs ==
  ASSUME NEW values \in Seq(Int), NEW lo \in Int, NEW hi \in Int,
         \A j \in 1 .. Len(values) : values[j] \in lo .. hi,
         NEW i \in 1 .. Len(values)
  PROVE  /\ Ranked(values, i) \in Int
         /\ Ranked(values, i) \in lo .. hi
         /\ IsRank(values, i, Ranked(values, i))
<1>1. \A x \in Range(values) : x \in Int /\ x \in lo .. hi
  BY DEF Range
<1>2. PICK v \in Int : IsRank(values, i, v)
  BY RankExists
<1> DEFINE Fits(x) == AtMost(values, x) >= i /\ Cardinality({j \in DOMAIN values : values[j] < x}) < i
<1>3. v \in Range(values) /\ Fits(v)
  BY <1>2, BelowIs DEF IsRank
<1>4. Ranked(values, i) = CHOOSE x \in Range(values) : Fits(x)
  BY DEF Ranked
<1> HIDE DEF Fits
<1>5. Ranked(values, i) \in Range(values) /\ Fits(Ranked(values, i))
  BY <1>3, <1>4, Zenon
<1>6. PICK r : r = Ranked(values, i) /\ r \in Range(values) /\ r \in Int /\ Fits(r)
  BY <1>1, <1>5
<1>7. IsRank(values, i, r)
  BY <1>6, BelowIs DEF IsRank, Fits
<1> QED
  BY <1>1, <1>6, <1>7

LEMMA RankedMonotonic ==
  ASSUME NEW values \in Seq(Int), NEW lo \in Int, NEW hi \in Int,
         \A j \in 1 .. Len(values) : values[j] \in lo .. hi,
         NEW i \in 1 .. Len(values), NEW j \in 1 .. Len(values), i <= j
  PROVE  Ranked(values, i) <= Ranked(values, j)
<1>1. PICK a, b : a = Ranked(values, i) /\ b = Ranked(values, j)
  OBVIOUS
<1>2. a \in Int /\ IsRank(values, i, a)
  BY <1>1, RankedIs
<1>3. b \in Int /\ IsRank(values, j, b)
  BY <1>1, RankedIs
<1>4. SUFFICES ASSUME b < a PROVE FALSE
  BY <1>1, <1>2, <1>3
<1>5. a - 1 \in Int /\ b <= a - 1
  BY <1>2, <1>3, <1>4
<1>6. AtMost(values, b) <= AtMost(values, a - 1)
  BY <1>3, <1>5, AtMostMonotonic
<1>7. AtMost(values, b) \in Nat /\ AtMost(values, a - 1) \in Nat
  BY <1>3, <1>5, AtMostNat
<1>8. AtMost(values, b) >= j /\ AtMost(values, a - 1) < i
  BY <1>2, <1>3 DEF IsRank
<1> QED
  BY <1>6, <1>7, <1>8

\* The first and the last in order are the extremes.
LEMMA RankedExtremes ==
  ASSUME NEW values \in Seq(Int), NEW lo \in Int, NEW hi \in Int, values # <<>>,
         \A j \in 1 .. Len(values) : values[j] \in lo .. hi
  PROVE  /\ Min(Range(values)) = Ranked(values, 1)
         /\ Max(Range(values)) = Ranked(values, Len(values))
<1>1. Len(values) \in Nat \ {0} /\ DOMAIN values = 1 .. Len(values)
  BY EmptySeq
<1>2. 1 \in 1 .. Len(values) /\ Len(values) \in 1 .. Len(values)
  BY <1>1
<1>3. PICK a, b : a = Ranked(values, 1) /\ b = Ranked(values, Len(values))
  OBVIOUS
<1>4. a \in Int /\ IsRank(values, 1, a)
  BY <1>2, <1>3, RankedIs
<1>5. b \in Int /\ IsRank(values, Len(values), b)
  BY <1>2, <1>3, RankedIs
<1>6. Range(values) \in SUBSET Int
  BY DEF Range
<1>7. \A x \in Range(values) : a <= x
  <2>1. a - 1 \in Int
    BY <1>4
  <2>2. AtMost(values, a - 1) = 0
    <3>1. AtMost(values, a - 1) \in Nat
      BY <2>1, AtMostNat
    <3>2. AtMost(values, a - 1) < 1
      BY <1>4 DEF IsRank
    <3> QED
      BY <3>1, <3>2
  <2>3. \A j \in 1 .. Len(values) : values[j] > a - 1
    BY <2>1, <2>2, AtMostExtremes
  <2>4. \A j \in DOMAIN values : values[j] \in Int /\ a <= values[j]
    BY <1>1, <1>4, <2>3
  <2> QED
    BY <2>4 DEF Range
<1>8. \A x \in Range(values) : x <= b
  <2>1. AtMost(values, b) \in Nat /\ AtMost(values, b) <= Len(values) /\ AtMost(values, b) >= Len(values)
    BY <1>5, AtMostNat DEF IsRank
  <2>2. AtMost(values, b) = Len(values)
    BY <1>1, <2>1
  <2>3. \A j \in 1 .. Len(values) : values[j] <= b
    BY <1>5, <2>2, AtMostExtremes
  <2> QED
    BY <1>1, <2>3 DEF Range
<1>9. a \in Range(values) /\ b \in Range(values)
  BY <1>4, <1>5 DEF IsRank
<1> QED
  BY <1>3, <1>6, <1>7, <1>8, <1>9, ExtremesOf

-----------------------------------------------------------------------------
(***************************************************************************)
(* Interpolation.                                                          *)
(***************************************************************************)
\* Where the percentile p lies between two of n ranks.
Position(n, p) == (n - 1) * p
Lower(n, p)    == Position(n, p) \div 100
Upper(n, p)    == IF Lower(n, p) + 1 < n THEN Lower(n, p) + 1 ELSE n - 1
Fraction(n, p) == Position(n, p) % 100

LEMMA PositionIs ==
  ASSUME NEW n \in Nat \ {0}, NEW p \in 0 .. 100
  PROVE  /\ Lower(n, p) \in 0 .. n - 1 /\ Upper(n, p) \in 0 .. n - 1
         /\ Lower(n, p) <= Upper(n, p)
         /\ Fraction(n, p) \in 0 .. 99
         /\ Position(n, p) = (100 * Lower(n, p)) + Fraction(n, p)
<1>1. PICK m, x : m = n - 1 /\ m \in Nat /\ x = m * p /\ x \in Nat /\ x <= m * 100
  BY DEF Position
<1>2. Position(n, p) = x
  BY <1>1 DEF Position
<1>3. PICK l, f : l = x \div 100 /\ f = x % 100
  OBVIOUS
<1>4. l \in Nat /\ f \in 0 .. 99 /\ x = (100 * l) + f
  BY <1>1, <1>3
<1>5. l <= m
  BY <1>1, <1>4
<1>6. Lower(n, p) = l /\ Fraction(n, p) = f
  BY <1>2, <1>3 DEF Lower, Fraction
<1>7. Upper(n, p) = IF l + 1 < n THEN l + 1 ELSE n - 1
  BY <1>6 DEF Upper
<1> QED
  BY <1>1, <1>2, <1>4, <1>5, <1>6, <1>7

\* A percentile lies between its two ranks.
LEMMA PercentileIs ==
  ASSUME NEW values \in Seq(Int), NEW lo \in Int, NEW hi \in Int, values # <<>>,
         \A j \in 1 .. Len(values) : values[j] \in lo .. hi,
         NEW p \in 0 .. 100
  PROVE  LET n    == Len(values)
             low  == Ranked(values, Lower(n, p) + 1)
             high == Ranked(values, Upper(n, p) + 1)
         IN  /\ low \in Int /\ high \in Int /\ low <= high
             /\ Percentile(values, p) = (100 * low) + (Fraction(n, p) * (high - low))
             /\ Percentile(values, p) \in Int
             /\ 100 * low <= Percentile(values, p) /\ Percentile(values, p) <= 100 * high
<1>1. PICK n : n = Len(values) /\ n \in Nat \ {0}
  BY EmptySeq
<1>2. PICK l, u, f : l = Lower(n, p) /\ u = Upper(n, p) /\ f = Fraction(n, p)
  OBVIOUS
<1>3. /\ l \in 0 .. n - 1 /\ u \in 0 .. n - 1 /\ l <= u /\ f \in 0 .. 99
  BY <1>1, <1>2, PositionIs
<1>4. l + 1 \in 1 .. Len(values) /\ u + 1 \in 1 .. Len(values) /\ l + 1 <= u + 1
  BY <1>1, <1>3
<1>5. PICK low, high : low = Ranked(values, l + 1) /\ high = Ranked(values, u + 1)
  OBVIOUS
<1>6. low \in Int /\ high \in Int
  BY <1>4, <1>5, RankedIs
<1>7. low <= high
  BY <1>4, <1>5, RankedMonotonic
<1>8. Percentile(values, p) = (100 * low) + (f * (high - low))
  BY <1>1, <1>2, <1>5 DEF Percentile, Bracket, Lower, Upper, Fraction, Position
<1>9. PICK g : g = high - low /\ g \in Nat
  BY <1>6, <1>7
<1>10. f * g \in Nat /\ f * g <= 100 * g
  BY <1>3, <1>9
<1>11. /\ Percentile(values, p) \in Int
       /\ 100 * low <= Percentile(values, p) /\ Percentile(values, p) <= 100 * high
  BY <1>6, <1>8, <1>9, <1>10
<1> QED
  BY <1>1, <1>2, <1>5, <1>6, <1>7, <1>8, <1>11

\* A higher percentile is not smaller.
LEMMA PercentileMonotonic ==
  ASSUME NEW values \in Seq(Int), NEW lo \in Int, NEW hi \in Int, values # <<>>,
         \A j \in 1 .. Len(values) : values[j] \in lo .. hi,
         NEW p \in 0 .. 100, NEW q \in 0 .. 100, p <= q
  PROVE  Percentile(values, p) <= Percentile(values, q)
<1>1. PICK n : n = Len(values) /\ n \in Nat \ {0}
  BY EmptySeq
<1>2. PICK l, u, f, m, w, g :
        /\ l = Lower(n, p) /\ u = Upper(n, p) /\ f = Fraction(n, p)
        /\ m = Lower(n, q) /\ w = Upper(n, q) /\ g = Fraction(n, q)
  OBVIOUS
<1>3. /\ l \in 0 .. n - 1 /\ u \in 0 .. n - 1 /\ f \in 0 .. 99
      /\ Position(n, p) = (100 * l) + f
  BY <1>1, <1>2, PositionIs
<1>4. /\ m \in 0 .. n - 1 /\ w \in 0 .. n - 1 /\ g \in 0 .. 99
      /\ Position(n, q) = (100 * m) + g
  BY <1>1, <1>2, PositionIs
<1>5. Position(n, p) <= Position(n, q)
  <2>1. PICK k, d : k = n - 1 /\ k \in Nat /\ d = q - p /\ d \in Nat /\ q = p + d
    BY <1>1
  <2>2. k * q = (k * p) + (k * d) /\ k * p \in Nat /\ k * d \in Nat
    BY <2>1
  <2>3. k * p <= k * q
    BY <2>2
  <2> QED
    BY <2>1, <2>3 DEF Position
<1>6. l < m \/ (l = m /\ f <= g)
  BY <1>3, <1>4, <1>5
<1>7. PICK low, high :
        /\ low = Ranked(values, l + 1) /\ high = Ranked(values, u + 1)
        /\ low \in Int /\ high \in Int /\ low <= high
        /\ Percentile(values, p) = (100 * low) + (f * (high - low))
        /\ Percentile(values, p) \in Int /\ Percentile(values, p) <= 100 * high
  BY <1>1, <1>2, PercentileIs
<1>8. PICK low2, high2 :
        /\ low2 = Ranked(values, m + 1) /\ high2 = Ranked(values, w + 1)
        /\ low2 \in Int /\ high2 \in Int /\ low2 <= high2
        /\ Percentile(values, q) = (100 * low2) + (g * (high2 - low2))
        /\ Percentile(values, q) \in Int /\ 100 * low2 <= Percentile(values, q)
  BY <1>1, <1>2, PercentileIs
<1>9. CASE l = m /\ f <= g
  <2>1. u = w
    BY <1>2, <1>9 DEF Upper
  <2>2. low2 = low /\ high2 = high
    BY <1>7, <1>8, <1>9, <2>1
  <2>3. PICK d : d = high - low /\ d \in Nat
    BY <1>7
  <2>4. f * d <= g * d /\ f * d \in Nat /\ g * d \in Nat
    <3>1. PICK e : e = g - f /\ e \in Nat /\ g = f + e
      BY <1>3, <1>4, <1>9
    <3>2. f \in Nat /\ g \in Nat
      BY <1>3, <1>4
    <3>3. g * d = (f * d) + (e * d) /\ e * d \in Nat /\ f * d \in Nat
      BY <2>3, <3>1, <3>2
    <3> QED
      BY <3>3
  <2> QED
    BY <1>7, <1>8, <2>2, <2>3, <2>4
<1>10. CASE l < m
  <2>1. u = l + 1 /\ u + 1 \in 1 .. Len(values) /\ m + 1 \in 1 .. Len(values) /\ u + 1 <= m + 1
    <3>1. l + 1 < n
      BY <1>1, <1>3, <1>4, <1>10
    <3>2. u = l + 1
      BY <1>1, <1>2, <3>1 DEF Upper
    <3> QED
      BY <1>1, <1>3, <1>4, <1>10, <3>2
  <2>2. high <= low2
    BY <1>7, <1>8, <2>1, RankedMonotonic
  <2>3. high \in Int /\ low2 \in Int /\ Percentile(values, p) \in Int /\ Percentile(values, q) \in Int
    BY <1>7, <1>8
  <2>4. Percentile(values, p) <= 100 * high /\ 100 * low2 <= Percentile(values, q)
    BY <1>7, <1>8
  <2>5. 100 * high <= 100 * low2
    BY <2>2, <2>3
  <2> QED
    BY <2>3, <2>4, <2>5
<1> QED
  BY <1>6, <1>9, <1>10

\* The percentiles that _percentile computes from the sorted window for a query or
\* a summary are ordered and within its extremes.
THEOREM PercentilesOrdered == Spec => []PercentilesWithinWindow
<1>1. IInv => PercentilesWithinWindow
  <2> SUFFICES ASSUME IInv, NEW k \in Held,
                      NEW values, values = series[k].recent
               PROVE  /\ 100 * Min(Range(values)) <= Percentile(values, 50)
                      /\ Percentile(values, 50) <= Percentile(values, 90)
                      /\ Percentile(values, 90) <= Percentile(values, 95)
                      /\ Percentile(values, 95) <= Percentile(values, 99)
                      /\ Percentile(values, 99) <= 100 * Max(Range(values))
    BY Zenon DEF PercentilesWithinWindow
  <2>1. k \in HeldIn(series)
    BY DEF Held, HeldIn
  <2>2. series[k] \in SeriesType /\ Consistent(series[k])
    BY <2>1, HeldIsSeries DEF IInv, Sound
  <2>3. PICK lo, hi : lo = series[k].minimum /\ hi = series[k].maximum
    OBVIOUS
  <2>4. values \in Seq(Int) /\ lo \in Int /\ hi \in Int
    BY <2>2, <2>3 DEF SeriesType
  <2>5. \A j \in 1 .. Len(values) : values[j] \in lo .. hi
    BY <2>2, <2>3, <2>4 DEF Consistent
  <2>6. values # <<>>
    <3>1. Len(values) \in Nat \ {0}
      BY <2>2, Constants DEF Consistent
    <3> QED
      BY <3>1
  <2>7. PICK n : n = Len(values) /\ n \in Nat \ {0}
    BY <2>4, <2>6, EmptySeq
  <2>8. 50 \in 0 .. 100 /\ 90 \in 0 .. 100 /\ 95 \in 0 .. 100 /\ 99 \in 0 .. 100
    OBVIOUS
  <2>9. 100 * Min(Range(values)) <= Percentile(values, 50)
    <3>1. PICK l : l = Lower(n, 50) + 1 /\ l \in 1 .. Len(values)
      <4>1. Lower(n, 50) \in 0 .. n - 1
        BY <2>7, <2>8, PositionIs
      <4> QED
        BY <2>7, <4>1
    <3>2. 1 \in 1 .. Len(values) /\ 1 <= l
      BY <2>7, <3>1
    <3>3. Ranked(values, 1) <= Ranked(values, l)
      BY <2>4, <2>5, <3>1, <3>2, RankedMonotonic
    <3>4. Ranked(values, 1) \in Int /\ Ranked(values, l) \in Int
      BY <2>4, <2>5, <3>1, <3>2, RankedIs
    <3>5. 100 * Ranked(values, l) <= Percentile(values, 50) /\ Percentile(values, 50) \in Int
      BY <2>4, <2>5, <2>6, <2>7, <2>8, <3>1, PercentileIs
    <3>6. Min(Range(values)) = Ranked(values, 1)
      BY <2>4, <2>5, <2>6, RankedExtremes
    <3> QED
      BY <3>3, <3>4, <3>5, <3>6
  <2>10. Percentile(values, 99) <= 100 * Max(Range(values))
    <3>1. PICK u : u = Upper(n, 99) + 1 /\ u \in 1 .. Len(values)
      <4>1. Upper(n, 99) \in 0 .. n - 1
        BY <2>7, <2>8, PositionIs
      <4> QED
        BY <2>7, <4>1
    <3>2. Len(values) \in 1 .. Len(values) /\ u <= Len(values)
      BY <2>7, <3>1
    <3>3. Ranked(values, u) <= Ranked(values, Len(values))
      BY <2>4, <2>5, <3>1, <3>2, RankedMonotonic
    <3>4. Ranked(values, u) \in Int /\ Ranked(values, Len(values)) \in Int
      BY <2>4, <2>5, <3>1, <3>2, RankedIs
    <3>5. Percentile(values, 99) <= 100 * Ranked(values, u) /\ Percentile(values, 99) \in Int
      BY <2>4, <2>5, <2>6, <2>7, <2>8, <3>1, PercentileIs
    <3>6. Max(Range(values)) = Ranked(values, Len(values))
      BY <2>4, <2>5, <2>6, RankedExtremes
    <3> QED
      BY <3>3, <3>4, <3>5, <3>6
  <2>11. ASSUME NEW p \in 0 .. 100, NEW q \in 0 .. 100, p <= q
         PROVE  Percentile(values, p) <= Percentile(values, q)
    BY <2>4, <2>5, <2>6, <2>11, PercentileMonotonic
  <2>12. 50 <= 90 /\ 90 <= 95 /\ 95 <= 99
    OBVIOUS
  <2> QED
    BY <2>8, <2>9, <2>10, <2>11, <2>12
<1> QED
  BY <1>1, Invariance, PTL

=============================================================================
