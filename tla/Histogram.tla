----------------------------- MODULE Histogram -----------------------------
(***************************************************************************)
(* A histogram of samsarix_analytics.monitoring.metrics: per label set, it *)
(* keeps aggregates of every observation and a window of the most recent   *)
(* ones.  A checkpoint holds all of that, and after a restart the series   *)
(* go through a validator before they are taken over.                      *)
(*                                                                         *)
(* Numbers are integers that stand for floats: a sum is rounded to the     *)
(* nearest multiple of a power of two that a significand of limited size   *)
(* can hold, a sum beyond MaxFinite is infinite, and the validator grants  *)
(* the tolerance of math.isclose.  Every operation runs under the          *)
(* instrument's lock.                                                      *)
(***************************************************************************)
EXTENDS Integers, SequencesExt

CONSTANTS
  Key,         \* label sets
  Value,       \* observations
  Bounds,      \* the upper bounds of the buckets, strictly increasing
  MaxSeries,   \* the histogram's max_series
  MaxSamples,  \* the histogram's max_samples
  MaxFinite,   \* the largest float
  Significand, \* integers up to this one are exact, 2^53 in a float
  Tolerance,   \* 1 / rel_tol, 10^12 in the validator
  Compensated, \* whether sum() carries what it rounds off: Python 3.12 and later
  MaxCount,    \* _MAX_CHECKPOINT_HISTOGRAM_COUNT
  MaxObserved, \* bound: observations of a label set
  Foreign      \* series that a checkpoint written elsewhere may contain

Finite == -MaxFinite .. MaxFinite

Bucket == 1 .. Len(Bounds)

SeriesType ==
  [count : Nat, total : Int, minimum : Int, maximum : Int,
   buckets : [Bucket -> Nat], recent : Seq(Int)]

ASSUME LimitsAssumption  ==
  {MaxSeries, MaxSamples, MaxFinite, MaxCount, MaxObserved} \subseteq Nat \ {0}
ASSUME FloatAssumption   ==
  {Significand, Tolerance} \subseteq Nat \ {0} /\ Compensated \in BOOLEAN
ASSUME ValueAssumption   == Value \subseteq Finite
ASSUME ForeignAssumption == Foreign \subseteq SeriesType
ASSUME BoundsAssumption  ==
  /\ Bounds \in Seq(Finite) /\ Bounds # <<>>
  /\ \A i, j \in Bucket : i < j => Bounds[i] < Bounds[j]

\* What observe() starts a series from; it has no extremes yet.
NewSeries ==
  [count |-> 0, total |-> 0, minimum |-> 0, maximum |-> 0,
   buckets |-> [b \in Bucket |-> 0], recent |-> <<>>]

\* A label set without a series, not even a new one.
NoSeries == [count |-> 0]

NoCheckpoint == <<>>

VARIABLES
  series,     \* the series of a label set, or NoSeries
  saved,      \* the checkpoint: all series, or NoCheckpoint
  seen,       \* observed: every observation since the series exists
  savedSeen,  \* observed: what seen was when the checkpoint was written
  own,        \* whether every series was built by observing, none is foreign
  refused     \* whether a restart failed because the checkpoint was refused

memory == <<series, seen>>
disk   == <<saved, savedSeen>>
vars   == <<memory, disk, own, refused>>

Held == {k \in Key : series[k] # NoSeries}

-----------------------------------------------------------------------------
(***************************************************************************)
(* Floats.                                                                 *)
(***************************************************************************)
Abs(n) == IF n < 0 THEN -n ELSE n

\* The distance between the floats around n.
Spacing(n) ==
  LET power[e \in 0 .. Abs(n)] == IF e = 0 THEN 1 ELSE 2 * power[e - 1]
  IN  power[Min({e \in 0 .. Abs(n) : Abs(n) <= Significand * power[e]})]

\* To the nearest float, a tie to the even one.
Rounded(n) ==
  LET step  == Spacing(n)
      down  == Abs(n) \div step
      rest  == 2 * (Abs(n) % step)
      units == IF rest > step \/ (rest = step /\ down % 2 = 1) THEN down + 1 ELSE down
  IN  step * (IF n < 0 THEN -units ELSE units)

\* math.isclose; abs_tol is below the unit of the model.
Close(x, y) == Tolerance * Abs(x - y) <= Max({Abs(x), Abs(y)})

-----------------------------------------------------------------------------
(***************************************************************************)
(* Observing.                                                              *)
(***************************************************************************)
\* deque.append with maxlen.
Slid(recent, v) == Append(IF Len(recent) < MaxSamples THEN recent ELSE Tail(recent), v)

\* Variant: a bucket leaves out its upper bound.
InBucketStrictly(v, i) == v < Bounds[i]

InBucket(v, i) == v <= Bounds[i]

Observed(s, v) ==
  [count   |-> s.count + 1,
   total   |-> Rounded(s.total + v),
   minimum |-> IF s.count = 0 \/ v < s.minimum THEN v ELSE s.minimum,
   maximum |-> IF s.count = 0 \/ v > s.maximum THEN v ELSE s.maximum,
   buckets |-> [b \in Bucket |-> s.buckets[b] + IF InBucket(v, b) THEN 1 ELSE 0],
   recent  |-> Slid(s.recent, v)]

\* Variant: one series more than the limit.
HasRoomForOneMore(k) == k \in Held \/ Cardinality(Held) <= MaxSeries

HasRoom(k) == k \in Held \/ Cardinality(Held) < MaxSeries

\* The series to observe into: that of the label set, or a new one.
Current(k) == IF k \in Held THEN series[k] ELSE NewSeries

\* A new series beyond max_series, and a sum beyond the finite range, raise.
Accepted(k, v) == HasRoom(k) /\ Rounded(Current(k).total + v) \in Finite

\* observe() does not look at MaxCount.
Observe(k, v) ==
  /\ Len(seen[k]) < MaxObserved
  /\ Accepted(k, v)
  /\ series' = [series EXCEPT ![k] = Observed(Current(k), v)]
  /\ seen' = [seen EXCEPT ![k] = Append(@, v)]
  /\ UNCHANGED <<disk, own, refused>>

\* Variant: the series is stored before the limits are checked.
ObserveLeavesNew(k, v) ==
  /\ ~Accepted(k, v)
  /\ series' = [series EXCEPT ![k] = Current(k)]
  /\ UNCHANGED <<seen, disk, own, refused>>

\* A refused observation leaves the histogram as it was.
ObserveRefused(k, v) ==
  /\ ~Accepted(k, v)
  /\ UNCHANGED vars

-----------------------------------------------------------------------------
(***************************************************************************)
(* The validator, _restore_checkpoint_series.                              *)
(***************************************************************************)
\* Added up from the first to the last, rounding after each or not at all.
Accumulated(values, rounding) ==
  LET partial[i \in 0 .. Len(values)] ==
        IF i = 0 THEN 0
        ELSE IF rounding THEN Rounded(partial[i - 1] + values[i])
        ELSE partial[i - 1] + values[i]
  IN  partial[Len(values)]

Total(values) == Accumulated(values, FALSE)

\* sum(): compensated, it rounds once.
Sum(values) ==
  IF Compensated THEN Rounded(Total(values)) ELSE Accumulated(values, TRUE)

AtMost(values, bound) == Cardinality({i \in DOMAIN values : values[i] <= bound})

\* The mean, total / count, against the extremes; the rounding of the quotient
\* is within the tolerance.
MeanWithin(s) ==
  \/ s.minimum * s.count <= s.total /\ s.total <= s.maximum * s.count
  \/ Close(s.total, s.minimum * s.count)
  \/ Close(s.total, s.maximum * s.count)

\* What is checked of every series.
Plausible(s) ==
  /\ s.count \in 1 .. MaxCount
  /\ {s.total, s.minimum, s.maximum} \subseteq Finite
  /\ s.minimum <= s.maximum /\ MeanWithin(s)
  /\ \A b \in Bucket : s.buckets[b] <= s.count
  /\ \A b, c \in Bucket : b < c => s.buckets[b] <= s.buckets[c]
  /\ Len(s.recent) = IF s.count < MaxSamples THEN s.count ELSE MaxSamples
  /\ \A i \in DOMAIN s.recent : s.recent[i] \in s.minimum .. s.maximum
  /\ \A b \in Bucket :
       /\ AtMost(s.recent, Bounds[b]) <= s.buckets[b]
       /\ (Bounds[b] < s.minimum) = (s.buckets[b] = 0)
       /\ (Bounds[b] >= s.maximum) = (s.buckets[b] = s.count)

\* What is checked of a series whose window still holds every observation.
Exact(s) ==
  /\ Close(Sum(s.recent), s.total)
  /\ s.minimum \in Range(s.recent) /\ s.maximum \in Range(s.recent)
  /\ \A b \in Bucket : s.buckets[b] = AtMost(s.recent, Bounds[b])

Valid(s) == Plausible(s) /\ (s.count = Len(s.recent) => Exact(s))

-----------------------------------------------------------------------------
(***************************************************************************)
(* Checkpoints.                                                            *)
(***************************************************************************)
Save ==
  /\ saved' = series
  /\ savedSeen' = seen
  /\ UNCHANGED <<memory, own, refused>>

\* A restart: what was observed since the checkpoint is gone; if one series is
\* refused the whole checkpoint is.
Load ==
  /\ saved # NoCheckpoint
  /\ IF \A k \in Key : saved[k] # NoSeries => Valid(saved[k])
     THEN series' = saved /\ seen' = savedSeen /\ UNCHANGED refused
     ELSE refused' = TRUE /\ UNCHANGED memory
  /\ UNCHANGED <<disk, own>>

\* A start from a checkpoint with one series that this program did not write.
LoadForeign(k) ==
  /\ Held = {} /\ saved = NoCheckpoint
  /\ \E s \in Foreign : Valid(s) /\ series' = [series EXCEPT ![k] = s]
  /\ own' = FALSE
  /\ UNCHANGED <<seen, disk, refused>>

-----------------------------------------------------------------------------
Init ==
  /\ series = [k \in Key |-> NoSeries]
  /\ seen = [k \in Key |-> <<>>]
  /\ saved = NoCheckpoint
  /\ savedSeen = seen
  /\ own = TRUE
  /\ refused = FALSE

Next ==
  \/ \E k \in Key, v \in Value : Observe(k, v) \/ ObserveRefused(k, v)
  \/ Save
  \/ Load
  \/ \E k \in Key : LoadForeign(k)

Spec == Init /\ [][Next]_vars

-----------------------------------------------------------------------------
(***************************************************************************)
(* _percentile by linear interpolation, times 100 to stay in the integers. *)
(***************************************************************************)

\* Variant: the window is not sorted.
RankedByAge(values, i) == values[i]

\* The i-th of the values in ascending order.
Ranked(values, i) ==
  CHOOSE v \in Range(values) :
    /\ AtMost(values, v) >= i
    /\ Cardinality({j \in DOMAIN values : values[j] < v}) < i

\* The observation at or below the position of percentile p, how far the next
\* one is from it, and how far the position lies between them, in hundredths.
Bracket(values, p) ==
  LET position == (Len(values) - 1) * p
      lower    == position \div 100
      upper    == IF lower + 1 < Len(values) THEN lower + 1 ELSE Len(values) - 1
      low      == Ranked(values, lower + 1)
  IN  [low |-> low, gap |-> Ranked(values, upper + 1) - low, fraction |-> position % 100]

\* A gap beyond the finite range is an infinite float, and so is the result,
\* or NaN when the fraction is 0.
IsFinite(values, p) == Bracket(values, p).gap <= MaxFinite

Percentile(values, p) ==
  LET at == Bracket(values, p) IN 100 * at.low + at.fraction * at.gap

-----------------------------------------------------------------------------
TypeOK ==
  /\ series \in [Key -> SeriesType \cup {NoSeries}]
  /\ saved \in [Key -> SeriesType \cup {NoSeries}] \cup {NoCheckpoint}
  /\ seen \in [Key -> Seq(Value)] /\ savedSeen \in [Key -> Seq(Value)]
  /\ {own, refused} \subseteq BOOLEAN
  /\ Cardinality(Held) <= MaxSeries

\* README.md:236: count, sum, minimum, maximum and buckets are those of all
\* observations, and the window holds the last of them, whatever was evicted,
\* refused, or lost and recovered in between.
AggregatesExact ==
  own => \A k \in Key :
    IF seen[k] = <<>> THEN series[k] = NoSeries
    ELSE series[k] =
      [count |-> Len(seen[k]), total |-> Total(seen[k]),
       minimum |-> Min(Range(seen[k])), maximum |-> Max(Range(seen[k])),
       buckets |-> [b \in Bucket |-> AtMost(seen[k], Bounds[b])],
       recent |-> SubSeq(seen[k], Max({1, Len(seen[k]) - MaxSamples + 1}), Len(seen[k]))]

\* Sums are exact: none has reached the significand, from where on they round.
SumsFit == \A k \in Held : Abs(series[k].total) < Significand

\* Checkpoints written elsewhere have the exact sum of a complete window.
ForeignExact ==
  \A s \in Foreign : Valid(s) /\ s.count = Len(s.recent) =>
    Total(s.recent) = s.total /\ Sum(s.recent) = s.total

\* What the validator says of the series of a table: it refuses one for its
\* count only.
RefusedForCountOnly(table) ==
  \A k \in Key : table[k] # NoSeries => (Valid(table[k]) <=> table[k].count <= MaxCount)

\* While sums are exact, what the validator demands of a series observing
\* preserves, also from a series written elsewhere (with exact sums, as above)
\* on: a checkpoint that the program wrote is refused when it starts again only
\* if a series has counted beyond _MAX_CHECKPOINT_HISTOGRAM_COUNT, which
\* observe() lets it do, and the validator does not.
SeriesStayLoadable ==
  /\ RefusedForCountOnly(series)
  /\ saved # NoCheckpoint => RefusedForCountOnly(saved)

\* The percentiles that are reported are ordered and within the extremes of
\* the window, provided its width is a finite float.
PercentilesWithinWindow ==
  \A k \in Held :
    LET window == series[k].recent
        low    == Min(Range(window))
        high   == Max(Range(window))
        of(p)  == Percentile(window, p)
    IN  high - low <= MaxFinite =>
          /\ 100 * low <= of(50) /\ of(50) <= of(90) /\ of(90) <= of(95)
          /\ of(95) <= of(99) /\ of(99) <= 100 * high

\* README.md:284, "Percentiles are exact only for the bounded recent sample
\* window": of finite observations in the window they are finite numbers.
PercentilesFinite ==
  \A k \in Held, p \in {50, 90, 95, 99} : IsFinite(series[k].recent, p)

\* README.md:27, "bounded, atomic JSON checkpoints for restartable local
\* processes": a checkpoint the program wrote is not refused when it starts again.
RestartsSucceed == ~refused
=============================================================================
