-------------------------- MODULE HTTPRestartProofs --------------------------
(***************************************************************************)
(* The properties of HTTPRestart, for any number of requests, methods,     *)
(* series, lines, savers and restarts.                                     *)
(***************************************************************************)
EXTENDS HTTPRestart, FiniteSetTheorems, TLAPS

-----------------------------------------------------------------------------
(***************************************************************************)
(* The inductive invariant.                                                *)
(***************************************************************************)
Instrument == {"active_requests", "request_duration_seconds", "requests_total"}

\* No key is observed that is not counted as often, unless counting it was
\* refused: then the counter has no room, and never will.
Backed(observed, counted) ==
  \A k \in DOMAIN observed :
    IF k \in DOMAIN counted THEN observed[k] <= counted[k]
    ELSE Cardinality(DOMAIN counted) = MaxSeries

\* Series only grow, and what they count as well.
Grown(old, new) == \A k \in DOMAIN old : k \in DOMAIN new /\ new[k] >= old[k]

\* The three instruments, read together or one after the other.
Sound(contents) ==
  /\ DOMAIN contents = Instrument
  /\ Series(ActiveLimit, Method, contents["active_requests"])
  /\ Series(MaxSeries, Key, contents["request_duration_seconds"])
  /\ Series(MaxSeries, Key, contents["requests_total"])
  /\ Backed(contents["request_duration_seconds"], contents["requests_total"])

LocalTypes ==
  /\ phase \in [Request -> Phase]
  /\ method \in [Request -> Method]
  /\ status \in [Request -> StatusClass]
  /\ recorded \in [Request -> BOOLEAN]
  /\ restarts \in 0 .. MaxRestarts

InstrumentTypes ==
  /\ Series(ActiveLimit, Method, active)
  /\ Series(MaxSeries, Key, requests)
  /\ Series(MaxSeries, Key, duration)

\* A request leaves the gauge only if it is in it, and its method then has a
\* series there.
LeavesWhatItEntered ==
  /\ \A r \in Request : phase[r] = "leave" => recorded[r]
  /\ \A m \in Method : InGauge(m) # {} => m \in DOMAIN active

\* A process has at least the series it started from.
BaseKept ==
  /\ Sound(base)
  /\ DOMAIN base["active_requests"] \subseteq DOMAIN active
  /\ DOMAIN base["request_duration_seconds"] \subseteq DOMAIN duration
  /\ DOMAIN base["requests_total"] \subseteq DOMAIN requests

\* The instruments have grown since the checkpoint.
SavedKept ==
  saved # NoPage =>
    /\ Sound(saved)
    /\ Grown(saved["request_duration_seconds"], duration)
    /\ Grown(saved["requests_total"], requests)

\* What a walk has read: less than there is now, and not less than there was in
\* the checkpoint when it began.
Read(d, old, observed, counted) ==
  /\ "active_requests" \in DOMAIN d => Series(ActiveLimit, Method, d["active_requests"])
  /\ "request_duration_seconds" \in DOMAIN d =>
       /\ Series(MaxSeries, Key, d["request_duration_seconds"])
       /\ Grown(d["request_duration_seconds"], observed)
       /\ Backed(d["request_duration_seconds"], counted)
  /\ "requests_total" \in DOMAIN d =>
       /\ "request_duration_seconds" \in DOMAIN d
       /\ Series(MaxSeries, Key, d["requests_total"])
       /\ Grown(d["requests_total"], counted)
       /\ Backed(d["request_duration_seconds"], d["requests_total"])
  /\ old # NoPage =>
       /\ Sound(old)
       /\ Grown(old["request_duration_seconds"],
                IF "request_duration_seconds" \in DOMAIN d THEN d["request_duration_seconds"]
                ELSE observed)
       /\ Grown(old["requests_total"],
                IF "requests_total" \in DOMAIN d THEN d["requests_total"] ELSE counted)

\* How far a walk is.
Place(t, d) ==
  \/ t = Names /\ DOMAIN d = {}
  \/ t = Tail(Names) /\ DOMAIN d = {"active_requests"}
  \/ t = Tail(Tail(Names)) /\ DOMAIN d = {"active_requests", "request_duration_seconds"}

SavesRead ==
  /\ unread \in [Saver -> {<<>>, Names, Tail(Names), Tail(Tail(Names))}]
  /\ DOMAIN payload = Saver /\ DOMAIN since = Saver
  /\ \A w \in Saver :
       /\ \/ Place(unread[w], payload[w])
          \/ unread[w] = <<>> /\ DOMAIN payload[w] = Instrument
          \/ unread[w] = <<>> /\ payload[w] = NoPage /\ since[w] = NoPage
       /\ Read(payload[w], since[w], duration, requests)

\* What the instruments that the scrape has not rendered add at the least.
Least(n) == IF n \in DOMAIN draft THEN 0 ELSE Shortest(n)

Pending == size + Least("active_requests") + Least("request_duration_seconds")
             + Least("requests_total")

ScrapeRead ==
  /\ Place(todo, draft) \/ (todo = <<>> /\ draft = NoPage /\ ~outgrown)
  /\ size \in 0 .. MaxLines /\ outgrown \in BOOLEAN
  /\ Read(draft, NoPage, duration, requests)
  /\ outgrown => Pending > MaxLines

IInv ==
  /\ LocalTypes /\ InstrumentTypes
  /\ LeavesWhatItEntered /\ ActiveCountsInGauge
  /\ CompletionsCountedOnce /\ Backed(duration, requests)
  /\ BaseKept /\ SavedKept
  /\ ScrapeRead /\ SavesRead

-----------------------------------------------------------------------------
(***************************************************************************)
(* Sets and series.                                                        *)
(***************************************************************************)
\* Labels are finitely many, and so are requests.
LEMMA Finite ==
  /\ IsFiniteSet(Method) /\ IsFiniteSet(Key)
  /\ ActiveLimit \in Nat /\ MaxSeries \in Nat
  /\ \A S \in SUBSET Request : IsFiniteSet(S) /\ Cardinality(S) \in Nat
<1>1. IsFiniteSet(Method)
  BY MethodAssumption, FS_AddElement DEF Method
<1>2. IsFiniteSet(StatusClass)
  <2>1. \A a, b \in Int : IsFiniteSet(a .. b)
    BY FS_Interval
  <2>2. 0 \in Int /\ 5 \in Int
    OBVIOUS
  <2> QED
    BY <2>1, <2>2, Zenon DEF StatusClass
<1>3. IsFiniteSet(Key)
  BY <1>1, <1>2, FS_Product DEF Key
<1>4. ActiveLimit \in Nat /\ MaxSeries \in Nat
  BY <1>1, SeriesAssumption, FS_CardinalityType DEF ActiveLimit
<1>5. \A S \in SUBSET Request : IsFiniteSet(S) /\ Cardinality(S) \in Nat
  BY RequestAssumption, FS_Subset, FS_CardinalityType
<1> QED
  BY <1>1, <1>3, <1>4, <1>5

\* The series of an instrument are finitely many.
LEMMA SeriesFinite ==
  ASSUME NEW K, IsFiniteSet(K), NEW values, NEW max \in Nat, Series(max, K, values)
  PROVE  IsFiniteSet(DOMAIN values) /\ Cardinality(DOMAIN values) \in Nat
BY FS_Subset, FS_CardinalityType DEF Series

\* A full instrument gets no series.
LEMMA FullStays ==
  ASSUME NEW K, IsFiniteSet(K), NEW old, NEW new, NEW max \in Nat,
         Series(max, K, new), DOMAIN old \subseteq DOMAIN new, Cardinality(DOMAIN old) = max
  PROVE  DOMAIN new = DOMAIN old
<1>1. IsFiniteSet(DOMAIN new) /\ Cardinality(DOMAIN new) \in Nat /\ Cardinality(DOMAIN new) <= max
  BY SeriesFinite DEF Series
<1>2. Cardinality(DOMAIN old) <= Cardinality(DOMAIN new)
      /\ (Cardinality(DOMAIN new) = Cardinality(DOMAIN old) => DOMAIN new = DOMAIN old)
  BY <1>1, FS_Subset
<1> QED
  BY <1>1, <1>2

\* What one operation of an instrument does to its series.
LEMMA RecordedSeries ==
  ASSUME NEW K, IsFiniteSet(K), NEW max \in Nat, NEW values, Series(max, K, values),
         NEW key \in K, NEW amount \in Int,
         key \in DOMAIN values => values[key] + amount \in Nat,
         key \notin DOMAIN values => amount \in Nat
  PROVE  LET new == Recorded(values, key, amount, max)
         IN  /\ Series(max, K, new)
             /\ DOMAIN values \subseteq DOMAIN new /\ DOMAIN new \subseteq DOMAIN values \cup {key}
             /\ \A k \in DOMAIN values : new[k] = values[k] + (IF k = key THEN amount ELSE 0)
             /\ key \in DOMAIN new \ DOMAIN values =>
                  new[key] = amount /\ Cardinality(DOMAIN values) < max
             /\ key \notin DOMAIN new => Cardinality(DOMAIN new) = max
             /\ key \in DOMAIN new <=> Fits(values, key, max)
<1> DEFINE new == Recorded(values, key, amount, max)
<1>1. /\ IsFiniteSet(DOMAIN values) /\ Cardinality(DOMAIN values) \in Nat
      /\ DOMAIN values \subseteq K /\ Cardinality(DOMAIN values) <= max
      /\ \A k \in DOMAIN values : values[k] \in Nat
  BY SeriesFinite DEF Series
<1>2. CASE Fits(values, key, max)
  <2>1. /\ DOMAIN new = DOMAIN values \cup {key}
        /\ \A k \in DOMAIN values : new[k] = values[k] + (IF k = key THEN amount ELSE 0)
        /\ key \notin DOMAIN values => new[key] = amount
    BY <1>2 DEF Recorded, Added
  <2>2. Cardinality(DOMAIN new) <= max
    <3>1. CASE key \in DOMAIN values
      <4>1. DOMAIN new = DOMAIN values
        BY <2>1, <3>1
      <4> QED
        BY <1>1, <4>1
    <3>2. CASE key \notin DOMAIN values
      <4>1. Cardinality(DOMAIN new) = Cardinality(DOMAIN values) + 1
        BY <1>1, <2>1, <3>2, FS_AddElement
      <4>2. Cardinality(DOMAIN values) < max
        BY <1>2, <3>2 DEF Fits
      <4> QED
        BY <1>1, <4>1, <4>2
    <3> QED
      BY <3>1, <3>2
  <2> HIDE DEF new
  <2>3. \A k \in DOMAIN new : new[k] \in Nat
    BY <1>1, <2>1
  <2>4. Series(max, K, new)
    BY <1>1, <2>1, <2>2, <2>3 DEF Series
  <2>5. key \notin DOMAIN values => Cardinality(DOMAIN values) < max
    BY <1>2 DEF Fits
  <2> QED
    BY <1>2, <2>1, <2>4, <2>5 DEF new
<1>3. CASE ~Fits(values, key, max)
  <2>1. new = values
    BY <1>3 DEF Recorded
  <2>2. key \notin DOMAIN values /\ Cardinality(DOMAIN values) = max
    BY <1>1, <1>3 DEF Fits
  <2>3. \A k \in DOMAIN values : k # key /\ values[k] = values[k] + 0
    BY <1>1, <2>2
  <2> QED
    BY <1>3, <2>1, <2>2, <2>3
<1> QED
  BY <1>2, <1>3

\* Series that grow stay ahead of what they were ahead of.
LEMMA BackedByMore ==
  ASSUME NEW observed, NEW old, NEW new, Backed(observed, old), Grown(old, new),
         Series(MaxSeries, Key, observed), Series(MaxSeries, Key, old), Series(MaxSeries, Key, new)
  PROVE  Backed(observed, new)
<1>1. SUFFICES ASSUME NEW k \in DOMAIN observed
               PROVE  IF k \in DOMAIN new THEN observed[k] <= new[k]
                      ELSE Cardinality(DOMAIN new) = MaxSeries
  BY DEF Backed
<1>2. CASE k \in DOMAIN old
  <2>1. observed[k] \in Nat /\ old[k] \in Nat /\ k \in DOMAIN new /\ new[k] \in Nat
    BY <1>2 DEF Series, Grown
  <2>2. observed[k] <= old[k] /\ old[k] <= new[k]
    BY <1>2, <2>1 DEF Backed, Grown
  <2> QED
    BY <2>1, <2>2
<1>3. CASE k \notin DOMAIN old
  <2>1. Cardinality(DOMAIN old) = MaxSeries /\ DOMAIN old \subseteq DOMAIN new
    BY <1>3 DEF Backed, Grown
  <2>2. DOMAIN new = DOMAIN old
    BY <2>1, Finite, FullStays
  <2> QED
    BY <1>3, <2>1, <2>2
<1> QED
  BY <1>2, <1>3

\* Growing is transitive, and what does not change grows.
LEMMA GrownOnce ==
  ASSUME NEW a, NEW b, NEW c, Series(MaxSeries, Key, a), Series(MaxSeries, Key, b),
         Series(MaxSeries, Key, c)
  PROVE  /\ Grown(a, a)
         /\ Grown(a, b) /\ Grown(b, c) => Grown(a, c)
<1>1. Grown(a, a)
  BY DEF Grown, Series
<1>2. ASSUME Grown(a, b), Grown(b, c), NEW k \in DOMAIN a
      PROVE  k \in DOMAIN c /\ c[k] >= a[k]
  <2>1. k \in DOMAIN b /\ k \in DOMAIN c /\ a[k] \in Nat /\ b[k] \in Nat /\ c[k] \in Nat
    BY <1>2 DEF Grown, Series
  <2>2. b[k] >= a[k] /\ c[k] >= b[k]
    BY <1>2, <2>1 DEF Grown
  <2> QED
    BY <2>1, <2>2
<1> QED
  BY <1>1, <1>2 DEF Grown

\* The order of a walk.
LEMMA NamesInOrder ==
  /\ Range(Names) = Instrument /\ Names # <<>> /\ Len(Names) = 3
  /\ Names[1] = "active_requests" /\ Names[2] = "request_duration_seconds"
  /\ Names[3] = "requests_total" /\ Head(Names) = "active_requests"
  /\ Tail(Names) = <<"request_duration_seconds", "requests_total">>
  /\ Tail(Tail(Names)) = <<"requests_total">> /\ Tail(Tail(Tail(Names))) = <<>>
  /\ Len(Tail(Names)) = 2 /\ Len(Tail(Tail(Names))) = 1
BY DEF Range, Names, Instrument

\* An instrument without series is the shortest, and series only add to it.
LEMMA LinesGrow ==
  ASSUME InstrumentTypes, InstrumentTypes', DOMAIN active \subseteq DOMAIN active',
         DOMAIN requests \subseteq DOMAIN requests', DOMAIN duration \subseteq DOMAIN duration',
         NEW n \in Instrument
  PROVE  Shortest(n) \in Nat /\ Shortest(n)' \in Nat /\ Shortest(n) <= Shortest(n)'
<1>1. ASSUME NEW K, IsFiniteSet(K), NEW max \in Nat, NEW old, NEW new,
             Series(max, K, old), Series(max, K, new), DOMAIN old \subseteq DOMAIN new
      PROVE  /\ Cardinality(DOMAIN old) \in Nat /\ Cardinality(DOMAIN new) \in Nat
             /\ Cardinality(DOMAIN old) <= Cardinality(DOMAIN new)
  <2>1. /\ IsFiniteSet(DOMAIN new) /\ Cardinality(DOMAIN new) \in Nat
        /\ Cardinality(DOMAIN old) \in Nat
    BY <1>1, SeriesFinite
  <2> QED
    BY <1>1, <2>1, FS_Subset
<1>2. /\ Cardinality(DOMAIN active) \in Nat /\ Cardinality(DOMAIN active') \in Nat
      /\ Cardinality(DOMAIN active) <= Cardinality(DOMAIN active')
  BY <1>1, Finite DEF InstrumentTypes
<1>3. /\ Cardinality(DOMAIN duration) \in Nat /\ Cardinality(DOMAIN duration') \in Nat
      /\ Cardinality(DOMAIN duration) <= Cardinality(DOMAIN duration')
  BY <1>1, Finite DEF InstrumentTypes
<1>4. /\ Cardinality(DOMAIN requests) \in Nat /\ Cardinality(DOMAIN requests') \in Nat
      /\ Cardinality(DOMAIN requests) <= Cardinality(DOMAIN requests')
  BY <1>1, Finite DEF InstrumentTypes
<1> HIDE DEF InstrumentTypes
<1>5. \A i, j \in Nat : i <= j => /\ 2 + 4 * i \in Nat /\ 2 + 4 * i <= 2 + 4 * j
                               /\ 2 + i \in Nat /\ 2 + i <= 2 + j
  OBVIOUS
<1>6. CASE n = "active_requests"
  BY <1>2, <1>5, <1>6 DEF Shortest, Values, Contents
<1>7. CASE n = "request_duration_seconds"
  BY <1>3, <1>5, <1>7 DEF Shortest, Values, Contents
<1>8. CASE n = "requests_total"
  BY <1>4, <1>5, <1>8 DEF Shortest, Values, Contents
<1> QED
  BY <1>6, <1>7, <1>8 DEF Instrument

\* What an instrument adds to the page is at least its shortest rendering.
LEMMA WidthsTyped ==
  ASSUME InstrumentTypes, NEW n \in Instrument, NEW width \in Widths(n)
  PROVE  Shortest(n) \in Nat /\ width \in Nat /\ Shortest(n) <= width
<1>1. /\ Cardinality(DOMAIN active) \in Nat /\ Cardinality(DOMAIN duration) \in Nat
      /\ Cardinality(DOMAIN requests) \in Nat
  BY Finite, SeriesFinite DEF InstrumentTypes
<1>2. Values(n) \in Nat
  BY <1>1 DEF Values, Contents, Instrument
<1>3. Shortest(n) \in Nat
  BY <1>2 DEF Shortest
<1>4. Spread * Values(n) \in Nat
  BY <1>2, LinesAssumption
<1> QED
  BY <1>3, <1>4 DEF Widths

\* The sum that CompletionsCountedOnce states, of one key.
Counts(values, before, reached, k) ==
  /\ k \in DOMAIN values => values[k] = Value(before, k) + Cardinality(reached)
  /\ k \notin DOMAIN values /\ reached # {} => Cardinality(DOMAIN values) = MaxSeries

LEMMA CompletionsByKey ==
  CompletionsCountedOnce <=>
    \A k \in Key :
      /\ Counts(requests, base["requests_total"], Counted(k), k)
      /\ Counts(duration, base["request_duration_seconds"], Observed(k), k)
BY DEF CompletionsCountedOnce, Complete, Contents, Counts

\* What a process started from counts.
LEMMA ValueTyped ==
  ASSUME NEW K, NEW max, NEW b, Series(max, K, b), NEW k
  PROVE  Value(b, k) \in Nat
BY DEF Value, Series

\* A completion that reaches an instrument is counted there, or refused for good.
LEMMA CountStep ==
  ASSUME NEW values, Series(MaxSeries, Key, values),
         NEW b, Series(MaxSeries, Key, b), DOMAIN b \subseteq DOMAIN values,
         NEW key \in Key, NEW S \in SUBSET Request, NEW r \in Request, r \notin S,
         Counts(values, b, S, key)
  PROVE  LET new == Recorded(values, key, 1, MaxSeries)
         IN  /\ Series(MaxSeries, Key, new) /\ Grown(values, new)
             /\ Counts(new, b, S \cup {r}, key)
             /\ \A k \in Key \ {key}, T \in SUBSET Request :
                  Counts(values, b, T, k) => Counts(new, b, T, k)
<1> DEFINE new == Recorded(values, key, 1, MaxSeries)
<1>1. \A k \in DOMAIN values : values[k] \in Nat
  BY DEF Series
<1>2. /\ Series(MaxSeries, Key, new)
      /\ DOMAIN values \subseteq DOMAIN new /\ DOMAIN new \subseteq DOMAIN values \cup {key}
      /\ \A k \in DOMAIN values : new[k] = values[k] + (IF k = key THEN 1 ELSE 0)
      /\ key \in DOMAIN new \ DOMAIN values =>
           new[key] = 1 /\ Cardinality(DOMAIN values) < MaxSeries
      /\ key \notin DOMAIN new => Cardinality(DOMAIN new) = MaxSeries
  <2>1. key \in DOMAIN values => values[key] + 1 \in Nat
    BY <1>1
  <2> QED
    BY <2>1, Finite, RecordedSeries
<1> HIDE DEF new
<1>3. Grown(values, new)
  BY <1>1, <1>2 DEF Grown
<1>4. Cardinality(DOMAIN values) \in Nat /\ MaxSeries \in Nat
  BY Finite, SeriesFinite
<1>5. Cardinality(S) \in Nat /\ Cardinality(S \cup {r}) = Cardinality(S) + 1 /\ Value(b, key) \in Nat
  BY Finite, FS_AddElement, ValueTyped
<1>6. Counts(new, b, S \cup {r}, key)
  <2>1. CASE key \in DOMAIN values
    <3>1. new[key] = values[key] + 1 /\ values[key] = Value(b, key) + Cardinality(S)
      BY <1>2, <2>1 DEF Counts
    <3> QED
      BY <1>2, <1>5, <2>1, <3>1 DEF Counts
  <2>2. CASE key \in DOMAIN new \ DOMAIN values
    <3>1. S = {} /\ Value(b, key) = 0
      BY <1>2, <1>4, <2>2 DEF Counts, Value
    <3>2. Cardinality(S) = 0
      BY <3>1, FS_EmptySet
    <3>3. new[key] = 1
      BY <1>2, <2>2
    <3> QED
      BY <2>2, <1>5, <3>1, <3>2, <3>3 DEF Counts
  <2>3. CASE key \notin DOMAIN new
    BY <1>2, <2>3 DEF Counts
  <2> QED
    BY <2>1, <2>2, <2>3
<1>7. ASSUME NEW k \in Key \ {key}, NEW T \in SUBSET Request, Counts(values, b, T, k)
      PROVE  Counts(new, b, T, k)
  <2>1. CASE k \in DOMAIN values
    <3>1. k \in DOMAIN new /\ new[k] = values[k]
      BY <1>1, <1>2, <2>1
    <3> QED
      BY <1>7, <2>1, <3>1 DEF Counts
  <2>2. CASE k \notin DOMAIN values
    <3>1. k \notin DOMAIN new
      BY <1>2, <2>2
    <3>2. ASSUME T # {}
          PROVE  Cardinality(DOMAIN new) = MaxSeries
      <4>1. Cardinality(DOMAIN values) = MaxSeries
        BY <1>7, <2>2, <3>2 DEF Counts
      <4>2. key \notin DOMAIN new \ DOMAIN values
        BY <1>2, <1>4, <4>1
      <4>3. DOMAIN new = DOMAIN values
        BY <1>2, <4>2
      <4> QED
        BY <4>1, <4>3
    <3> QED
      BY <3>1, <3>2 DEF Counts
  <2> QED
    BY <2>1, <2>2
<1> QED
  BY <1>2, <1>3, <1>6, <1>7 DEF new

-----------------------------------------------------------------------------
(***************************************************************************)
(* Requests.                                                               *)
(***************************************************************************)
\* Pending only grows when the instruments do.
LEMMA PendingGrows ==
  ASSUME IInv, InstrumentTypes', DOMAIN active \subseteq DOMAIN active',
         DOMAIN requests \subseteq DOMAIN requests', DOMAIN duration \subseteq DOMAIN duration',
         UNCHANGED <<draft, size>>
  PROVE  Pending \in Nat /\ Pending' \in Nat /\ Pending <= Pending'
<1>1. ASSUME NEW n \in Instrument
      PROVE  Least(n) \in Nat /\ Least(n)' \in Nat /\ Least(n) <= Least(n)'
  <2>1. Shortest(n) \in Nat /\ Shortest(n)' \in Nat /\ Shortest(n) <= Shortest(n)'
    BY LinesGrow DEF IInv
  <2>2. 0 \in Nat /\ 0 <= 0
    OBVIOUS
  <2>3. Least(n)' = IF n \in DOMAIN draft THEN 0 ELSE Shortest(n)'
    BY DEF Least
  <2> QED
    BY <2>1, <2>2, <2>3 DEF Least
<1>2. size \in Nat /\ size' = size
  BY LinesAssumption DEF IInv, ScrapeRead
<1>3. /\ Least("active_requests") \in Nat /\ Least("active_requests")' \in Nat
      /\ Least("active_requests") <= Least("active_requests")'
  BY <1>1 DEF Instrument
<1>4. /\ Least("request_duration_seconds") \in Nat /\ Least("request_duration_seconds")' \in Nat
      /\ Least("request_duration_seconds") <= Least("request_duration_seconds")'
  BY <1>1 DEF Instrument
<1>5. /\ Least("requests_total") \in Nat /\ Least("requests_total")' \in Nat
      /\ Least("requests_total") <= Least("requests_total")'
  BY <1>1 DEF Instrument
<1>6. Pending' = size' + Least("active_requests")' + Least("request_duration_seconds")'
                   + Least("requests_total")'
  BY DEF Pending
<1> QED
  BY <1>2, <1>3, <1>4, <1>5, <1>6 DEF Pending

\* The series that a walk or a checkpoint is compared with.
LEMMA NowTyped ==
  ASSUME InstrumentTypes
  PROVE  Series(MaxSeries, Key, requests) /\ Series(MaxSeries, Key, duration)
BY DEF InstrumentTypes

\* What a walk has read stays true while the instruments grow.
LEMMA ReadKept ==
  ASSUME NEW d, NEW old, NEW o, NEW c, NEW observed, NEW counted,
         Series(MaxSeries, Key, o), Series(MaxSeries, Key, c),
         Series(MaxSeries, Key, observed), Series(MaxSeries, Key, counted),
         Read(d, old, o, c), Grown(o, observed), Grown(c, counted)
  PROVE  Read(d, old, observed, counted)
<1>2. ASSUME "request_duration_seconds" \in DOMAIN d
      PROVE  /\ Series(MaxSeries, Key, d["request_duration_seconds"])
             /\ Grown(d["request_duration_seconds"], observed)
             /\ Backed(d["request_duration_seconds"], counted)
  <2>1. /\ Series(MaxSeries, Key, d["request_duration_seconds"])
        /\ Grown(d["request_duration_seconds"], o)
        /\ Backed(d["request_duration_seconds"], c)
    BY <1>2 DEF Read
  <2> QED
    BY <2>1, GrownOnce, BackedByMore
<1>3. ASSUME "requests_total" \in DOMAIN d
      PROVE  /\ "request_duration_seconds" \in DOMAIN d
             /\ Series(MaxSeries, Key, d["requests_total"])
             /\ Grown(d["requests_total"], counted)
             /\ Backed(d["request_duration_seconds"], d["requests_total"])
  <2>1. /\ "request_duration_seconds" \in DOMAIN d
        /\ Series(MaxSeries, Key, d["requests_total"])
        /\ Grown(d["requests_total"], c)
        /\ Backed(d["request_duration_seconds"], d["requests_total"])
    BY <1>3 DEF Read
  <2> QED
    BY <2>1, GrownOnce
<1>4. ASSUME old # NoPage
      PROVE  /\ Sound(old)
             /\ Grown(old["request_duration_seconds"],
                      IF "request_duration_seconds" \in DOMAIN d THEN d["request_duration_seconds"]
                      ELSE observed)
             /\ Grown(old["requests_total"],
                      IF "requests_total" \in DOMAIN d THEN d["requests_total"] ELSE counted)
  <2>1. /\ Sound(old)
        /\ Series(MaxSeries, Key, old["request_duration_seconds"])
        /\ Series(MaxSeries, Key, old["requests_total"])
    BY <1>4 DEF Read, Sound
  <2>2. "request_duration_seconds" \notin DOMAIN d => Grown(old["request_duration_seconds"], observed)
    <3>1. "request_duration_seconds" \notin DOMAIN d => Grown(old["request_duration_seconds"], o)
      BY <1>4 DEF Read
    <3> QED
      BY <2>1, <3>1, GrownOnce
  <2>3. "requests_total" \notin DOMAIN d => Grown(old["requests_total"], counted)
    <3>1. "requests_total" \notin DOMAIN d => Grown(old["requests_total"], c)
      BY <1>4 DEF Read
    <3> QED
      BY <2>1, <3>1, GrownOnce
  <2> QED
    BY <1>4, <2>1, <2>2, <2>3 DEF Read
<1>5. "active_requests" \in DOMAIN d => Series(ActiveLimit, Method, d["active_requests"])
  BY DEF Read
<1> QED
  BY <1>2, <1>3, <1>4, <1>5 DEF Read

\* What walks have read and a checkpoint has saved stays true while the
\* instruments grow.
LEMMA RestStep ==
  ASSUME IInv, InstrumentTypes', DOMAIN active \subseteq DOMAIN active',
         Grown(requests, requests'), Grown(duration, duration'),
         UNCHANGED <<scrape, life>>
  PROVE  BaseKept' /\ SavedKept' /\ ScrapeRead' /\ SavesRead'
<1>1. UNCHANGED <<todo, draft, size, outgrown, unread, payload, since, saved, base>>
  BY DEF scrape, life, saves
<1>2. DOMAIN requests \subseteq DOMAIN requests' /\ DOMAIN duration \subseteq DOMAIN duration'
  BY DEF Grown
<1>3. /\ Series(MaxSeries, Key, requests) /\ Series(MaxSeries, Key, requests')
      /\ Series(MaxSeries, Key, duration) /\ Series(MaxSeries, Key, duration')
  BY DEF IInv, InstrumentTypes
<1>4. BaseKept'
  BY <1>1, <1>2 DEF IInv, BaseKept, Sound, Backed, Series
<1>5. SavedKept'
  <2> SUFFICES ASSUME saved # NoPage
               PROVE  /\ Grown(saved["request_duration_seconds"], duration')
                      /\ Grown(saved["requests_total"], requests')
    BY <1>1 DEF IInv, SavedKept, Sound, Backed, Series
  <2>1. /\ Series(MaxSeries, Key, saved["request_duration_seconds"])
        /\ Series(MaxSeries, Key, saved["requests_total"])
        /\ Grown(saved["request_duration_seconds"], duration)
        /\ Grown(saved["requests_total"], requests)
    BY DEF IInv, SavedKept, Sound
  <2> QED
    BY <1>3, <2>1, GrownOnce
<1>6. ScrapeRead'
  <2>1. Pending \in Nat /\ Pending' \in Nat /\ Pending <= Pending'
    BY <1>1, <1>2, PendingGrows
  <2>2. outgrown' => Pending' > MaxLines
    <3>1. outgrown => Pending > MaxLines
      BY DEF IInv, ScrapeRead
    <3> QED
      BY <1>1, <2>1, <3>1, LinesAssumption
  <2>3. Read(draft, NoPage, duration, requests)
    BY DEF IInv, ScrapeRead
  <2>4. Read(draft, NoPage, duration', requests')
    BY <1>3, <2>3, ReadKept
  <2>6. NoPage' = NoPage
    BY DEF NoPage
  <2>5. /\ Place(todo, draft)' \/ (todo' = <<>> /\ draft' = NoPage /\ ~outgrown')
        /\ size' \in 0 .. MaxLines /\ outgrown' \in BOOLEAN
    BY <1>1 DEF IInv, ScrapeRead, Place
  <2> QED
    BY <1>1, <2>2, <2>4, <2>5, <2>6 DEF ScrapeRead
<1>7. SavesRead'
  <2>1. ASSUME NEW w \in Saver
        PROVE  Read(payload[w], since[w], duration', requests')
    <3>1. Read(payload[w], since[w], duration, requests)
      BY DEF IInv, SavesRead
    <3> QED
      BY <1>3, <3>1, ReadKept
  <2> QED
    BY <1>1, <2>1 DEF IInv, SavesRead, Place
<1> QED
  BY <1>4, <1>5, <1>6, <1>7

\* A step between the instruments: nobody enters or leaves, nothing completes.
LEMMA LocalStep ==
  ASSUME IInv, UNCHANGED instruments, LocalTypes',
         \A r \in Request : phase'[r] = "leave" => recorded'[r],
         \A m \in Method : InGauge(m)' = InGauge(m),
         \A k \in Key : Counted(k)' = Counted(k) /\ Observed(k)' = Observed(k),
         UNCHANGED <<scrape, life>>
  PROVE  IInv'
<1>1. UNCHANGED <<active, requests, duration, base>>
  BY DEF instruments, life
<1>2. InstrumentTypes'
  BY <1>1 DEF IInv, InstrumentTypes, Series
<1>3. LeavesWhatItEntered' /\ ActiveCountsInGauge'
  BY <1>1 DEF IInv, LeavesWhatItEntered, ActiveCountsInGauge, Value
<1>4. CompletionsCountedOnce'
  <2>1. \A k \in Key :
          /\ Counts(requests, base["requests_total"], Counted(k), k)
          /\ Counts(duration, base["request_duration_seconds"], Observed(k), k)
    BY CompletionsByKey DEF IInv
  <2>2. \A k \in Key :
          /\ Counts(requests', base'["requests_total"], Counted(k)', k)
          /\ Counts(duration', base'["request_duration_seconds"], Observed(k)', k)
    BY <1>1, <2>1
  <2> QED
    BY <2>2 DEF CompletionsCountedOnce, Complete, Contents, Counts, Value
<1>5. Backed(duration, requests)'
  BY <1>1 DEF IInv, Backed
<1>6. Grown(requests, requests') /\ Grown(duration, duration')
  BY <1>1, GrownOnce DEF IInv, InstrumentTypes
<1>7. BaseKept' /\ SavedKept' /\ ScrapeRead' /\ SavesRead'
  BY <1>1, <1>2, <1>6, RestStep
<1> QED
  BY <1>2, <1>3, <1>4, <1>5, <1>7 DEF IInv

\* The rest of what a step of the gauge leaves alone.
LEMMA GaugeStep ==
  ASSUME IInv, UNCHANGED <<requests, duration>>, LocalTypes', Series(ActiveLimit, Method, active'),
         DOMAIN active \subseteq DOMAIN active', LeavesWhatItEntered', ActiveCountsInGauge',
         \A k \in Key : Counted(k)' = Counted(k) /\ Observed(k)' = Observed(k),
         UNCHANGED <<scrape, life>>
  PROVE  IInv'
<1>0. UNCHANGED base
  BY DEF life
<1>1. InstrumentTypes'
  BY DEF IInv, InstrumentTypes, Series
<1>2. CompletionsCountedOnce'
  <2>1. \A k \in Key :
          /\ Counts(requests, base["requests_total"], Counted(k), k)
          /\ Counts(duration, base["request_duration_seconds"], Observed(k), k)
    BY CompletionsByKey DEF IInv
  <2>2. \A k \in Key :
          /\ Counts(requests', base'["requests_total"], Counted(k)', k)
          /\ Counts(duration', base'["request_duration_seconds"], Observed(k)', k)
    BY <1>0, <2>1
  <2> QED
    BY <2>2 DEF CompletionsCountedOnce, Complete, Contents, Counts, Value
<1>3. Backed(duration, requests)'
  BY DEF IInv, Backed
<1>4. Grown(requests, requests') /\ Grown(duration, duration')
  BY GrownOnce DEF IInv, InstrumentTypes
<1>5. BaseKept' /\ SavedKept' /\ ScrapeRead' /\ SavesRead'
  BY <1>1, <1>4, RestStep
<1> QED
  BY <1>1, <1>2, <1>3, <1>5 DEF IInv

\* A request enters the gauge, or is refused there and known not to be in it.
LEMMA BeginStep ==
  ASSUME IInv, NEW r \in Request, NEW m \in Method, Begin(r, m),
         UNCHANGED <<scrape, life>>
  PROVE  IInv'
<1>1. /\ phase[r] = "new" /\ phase' = [phase EXCEPT ![r] = "app"]
      /\ method' = [method EXCEPT ![r] = m]
      /\ recorded' = [recorded EXCEPT ![r] = Fits(active, m, ActiveLimit)]
      /\ active' = Recorded(active, m, 1, ActiveLimit)
      /\ UNCHANGED <<status, requests, duration, base, restarts>>
  BY DEF Begin, life
<1>2. LocalTypes'
  BY <1>1 DEF IInv, LocalTypes, Phase, Fits
<1>3. /\ phase \in [Request -> Phase] /\ method \in [Request -> Method]
      /\ recorded \in [Request -> BOOLEAN]
  BY DEF IInv, LocalTypes
<1>4. Series(ActiveLimit, Method, active) /\ \A n \in DOMAIN active : active[n] \in Nat
  BY DEF IInv, InstrumentTypes, Series
<1>5. /\ Series(ActiveLimit, Method, active')
      /\ DOMAIN active \subseteq DOMAIN active' /\ DOMAIN active' \subseteq DOMAIN active \cup {m}
      /\ \A n \in DOMAIN active : active'[n] = active[n] + (IF n = m THEN 1 ELSE 0)
      /\ m \in DOMAIN active' \ DOMAIN active => active'[m] = 1
      /\ m \in DOMAIN active' <=> Fits(active, m, ActiveLimit)
  <2>1. m \in DOMAIN active => active[m] + 1 \in Nat
    BY <1>4
  <2> QED
    BY <1>1, <1>4, <2>1, Finite, RecordedSeries
<1>6. \A k \in Key : Counted(k)' = Counted(k) /\ Observed(k)' = Observed(k)
  BY <1>1, <1>3 DEF Counted, Observed, KeyOf
<1>7. \A n \in Method \ {m} : InGauge(n)' = InGauge(n)
  BY <1>1, <1>3 DEF InGauge
<1>8. r \notin InGauge(m) /\ InGauge(m)' = IF m \in DOMAIN active' THEN InGauge(m) \cup {r} ELSE InGauge(m)
  BY <1>1, <1>3, <1>5 DEF InGauge
<1>9. LeavesWhatItEntered'
  <2>1. \A q \in Request : phase'[q] = "leave" => recorded'[q]
    BY <1>1, <1>3 DEF IInv, LeavesWhatItEntered
  <2>2. \A n \in Method : InGauge(n)' # {} => n \in DOMAIN active'
    BY <1>5, <1>7, <1>8 DEF IInv, LeavesWhatItEntered
  <2> QED
    BY <2>1, <2>2 DEF LeavesWhatItEntered
<1>10. ActiveCountsInGauge'
  <2>1. ASSUME NEW n \in Method
        PROVE  Value(active', n) = Value(base["active_requests"], n) + Cardinality(InGauge(n)')
    <3>1. Value(active, n) = Value(base["active_requests"], n) + Cardinality(InGauge(n))
      BY DEF IInv, ActiveCountsInGauge
    <3>2. CASE n = m /\ m \in DOMAIN active'
      <4>1. Value(active', m) = Value(active, m) + 1
        BY <1>4, <1>5, <3>2 DEF Value
      <4>2. InGauge(m) \in SUBSET Request
        BY DEF InGauge
      <4>3. Cardinality(InGauge(m)') = Cardinality(InGauge(m)) + 1 /\ Cardinality(InGauge(m)) \in Nat
        BY <1>8, <3>2, <4>2, Finite, FS_AddElement
      <4>4. Value(base["active_requests"], m) \in Nat
        BY ValueTyped DEF IInv, BaseKept, Sound
      <4> QED
        BY <3>1, <3>2, <4>1, <4>3, <4>4
    <3>3. CASE ~(n = m /\ m \in DOMAIN active')
      <4>1. Value(active', n) = Value(active, n)
        BY <1>4, <1>5, <3>3 DEF Value
      <4>2. InGauge(n)' = InGauge(n)
        BY <1>7, <1>8, <3>3
      <4> QED
        BY <3>1, <4>1, <4>2
    <3> QED
      BY <3>2, <3>3
  <2> QED
    BY <1>1, <2>1 DEF ActiveCountsInGauge, Value
<1> QED
  BY <1>1, <1>2, <1>5, <1>6, <1>9, <1>10, GaugeStep

\* A request in the gauge leaves it.
LEMMA LeaveStep ==
  ASSUME IInv, NEW r \in Request, Leave(r),
         UNCHANGED <<scrape, life>>
  PROVE  IInv'
<1>0. PICK m \in Method : m = method[r]
  BY DEF IInv, LocalTypes
<1>1. /\ phase[r] = "leave" /\ phase' = [phase EXCEPT ![r] = "count"]
      /\ active' = Recorded(active, m, -1, ActiveLimit)
      /\ UNCHANGED <<method, status, recorded, requests, duration, base, restarts>>
  BY <1>0 DEF Leave, life
<1>2. LocalTypes'
  BY <1>1 DEF IInv, LocalTypes, Phase
<1>3. /\ phase \in [Request -> Phase] /\ method \in [Request -> Method]
      /\ recorded \in [Request -> BOOLEAN]
  BY DEF IInv, LocalTypes
<1>4. Series(ActiveLimit, Method, active) /\ \A n \in DOMAIN active : active[n] \in Nat
  BY DEF IInv, InstrumentTypes, Series
<1>5. r \in InGauge(m) /\ m \in DOMAIN active
  <2>1. r \in InGauge(m)
    BY <1>0, <1>1 DEF IInv, LeavesWhatItEntered, InGauge
  <2> QED
    BY <1>3, <2>1 DEF IInv, LeavesWhatItEntered
<1>6. /\ InGauge(m) \in SUBSET Request /\ Cardinality(InGauge(m)) \in Nat
      /\ InGauge(m)' = InGauge(m) \ {r} /\ Cardinality(InGauge(m)') = Cardinality(InGauge(m)) - 1
      /\ Cardinality(InGauge(m)') \in Nat
  <2>1. InGauge(m) \in SUBSET Request /\ InGauge(m) \ {r} \in SUBSET Request
    BY DEF InGauge
  <2>2. InGauge(m)' = InGauge(m) \ {r}
    BY <1>1, <1>3 DEF InGauge
  <2> QED
    BY <1>5, <2>1, <2>2, Finite, FS_RemoveElement
<1>7. Value(base["active_requests"], m) \in Nat
  BY ValueTyped DEF IInv, BaseKept, Sound
<1>8. active[m] = Value(base["active_requests"], m) + Cardinality(InGauge(m))
  BY <1>3, <1>5 DEF IInv, ActiveCountsInGauge, Value
<1>9. active[m] + -1 \in Nat
  BY <1>4, <1>5, <1>6, <1>7, <1>8
<1>10. /\ Series(ActiveLimit, Method, active') /\ DOMAIN active' = DOMAIN active
       /\ \A n \in DOMAIN active : active'[n] = active[n] + (IF n = m THEN -1 ELSE 0)
  <2>1. /\ Series(ActiveLimit, Method, active')
        /\ DOMAIN active \subseteq DOMAIN active' /\ DOMAIN active' \subseteq DOMAIN active \cup {m}
        /\ \A n \in DOMAIN active : active'[n] = active[n] + (IF n = m THEN -1 ELSE 0)
    BY <1>1, <1>3, <1>4, <1>5, <1>9, Finite, RecordedSeries
  <2> QED
    BY <1>5, <2>1
<1>11. \A k \in Key : Counted(k)' = Counted(k) /\ Observed(k)' = Observed(k)
  BY <1>1, <1>3 DEF Counted, Observed, KeyOf
<1>12. \A n \in Method \ {m} : InGauge(n)' = InGauge(n)
  BY <1>0, <1>1, <1>3 DEF InGauge
<1>13. LeavesWhatItEntered'
  <2>1. \A q \in Request : phase'[q] = "leave" => recorded'[q]
    BY <1>1, <1>3 DEF IInv, LeavesWhatItEntered
  <2>2. \A n \in Method : InGauge(n)' # {} => n \in DOMAIN active'
    BY <1>5, <1>10, <1>12 DEF IInv, LeavesWhatItEntered
  <2> QED
    BY <2>1, <2>2 DEF LeavesWhatItEntered
<1>14. ActiveCountsInGauge'
  <2>1. ASSUME NEW n \in Method
        PROVE  Value(active', n) = Value(base["active_requests"], n) + Cardinality(InGauge(n)')
    <3>1. CASE n = m
      <4>1. active'[m] = active[m] - 1 /\ active[m] \in Nat
        BY <1>4, <1>5, <1>10
      <4>2. Value(active', m) = active[m] - 1
        BY <1>5, <1>10, <4>1 DEF Value
      <4>3. Value(active', m) = Value(base["active_requests"], m) + Cardinality(InGauge(m)')
        BY <1>6, <1>7, <1>8, <4>1, <4>2
      <4> QED
        BY <3>1, <4>3
    <3>2. CASE n # m
      <4>1. Value(active', n) = Value(active, n) /\ InGauge(n)' = InGauge(n)
        BY <1>4, <1>10, <1>12, <3>2 DEF Value
      <4> QED
        BY <4>1 DEF IInv, ActiveCountsInGauge
    <3> QED
      BY <3>1, <3>2
  <2> QED
    BY <1>1, <2>1 DEF ActiveCountsInGauge, Value
<1> QED
  BY <1>1, <1>2, <1>10, <1>11, <1>13, <1>14, GaugeStep

\* The application and its body.
LEMMA ApplicationStep ==
  ASSUME IInv, NEW r \in Request,
         \/ \E code \in RawStatus : StartResponse(r, code)
         \/ AppEnds(r) \/ ReturnBody(r) \/ FirstChunk(r) \/ BodyEnds(r) \/ CloseUnstarted(r),
         UNCHANGED <<scrape, life>>
  PROVE  IInv'
<1>1. UNCHANGED instruments /\ UNCHANGED <<method, recorded, restarts>>
  BY DEF life, StartResponse, AppEnds, ReturnBody, FirstChunk, BodyEnds, CloseUnstarted, Finish
<1>2. /\ phase \in [Request -> Phase] /\ method \in [Request -> Method]
      /\ status \in [Request -> StatusClass] /\ recorded \in [Request -> BOOLEAN]
  BY DEF IInv, LocalTypes
<1>3. CASE \E code \in RawStatus : StartResponse(r, code)
  <2>1. PICK code \in RawStatus : StartResponse(r, code)
    BY <1>3
  <2>2. ClassOf(code) \in StatusClass
    <3>1. code \in Int
      BY StatusAssumption
    <3>2. code \in 100 .. 599 => code \div 100 \in 0 .. 5
      BY <3>1
    <3> QED
      BY <3>2 DEF ClassOf, StatusClass, Invalid
  <2>3. /\ phase[r] \in {"app", "body"} /\ phase' = phase
        /\ status' = [status EXCEPT ![r] = ClassOf(code)]
    BY <2>1 DEF StartResponse
  <2>4. LocalTypes'
    BY <1>1, <2>2, <2>3 DEF IInv, LocalTypes
  <2>5. \A q \in Request : phase'[q] = "leave" => recorded'[q]
    BY <1>1, <2>3 DEF IInv, LeavesWhatItEntered
  <2>6. \A n \in Method : InGauge(n)' = InGauge(n)
    BY <1>1, <2>3 DEF InGauge
  <2>7. \A k \in Key : Counted(k)' = Counted(k) /\ Observed(k)' = Observed(k)
    BY <1>1, <1>2, <2>3 DEF Counted, Observed, KeyOf
  <2> QED
    BY <1>1, <2>4, <2>5, <2>6, <2>7, LocalStep
<1>4. CASE AppEnds(r) \/ ReturnBody(r) \/ FirstChunk(r) \/ BodyEnds(r) \/ CloseUnstarted(r)
  <2>1. PICK next \in {"returned", "body", "abandoned", "leave", "count"} :
          /\ phase[r] \in {"app", "returned", "body"} /\ phase' = [phase EXCEPT ![r] = next]
          /\ next = "leave" => recorded[r]
          /\ next = "count" => ~recorded[r]
          /\ status' = status
    BY <1>4 DEF AppEnds, ReturnBody, FirstChunk, BodyEnds, CloseUnstarted, Finish
  <2>2. LocalTypes'
    BY <1>1, <2>1 DEF IInv, LocalTypes, Phase
  <2>3. \A q \in Request : phase'[q] = "leave" => recorded'[q]
    BY <1>1, <1>2, <2>1 DEF IInv, LeavesWhatItEntered
  <2>4. \A n \in Method : InGauge(n)' = InGauge(n)
    BY <1>1, <1>2, <2>1 DEF InGauge
  <2>5. \A k \in Key : Counted(k)' = Counted(k) /\ Observed(k)' = Observed(k)
    BY <1>1, <1>2, <2>1 DEF Counted, Observed, KeyOf
  <2> QED
    BY <1>1, <2>2, <2>3, <2>4, <2>5, LocalStep
<1> QED
  BY <1>3, <1>4

\* A completed request is counted, or found without room for its key.
LEMMA CountRequestStep ==
  ASSUME IInv, NEW r \in Request, Count(r),
         UNCHANGED <<scrape, life>>
  PROVE  IInv'
<1>0. PICK key \in Key : key = KeyOf(r)
  BY DEF IInv, LocalTypes, KeyOf, Key
<1>1. /\ phase[r] = "count" /\ phase' = [phase EXCEPT ![r] = "observe"]
      /\ requests' = Recorded(requests, key, 1, MaxSeries)
      /\ UNCHANGED <<method, status, recorded, active, duration, base, restarts>>
  BY <1>0 DEF Count, life
<1>2. /\ phase \in [Request -> Phase] /\ method \in [Request -> Method]
      /\ status \in [Request -> StatusClass]
  BY DEF IInv, LocalTypes
<1>3. LocalTypes'
  BY <1>1 DEF IInv, LocalTypes, Phase
<1>4. \A m \in Method : InGauge(m)' = InGauge(m)
  BY <1>1, <1>2 DEF InGauge
<1>5. /\ r \notin Counted(key) /\ Counted(key)' = Counted(key) \cup {r}
      /\ \A k \in Key \ {key} : Counted(k)' = Counted(k)
      /\ \A k \in Key : Observed(k)' = Observed(k) /\ Counted(k) \in SUBSET Request
  BY <1>0, <1>1, <1>2 DEF Counted, Observed, KeyOf
<1>6. \A k \in Key :
        /\ Counts(requests, base["requests_total"], Counted(k), k)
        /\ Counts(duration, base["request_duration_seconds"], Observed(k), k)
  BY CompletionsByKey DEF IInv
<1>7. /\ Series(MaxSeries, Key, requests) /\ Series(MaxSeries, Key, base["requests_total"])
      /\ DOMAIN base["requests_total"] \subseteq DOMAIN requests
      /\ Series(MaxSeries, Key, duration) /\ Series(ActiveLimit, Method, active)
  BY DEF IInv, InstrumentTypes, BaseKept, Sound
<1>8. /\ Series(MaxSeries, Key, requests') /\ Grown(requests, requests')
      /\ Counts(requests', base["requests_total"], Counted(key) \cup {r}, key)
      /\ \A k \in Key \ {key}, T \in SUBSET Request :
           Counts(requests, base["requests_total"], T, k)
             => Counts(requests', base["requests_total"], T, k)
  BY <1>1, <1>5, <1>6, <1>7, CountStep
<1>9. InstrumentTypes'
  BY <1>1, <1>7, <1>8 DEF InstrumentTypes, Series
<1>10. LeavesWhatItEntered' /\ ActiveCountsInGauge'
  BY <1>1, <1>2, <1>4 DEF IInv, LeavesWhatItEntered, ActiveCountsInGauge, Value
<1>11. CompletionsCountedOnce'
  <2>1. \A k \in Key :
          /\ Counts(requests', base'["requests_total"], Counted(k)', k)
          /\ Counts(duration', base'["request_duration_seconds"], Observed(k)', k)
    BY <1>1, <1>5, <1>6, <1>8
  <2> QED
    BY <2>1 DEF CompletionsCountedOnce, Complete, Contents, Counts, Value
<1>12. Backed(duration, requests)'
  <2>1. Backed(duration, requests')
    BY <1>7, <1>8, BackedByMore DEF IInv
  <2> QED
    BY <1>1, <2>1 DEF Backed
<1>13. Grown(duration, duration') /\ DOMAIN active \subseteq DOMAIN active'
  BY <1>1, <1>7, GrownOnce
<1>14. BaseKept' /\ SavedKept' /\ ScrapeRead' /\ SavesRead'
  BY <1>8, <1>9, <1>13, RestStep
<1> QED
  BY <1>3, <1>9, <1>10, <1>11, <1>12, <1>14 DEF IInv

\* Its duration is observed after it was counted, under the same key.
LEMMA ObserveStep ==
  ASSUME IInv, NEW r \in Request, Observe(r),
         UNCHANGED <<scrape, life>>
  PROVE  IInv'
<1>0. PICK key \in Key : key = KeyOf(r)
  BY DEF IInv, LocalTypes, KeyOf, Key
<1>1. /\ phase[r] = "observe" /\ phase' = [phase EXCEPT ![r] = "done"]
      /\ duration' = Recorded(duration, key, 1, MaxSeries)
      /\ UNCHANGED <<method, status, recorded, active, requests, base, restarts>>
  BY <1>0 DEF Observe, life
<1>2. /\ phase \in [Request -> Phase] /\ method \in [Request -> Method]
      /\ status \in [Request -> StatusClass]
  BY DEF IInv, LocalTypes
<1>3. LocalTypes'
  BY <1>1 DEF IInv, LocalTypes, Phase
<1>4. \A m \in Method : InGauge(m)' = InGauge(m)
  BY <1>1, <1>2 DEF InGauge
<1>5. /\ r \notin Observed(key) /\ Observed(key)' = Observed(key) \cup {r}
      /\ \A k \in Key \ {key} : Observed(k)' = Observed(k)
      /\ \A k \in Key : Counted(k)' = Counted(k) /\ Observed(k) \in SUBSET Request
      /\ r \in Counted(key)
  BY <1>0, <1>1, <1>2 DEF Counted, Observed, KeyOf
<1>6. \A k \in Key :
        /\ Counts(requests, base["requests_total"], Counted(k), k)
        /\ Counts(duration, base["request_duration_seconds"], Observed(k), k)
  BY CompletionsByKey DEF IInv
<1>7. /\ Series(MaxSeries, Key, duration) /\ Series(MaxSeries, Key, base["request_duration_seconds"])
      /\ Series(MaxSeries, Key, base["requests_total"])
      /\ DOMAIN base["request_duration_seconds"] \subseteq DOMAIN duration
      /\ DOMAIN base["requests_total"] \subseteq DOMAIN requests
      /\ Backed(base["request_duration_seconds"], base["requests_total"])
      /\ Series(MaxSeries, Key, requests) /\ Series(ActiveLimit, Method, active)
  BY DEF IInv, InstrumentTypes, BaseKept, Sound
<1>8. /\ Series(MaxSeries, Key, duration') /\ Grown(duration, duration')
      /\ Counts(duration', base["request_duration_seconds"], Observed(key) \cup {r}, key)
      /\ \A k \in Key \ {key}, T \in SUBSET Request :
           Counts(duration, base["request_duration_seconds"], T, k)
             => Counts(duration', base["request_duration_seconds"], T, k)
  BY <1>1, <1>5, <1>6, <1>7, CountStep
<1>9. InstrumentTypes'
  BY <1>1, <1>7, <1>8 DEF InstrumentTypes, Series
<1>10. LeavesWhatItEntered' /\ ActiveCountsInGauge'
  BY <1>1, <1>2, <1>4 DEF IInv, LeavesWhatItEntered, ActiveCountsInGauge, Value
<1>11. CompletionsCountedOnce'
  <2>1. \A k \in Key :
          /\ Counts(requests', base'["requests_total"], Counted(k)', k)
          /\ Counts(duration', base'["request_duration_seconds"], Observed(k)', k)
    BY <1>1, <1>5, <1>6, <1>8
  <2> QED
    BY <2>1 DEF CompletionsCountedOnce, Complete, Contents, Counts, Value
<1>12. Backed(duration, requests)'
  <2>1. \A k \in DOMAIN duration : k # key => k \in DOMAIN duration' /\ duration'[k] = duration[k]
    <3>1. /\ \A k \in DOMAIN duration : duration[k] \in Nat
          /\ key \in DOMAIN duration => duration[key] + 1 \in Nat
      BY <1>7 DEF Series
    <3>2. /\ DOMAIN duration \subseteq DOMAIN duration'
          /\ \A k \in DOMAIN duration : duration'[k] = duration[k] + (IF k = key THEN 1 ELSE 0)
      BY <1>1, <1>7, <3>1, Finite, RecordedSeries
    <3> QED
      BY <3>1, <3>2
  <2>2. DOMAIN duration' \subseteq DOMAIN duration \cup {key}
    BY <1>1 DEF Recorded, Added
  <2>3. ASSUME NEW k \in DOMAIN duration', k # key
        PROVE  IF k \in DOMAIN requests THEN duration'[k] <= requests[k]
               ELSE Cardinality(DOMAIN requests) = MaxSeries
    BY <2>1, <2>2, <2>3 DEF IInv, Backed
  <2>4. ASSUME key \in DOMAIN duration', key \notin DOMAIN requests
        PROVE  Cardinality(DOMAIN requests) = MaxSeries
    BY <1>5, <1>6, <2>4 DEF Counts
  <2>5. ASSUME key \in DOMAIN duration', key \in DOMAIN requests
        PROVE  duration'[key] <= requests[key]
    <3> DEFINE d == Value(base["request_duration_seconds"], key)
               q == Value(base["requests_total"], key)
               o == Cardinality(Observed(key) \cup {r})
               c == Cardinality(Counted(key))
    <3>1. duration'[key] = d + o /\ requests[key] = q + c
      BY <1>6, <1>8, <2>5 DEF Counts
    <3>2. o \in Nat /\ c \in Nat /\ o <= c
      <4>1. Counted(key) \in SUBSET Request /\ Observed(key) \cup {r} \in SUBSET Counted(key)
        BY <1>5 DEF Counted, Observed
      <4>2. IsFiniteSet(Counted(key)) /\ c \in Nat
        BY <4>1, Finite
      <4> QED
        BY <4>1, <4>2, FS_Subset, FS_CardinalityType
    <3>3. d \in Nat /\ q \in Nat /\ d <= q
      <4>1. d \in Nat /\ q \in Nat
        BY <1>7, ValueTyped
      <4>2. CASE key \in DOMAIN base["request_duration_seconds"]
        <5>1. key \in DOMAIN base["requests_total"]
          <6>1. CASE Cardinality(DOMAIN base["requests_total"]) = MaxSeries
            <7>1. DOMAIN requests = DOMAIN base["requests_total"]
              BY <1>7, <6>1, Finite, FullStays
            <7> QED
              BY <2>5, <7>1
          <6> QED
            BY <1>7, <4>2, <6>1 DEF Backed
        <5>2. base["request_duration_seconds"][key] <= base["requests_total"][key]
          BY <1>7, <4>2, <5>1 DEF Backed
        <5> QED
          BY <4>1, <4>2, <5>1, <5>2 DEF Value
      <4>3. CASE key \notin DOMAIN base["request_duration_seconds"]
        BY <4>1, <4>3 DEF Value
      <4> QED
        BY <4>1, <4>2, <4>3
    <3> HIDE DEF d, q, o, c
    <3> QED
      BY <3>1, <3>2, <3>3
  <2> QED
    BY <1>1, <2>3, <2>4, <2>5 DEF Backed
<1>13. Grown(requests, requests') /\ DOMAIN active \subseteq DOMAIN active'
  BY <1>1, <1>7, GrownOnce
<1>14. BaseKept' /\ SavedKept' /\ ScrapeRead' /\ SavesRead'
  BY <1>8, <1>9, <1>13, RestStep
<1> QED
  BY <1>3, <1>9, <1>10, <1>11, <1>12, <1>14 DEF IInv

\* A step of a request.
LEMMA ServeStep ==
  ASSUME IInv, NEW r \in Request, Serve(r), UNCHANGED <<scrape, life>>
  PROVE  IInv'
<1>1. ASSUME NEW raw \in RawMethod, Begin(r, MethodOf(raw)) PROVE IInv'
  <2>1. MethodOf(raw) \in Method
    BY DEF MethodOf, Method
  <2> QED
    BY <1>1, <2>1, BeginStep
<1>2. CASE Leave(r) \/ Count(r) \/ Observe(r)
  BY <1>2, LeaveStep, CountRequestStep, ObserveStep
<1>3. CASE \/ \E code \in RawStatus : StartResponse(r, code)
           \/ AppEnds(r) \/ ReturnBody(r) \/ FirstChunk(r) \/ BodyEnds(r) \/ CloseUnstarted(r)
  BY <1>3, ApplicationStep
<1> QED
  BY <1>1, <1>2, <1>3 DEF Serve

-----------------------------------------------------------------------------
(***************************************************************************)
(* Reading the instruments.                                                *)
(***************************************************************************)
\* The next instrument is read as it is.
LEMMA ReadNext ==
  ASSUME NEW t, NEW d, NEW old, Place(t, d), InstrumentTypes, Backed(duration, requests),
         Read(d, old, duration, requests)
  PROVE  LET new == PageWith(d, Head(t))
         IN  /\ Read(new, old, duration, requests)
             /\ DOMAIN new = DOMAIN d \cup {Head(t)}
             /\ Place(Tail(t), new) \/ (Tail(t) = <<>> /\ DOMAIN new = Instrument)
<1> DEFINE new == PageWith(d, Head(t))
<1>1. /\ DOMAIN new = DOMAIN d \cup {Head(t)}
      /\ \A n \in DOMAIN new : new[n] = IF n = Head(t) THEN Contents(n) ELSE d[n]
  BY DEF PageWith
<1>2. /\ Series(ActiveLimit, Method, active)
      /\ Series(MaxSeries, Key, duration) /\ Series(MaxSeries, Key, requests)
      /\ Grown(duration, duration) /\ Grown(requests, requests)
  BY GrownOnce DEF InstrumentTypes
<1>3. /\ Contents("active_requests") = active /\ Contents("request_duration_seconds") = duration
      /\ Contents("requests_total") = requests
  BY DEF Contents
<1> HIDE DEF new
<1>4. CASE t = Names /\ DOMAIN d = {}
  <2>1. Head(t) = "active_requests" /\ DOMAIN new = {"active_requests"}
    BY <1>1, <1>4, NamesInOrder
  <2>2. new["active_requests"] = active
    BY <1>1, <1>3, <2>1
  <2>3. Read(new, old, duration, requests)
    BY <1>2, <1>4, <2>1, <2>2 DEF Read
  <2>4. Place(Tail(t), new)
    BY <1>4, <2>1 DEF Place
  <2> QED
    BY <1>1, <2>3, <2>4 DEF new
<1>5. CASE t = Tail(Names) /\ DOMAIN d = {"active_requests"}
  <2>1. /\ Head(t) = "request_duration_seconds"
        /\ DOMAIN new = {"active_requests", "request_duration_seconds"}
    BY <1>1, <1>5, NamesInOrder
  <2>2. new["request_duration_seconds"] = duration /\ new["active_requests"] = d["active_requests"]
    BY <1>1, <1>3, <2>1
  <2>3. Read(new, old, duration, requests)
    BY <1>2, <1>5, <2>1, <2>2 DEF Read
  <2>4. Place(Tail(t), new)
    BY <1>5, <2>1 DEF Place
  <2> QED
    BY <1>1, <2>3, <2>4 DEF new
<1>6. CASE t = Tail(Tail(Names)) /\ DOMAIN d = {"active_requests", "request_duration_seconds"}
  <2>1. Head(t) = "requests_total" /\ DOMAIN new = Instrument /\ Tail(t) = <<>>
    BY <1>1, <1>6, NamesInOrder DEF Instrument
  <2>2. /\ new["requests_total"] = requests /\ new["active_requests"] = d["active_requests"]
        /\ new["request_duration_seconds"] = d["request_duration_seconds"]
    BY <1>1, <1>3, <2>1 DEF Instrument
  <2>3. Read(new, old, duration, requests)
    BY <1>2, <1>6, <2>1, <2>2 DEF Read, Instrument
  <2> QED
    BY <1>1, <2>1, <2>3 DEF new
<1> QED
  BY <1>4, <1>5, <1>6 DEF Place

\* A walk that has read every instrument has read a sound state of them, which
\* they have not fallen behind, and which is not behind the one it began with.
LEMMA ReadWhole ==
  ASSUME NEW d, NEW old, DOMAIN d = Instrument, Read(d, old, duration, requests)
  PROVE  /\ Sound(d)
         /\ Grown(d["request_duration_seconds"], duration) /\ Grown(d["requests_total"], requests)
         /\ old # NoPage => /\ Grown(old["request_duration_seconds"], d["request_duration_seconds"])
                            /\ Grown(old["requests_total"], d["requests_total"])
BY DEF Read, Sound, Instrument

\* While nothing records, the instruments keep their meaning.
LEMMA InstrumentsKept ==
  ASSUME IInv, UNCHANGED <<vars, base, restarts>>
  PROVE  /\ LocalTypes' /\ InstrumentTypes' /\ LeavesWhatItEntered' /\ ActiveCountsInGauge'
         /\ CompletionsCountedOnce' /\ Backed(duration, requests)' /\ BaseKept'
         /\ TooLongNow' = TooLongNow
         /\ \A n \in Instrument : Shortest(n)' = Shortest(n)
<1>1. UNCHANGED <<phase, method, status, recorded, active, requests, duration, base, restarts>>
  BY DEF vars, local, instruments
<1>2. LocalTypes' /\ InstrumentTypes' /\ LeavesWhatItEntered' /\ ActiveCountsInGauge'
  BY <1>1 DEF IInv, LocalTypes, InstrumentTypes, LeavesWhatItEntered, ActiveCountsInGauge, InGauge,
              Value, Series
<1>3. CompletionsCountedOnce'
  <2>1. \A k \in Key :
          /\ Counts(requests, base["requests_total"], Counted(k), k)
          /\ Counts(duration, base["request_duration_seconds"], Observed(k), k)
    BY CompletionsByKey DEF IInv
  <2>2. \A k \in Key : Counted(k)' = Counted(k) /\ Observed(k)' = Observed(k)
    BY <1>1 DEF Counted, Observed, KeyOf
  <2>3. \A k \in Key :
          /\ Counts(requests', base'["requests_total"], Counted(k)', k)
          /\ Counts(duration', base'["request_duration_seconds"], Observed(k)', k)
    BY <1>1, <2>1, <2>2
  <2> QED
    BY <2>3 DEF CompletionsCountedOnce, Complete, Contents, Counts, Value
<1>4. Backed(duration, requests)' /\ BaseKept'
  BY <1>1 DEF IInv, Backed, BaseKept, Sound, Series
<1>5. /\ TooLongNow' = TooLongNow
      /\ \A n \in Instrument : Shortest(n)' = Shortest(n)
  BY <1>1 DEF TooLongNow, Shortest, Values, Contents
<1> QED
  BY <1>2, <1>3, <1>4, <1>5

\* What saves have read, and the checkpoint, while nothing records or saves.
LEMMA SavesKept ==
  ASSUME IInv, UNCHANGED <<requests, duration>>, UNCHANGED <<unread, payload, since, saved>>
  PROVE  SavedKept' /\ SavesRead'
<1>1. SavedKept'
  BY DEF IInv, SavedKept, Sound, Grown, Backed, Series
<1>2. SavesRead'
  BY DEF IInv, SavesRead, Place, Read, Sound, Grown, Backed, Series
<1> QED
  BY <1>1, <1>2

\* What the scrape has rendered, while nothing records or scrapes.
LEMMA ScrapeKept ==
  ASSUME IInv, UNCHANGED <<vars, scrape>>
  PROVE  ScrapeRead'
<1>1. /\ UNCHANGED <<active, requests, duration>> /\ UNCHANGED <<todo, draft, size, outgrown>>
  BY DEF vars, instruments, scrape
<1>2. Pending' = Pending
  BY <1>1 DEF Pending, Least, Shortest, Values, Contents
<1>3. Read(draft, NoPage, duration, requests)' = Read(draft, NoPage, duration, requests)
  BY <1>1 DEF Read, Sound, Grown, Backed, Series
<1>4. Place(todo, draft)' = Place(todo, draft)
  BY <1>1 DEF Place
<1> QED
  BY <1>1, <1>2, <1>3, <1>4 DEF IInv, ScrapeRead, NoPage

\* No scrape is in progress.
LEMMA NoScrape ==
  ASSUME EndScrape
  PROVE  ScrapeRead'
<1>1. todo' = <<>> /\ draft' = NoPage /\ size' = 0 /\ outgrown' = FALSE
  BY DEF EndScrape
<1>2. Read(draft, NoPage, duration, requests)'
  BY <1>1 DEF Read, NoPage
<1>3. size' \in 0 .. MaxLines
  BY <1>1, LinesAssumption
<1>4. outgrown' \in BOOLEAN /\ ~outgrown'
  BY <1>1, Zenon
<1>5. todo' = <<>> /\ draft' = NoPage'
  BY <1>1 DEF NoPage
<1> QED
  BY <1>2, <1>3, <1>4, <1>5 DEF ScrapeRead

-----------------------------------------------------------------------------
(***************************************************************************)
(* Scrapes.                                                                *)
(***************************************************************************)
\* A scrape knows where it is, and what is pending.
LEMMA PendingTyped ==
  ASSUME IInv
  PROVE  /\ \A n \in Instrument : Least(n) \in Nat /\ Shortest(n) \in Nat
         /\ Pending \in Nat /\ size \in Nat
         /\ todo = <<>> => ~Place(todo, draft) /\ ~outgrown /\ draft = NoPage
         /\ todo # <<>> => Place(todo, draft)
<1>1. \A n \in Instrument : Shortest(n) \in Nat
  <2>1. /\ Cardinality(DOMAIN active) \in Nat /\ Cardinality(DOMAIN duration) \in Nat
        /\ Cardinality(DOMAIN requests) \in Nat
    BY Finite, SeriesFinite DEF IInv, InstrumentTypes
  <2> QED
    BY <2>1 DEF Shortest, Values, Contents, Instrument
<1>2. \A n \in Instrument : Least(n) \in Nat
  BY <1>1 DEF Least
<1>3. size \in Nat
  BY LinesAssumption DEF IInv, ScrapeRead
<1>4. Pending \in Nat
  BY <1>2, <1>3 DEF Pending, Instrument
<1>5. Names # <<>> /\ Tail(Names) # <<>> /\ Tail(Tail(Names)) # <<>>
  BY NamesInOrder
<1>6. /\ todo = <<>> => ~Place(todo, draft)
      /\ Place(todo, draft) \/ (todo = <<>> /\ draft = NoPage /\ ~outgrown)
  BY <1>5 DEF IInv, ScrapeRead, Place
<1> QED
  BY <1>1, <1>2, <1>3, <1>4, <1>6

\* A scrape begins with nothing rendered.
LEMMA StartStep ==
  ASSUME IInv, StartScrape, UNCHANGED life
  PROVE  IInv'
<1>1. /\ todo = <<>> /\ todo' = Names /\ outgrown' = TooLongNow
      /\ UNCHANGED <<vars, draft, size>>
  BY DEF StartScrape
<1>2. UNCHANGED <<requests, duration, unread, payload, since, saved, base, restarts>>
  BY <1>1 DEF vars, instruments, life, saves
<1>3. draft = NoPage /\ DOMAIN draft = {}
  BY <1>1, PendingTyped DEF NoPage
<1>4. ScrapeRead'
  <2>1. Place(todo, draft)'
    BY <1>1, <1>3 DEF Place
  <2>2. Read(draft, NoPage, duration, requests)'
    BY <1>1, <1>3 DEF Read, NoPage
  <2>3. outgrown' => Pending' > MaxLines
    <3>1. \A n \in Instrument : Least(n)' = Shortest(n) /\ Shortest(n) \in Nat
      BY <1>1, <1>2, <1>3, InstrumentsKept, PendingTyped DEF Least
    <3>2. size \in Nat /\ size' = size
      BY <1>1, PendingTyped
    <3>3. Pending' = size + Shortest("active_requests") + Shortest("request_duration_seconds")
                       + Shortest("requests_total")
      BY <3>1, <3>2 DEF Pending, Instrument
    <3>4. outgrown' => TooLongNow
      BY <1>1
    <3>5. /\ Shortest("active_requests") \in Nat /\ Shortest("request_duration_seconds") \in Nat
          /\ Shortest("requests_total") \in Nat
      BY <3>1 DEF Instrument
    <3> QED
      BY <3>2, <3>3, <3>4, <3>5, LinesAssumption DEF TooLongNow
  <2>4. size' \in 0 .. MaxLines /\ outgrown' \in BOOLEAN
    BY <1>1 DEF IInv, ScrapeRead, TooLongNow
  <2> QED
    BY <2>1, <2>2, <2>3, <2>4 DEF ScrapeRead
<1> QED
  BY <1>1, <1>2, <1>4, InstrumentsKept, SavesKept DEF IInv

\* A scrape renders the next instrument, which takes what was pending for it or
\* more.
LEMMA RenderStep ==
  ASSUME IInv, Render, UNCHANGED life
  PROVE  IInv'
<1>0. PICK width \in Widths(Head(todo)) : size + width <= MaxLines /\ size' = size + width
  BY DEF Render
<1>1. /\ Len(todo) > 1 /\ todo' = Tail(todo) /\ draft' = Page /\ UNCHANGED <<vars, outgrown>>
  BY DEF Render
<1>2. UNCHANGED <<requests, duration, unread, payload, since, saved, base, restarts>>
  BY <1>1 DEF vars, instruments, life, saves
<1>3. todo # <<>> /\ Place(todo, draft)
  BY <1>1, PendingTyped
<1>4. /\ Read(Page, NoPage, duration, requests) /\ DOMAIN Page = DOMAIN draft \cup {Head(todo)}
      /\ Place(Tail(todo), Page) \/ Tail(todo) = <<>>
  BY <1>3, ReadNext DEF IInv, ScrapeRead, Page
<1>5. Head(todo) \in Instrument /\ Head(todo) \notin DOMAIN draft /\ Tail(todo) # <<>>
  BY <1>1, <1>3, NamesInOrder DEF Place, Instrument
<1>6. width \in Nat /\ Shortest(Head(todo)) \in Nat /\ Shortest(Head(todo)) <= width
  BY <1>5, WidthsTyped DEF IInv
<1>7. Pending <= Pending' /\ Pending' \in Nat /\ Pending \in Nat
  <2>1. \A n \in Instrument : Least(n)' = IF n = Head(todo) THEN 0 ELSE Least(n)
    BY <1>1, <1>2, <1>4, InstrumentsKept DEF Least
  <2>2. Least(Head(todo)) = Shortest(Head(todo))
    BY <1>5 DEF Least
  <2>3. \A n \in Instrument : Least(n) \in Nat
    BY PendingTyped
  <2>4. size \in Nat /\ size' = size + width /\ Pending \in Nat
    BY <1>0, PendingTyped
  <2>5. Pending' = size' + Least("active_requests")' + Least("request_duration_seconds")'
                     + Least("requests_total")'
    BY DEF Pending
  <2>6. CASE Head(todo) = "active_requests"
    BY <1>6, <2>1, <2>2, <2>3, <2>4, <2>5, <2>6 DEF Pending, Instrument
  <2>7. CASE Head(todo) = "request_duration_seconds"
    BY <1>6, <2>1, <2>2, <2>3, <2>4, <2>5, <2>7 DEF Pending, Instrument
  <2>8. CASE Head(todo) = "requests_total"
    BY <1>6, <2>1, <2>2, <2>3, <2>4, <2>5, <2>8 DEF Pending, Instrument
  <2> QED
    BY <1>5, <2>6, <2>7, <2>8 DEF Instrument
<1>8. ScrapeRead'
  <2>1. Place(todo, draft)'
    BY <1>1, <1>4, <1>5 DEF Place
  <2>2. Read(draft, NoPage, duration, requests)'
    BY <1>1, <1>2, <1>4 DEF Read, NoPage
  <2>3. outgrown' => Pending' > MaxLines
    <3>1. outgrown => Pending > MaxLines
      BY DEF IInv, ScrapeRead
    <3> QED
      BY <1>1, <1>7, <3>1, LinesAssumption
  <2>4. size' \in 0 .. MaxLines /\ outgrown' \in BOOLEAN
    <3>1. size \in Nat
      BY PendingTyped
    <3> QED
      BY <1>0, <1>1, <1>6, <3>1, LinesAssumption DEF IInv, ScrapeRead
  <2> QED
    BY <2>1, <2>2, <2>3, <2>4 DEF ScrapeRead
<1> QED
  BY <1>1, <1>2, <1>8, InstrumentsKept, SavesKept DEF IInv

\* The last instrument is rendered only if not more was pending than fits.
LEMMA DeliverFits ==
  ASSUME IInv, Deliver
  PROVE  ~outgrown
<1>0. PICK width \in Widths(Head(todo)) : size + width <= MaxLines
  BY DEF Deliver
<1>1. Len(todo) = 1 /\ todo # <<>> /\ Place(todo, draft)
  <2>1. todo # <<>>
    BY DEF Deliver
  <2> QED
    BY <2>1, PendingTyped DEF Deliver
<1>2. /\ Head(todo) = "requests_total"
      /\ DOMAIN draft = {"active_requests", "request_duration_seconds"}
  <2>1. todo # Names /\ todo # Tail(Names)
    BY <1>1, NamesInOrder
  <2> QED
    BY <1>1, <2>1, NamesInOrder DEF Place
<1>3. width \in Nat /\ Shortest("requests_total") \in Nat /\ Shortest("requests_total") <= width
  BY <1>2, WidthsTyped DEF IInv, Instrument
<1>4. /\ Least("active_requests") = 0 /\ Least("request_duration_seconds") = 0
      /\ Least("requests_total") = Shortest("requests_total")
  BY <1>2 DEF Least
<1>5. size \in Nat /\ MaxLines \in Nat
  BY PendingTyped, LinesAssumption
<1>6. Pending <= MaxLines /\ Pending \in Nat
  BY <1>0, <1>3, <1>4, <1>5 DEF Pending
<1> QED
  BY <1>5, <1>6 DEF IInv, ScrapeRead

\* A scrape ends, with a page or a refusal.
LEMMA AnswerStep ==
  ASSUME IInv, Deliver \/ Refuse, UNCHANGED life
  PROVE  IInv'
<1>1. EndScrape /\ UNCHANGED vars
  BY DEF Deliver, Refuse
<1>2. UNCHANGED <<requests, duration, unread, payload, since, saved, base, restarts>>
  BY <1>1 DEF vars, instruments, life, saves
<1> QED
  BY <1>1, <1>2, NoScrape, InstrumentsKept, SavesKept DEF IInv

-----------------------------------------------------------------------------
(***************************************************************************)
(* Saves.                                                                  *)
(***************************************************************************)
\* What a step of a save leaves to show.
LEMMA SaveStep ==
  ASSUME IInv, UNCHANGED <<scrapeVars, base, restarts>>, SavedKept', SavesRead'
  PROVE  IInv'
<1>1. UNCHANGED <<vars, scrape>>
  BY DEF scrapeVars
<1> QED
  BY <1>1, InstrumentsKept, ScrapeKept DEF IInv

\* A save begins: what there is now is not behind the checkpoint.
LEMMA StartSaveStep ==
  ASSUME IInv, NEW w \in Saver, StartSave(w)
  PROVE  IInv'
<1>1. /\ unread[w] = <<>> /\ payload[w] = NoPage
      /\ unread' = [unread EXCEPT ![w] = Names] /\ since' = [since EXCEPT ![w] = saved]
      /\ UNCHANGED <<scrapeVars, payload, saved, base, restarts>>
  BY DEF StartSave, Saving
<1>2. UNCHANGED <<requests, duration>>
  BY <1>1 DEF scrapeVars, vars, instruments
<1>3. SavedKept'
  BY <1>1, <1>2 DEF IInv, SavedKept, Sound, Grown, Backed, Series
<1>4. Read(NoPage, saved, duration, requests)
  BY DEF IInv, SavedKept, Read, NoPage
<1>5. SavesRead'
  <2>1. /\ unread' \in [Saver -> {<<>>, Names, Tail(Names), Tail(Tail(Names))}]
        /\ DOMAIN payload' = Saver /\ DOMAIN since' = Saver
    BY <1>1 DEF IInv, SavesRead
  <2>2. ASSUME NEW x \in Saver
        PROVE  /\ \/ Place(unread'[x], payload'[x])
                  \/ unread'[x] = <<>> /\ DOMAIN payload'[x] = Instrument
                  \/ unread'[x] = <<>> /\ payload'[x] = NoPage /\ since'[x] = NoPage
               /\ Read(payload'[x], since'[x], duration, requests)
    <3>1. CASE x = w
      <4>1. unread'[x] = Names /\ payload'[x] = NoPage /\ since'[x] = saved
        BY <1>1, <3>1 DEF IInv, SavesRead
      <4> QED
        BY <1>4, <4>1 DEF Place, NoPage
    <3>2. CASE x # w
      <4>1. unread'[x] = unread[x] /\ payload'[x] = payload[x] /\ since'[x] = since[x]
        BY <1>1, <3>2 DEF IInv, SavesRead
      <4> QED
        BY <4>1 DEF IInv, SavesRead
    <3> QED
      BY <3>1, <3>2
  <2>3. \A d, old : Read(d, old, duration', requests') <=> Read(d, old, duration, requests)
    BY <1>2
  <2> QED
    BY <2>1, <2>2, <2>3 DEF SavesRead, Place, NoPage
<1> QED
  BY <1>1, <1>3, <1>5, SaveStep

\* A save copies the next instrument.
LEMMA CopyStep ==
  ASSUME IInv, NEW w \in Saver, Copy(w)
  PROVE  IInv'
<1>1. /\ unread[w] # <<>> /\ unread' = [unread EXCEPT ![w] = Tail(unread[w])]
      /\ payload' = [payload EXCEPT ![w] = PageWith(payload[w], Head(unread[w]))]
      /\ UNCHANGED <<scrapeVars, since, saved, base, restarts>>
  BY DEF Copy
<1>2. UNCHANGED <<requests, duration>>
  BY <1>1 DEF scrapeVars, vars, instruments
<1>3. SavedKept'
  BY <1>1, <1>2 DEF IInv, SavedKept, Sound, Grown, Backed, Series
<1>4. Place(unread[w], payload[w]) /\ Read(payload[w], since[w], duration, requests)
  BY <1>1 DEF IInv, SavesRead
<1>5. SavesRead'
  <2>1. Tail(unread[w]) \in {<<>>, Names, Tail(Names), Tail(Tail(Names))}
    BY <1>4, NamesInOrder DEF Place
  <2>2. /\ unread' \in [Saver -> {<<>>, Names, Tail(Names), Tail(Tail(Names))}]
        /\ DOMAIN payload' = Saver /\ DOMAIN since' = Saver
    BY <1>1, <2>1 DEF IInv, SavesRead
  <2>3. ASSUME NEW x \in Saver
        PROVE  /\ \/ Place(unread'[x], payload'[x])
                  \/ unread'[x] = <<>> /\ DOMAIN payload'[x] = Instrument
                  \/ unread'[x] = <<>> /\ payload'[x] = NoPage /\ since'[x] = NoPage
               /\ Read(payload'[x], since'[x], duration, requests)
    <3>1. CASE x = w
      <4>1. /\ unread'[x] = Tail(unread[w]) /\ since'[x] = since[w]
            /\ payload'[x] = PageWith(payload[w], Head(unread[w]))
        BY <1>1, <3>1 DEF IInv, SavesRead
      <4>2. InstrumentTypes /\ Backed(duration, requests)
        BY DEF IInv
      <4>3. PICK t, d, old : t = unread[w] /\ d = payload[w] /\ old = since[w]
        OBVIOUS
      <4>4. Place(t, d) /\ Read(d, old, duration, requests)
        BY <1>4, <4>3
      <4>5. /\ Read(PageWith(d, Head(t)), old, duration, requests)
            /\ \/ Place(Tail(t), PageWith(d, Head(t)))
               \/ Tail(t) = <<>> /\ DOMAIN PageWith(d, Head(t)) = Instrument
        BY <4>2, <4>4, ReadNext
      <4> QED
        BY <4>1, <4>3, <4>5
    <3>2. CASE x # w
      <4>1. unread'[x] = unread[x] /\ payload'[x] = payload[x] /\ since'[x] = since[x]
        BY <1>1, <3>2 DEF IInv, SavesRead
      <4> QED
        BY <4>1 DEF IInv, SavesRead
    <3> QED
      BY <3>1, <3>2
  <2>4. \A d, old : Read(d, old, duration', requests') <=> Read(d, old, duration, requests)
    BY <1>2
  <2> QED
    BY <2>2, <2>3, <2>4 DEF SavesRead, Place, NoPage
<1> QED
  BY <1>1, <1>3, <1>5, SaveStep

\* A save is over, whether it installed its checkpoint or not.
LEMMA EndSaveStep ==
  ASSUME IInv, NEW w \in Saver, EndSave(w), SavedKept'
  PROVE  IInv'
<1>1. /\ unread' = [unread EXCEPT ![w] = <<>>] /\ payload' = [payload EXCEPT ![w] = NoPage]
      /\ since' = [since EXCEPT ![w] = NoPage]
      /\ UNCHANGED <<scrapeVars, base, restarts>>
  BY DEF EndSave
<1>2. UNCHANGED <<requests, duration>>
  BY <1>1 DEF scrapeVars, vars, instruments
<1>3. SavesRead'
  <2>1. /\ unread' \in [Saver -> {<<>>, Names, Tail(Names), Tail(Tail(Names))}]
        /\ DOMAIN payload' = Saver /\ DOMAIN since' = Saver
    BY <1>1 DEF IInv, SavesRead
  <2>2. ASSUME NEW x \in Saver
        PROVE  /\ \/ Place(unread'[x], payload'[x])
                  \/ unread'[x] = <<>> /\ DOMAIN payload'[x] = Instrument
                  \/ unread'[x] = <<>> /\ payload'[x] = NoPage /\ since'[x] = NoPage
               /\ Read(payload'[x], since'[x], duration, requests)
    <3>1. CASE x = w
      <4>1. unread'[x] = <<>> /\ payload'[x] = NoPage /\ since'[x] = NoPage
        BY <1>1, <3>1 DEF IInv, SavesRead
      <4>2. Read(NoPage, NoPage, duration, requests)
        BY DEF Read, NoPage
      <4> QED
        BY <4>1, <4>2
    <3>2. CASE x # w
      <4>1. unread'[x] = unread[x] /\ payload'[x] = payload[x] /\ since'[x] = since[x]
        BY <1>1, <3>2 DEF IInv, SavesRead
      <4> QED
        BY <4>1 DEF IInv, SavesRead
    <3> QED
      BY <3>1, <3>2
  <2>3. \A d, old : Read(d, old, duration', requests') <=> Read(d, old, duration, requests)
    BY <1>2
  <2> QED
    BY <2>1, <2>2, <2>3 DEF SavesRead, Place, NoPage
<1> QED
  BY <1>1, <1>3, SaveStep

\* What a save installs is not behind what was there when it began.
LEMMA InstallStep ==
  ASSUME IInv, NEW w \in Saver, Install(w)
  PROVE  /\ IInv'
         /\ since[w] # NoPage =>
              \A n \in {"requests_total", "request_duration_seconds"} : Grown(since[w][n], saved'[n])
<1>0. PICK new : new = payload[w]
  OBVIOUS
<1>1. unread[w] = <<>> /\ new # NoPage /\ saved' = new /\ EndSave(w)
  BY <1>0 DEF Install, Saving
<1>2. UNCHANGED <<requests, duration>>
  BY <1>1 DEF EndSave, scrapeVars, vars, instruments
<1>3. DOMAIN new = Instrument /\ Read(new, since[w], duration, requests)
  BY <1>0, <1>1, NamesInOrder DEF IInv, SavesRead, Place
<1>4. /\ Sound(new)
      /\ Grown(new["request_duration_seconds"], duration) /\ Grown(new["requests_total"], requests)
      /\ since[w] # NoPage =>
           /\ Grown(since[w]["request_duration_seconds"], new["request_duration_seconds"])
           /\ Grown(since[w]["requests_total"], new["requests_total"])
  BY <1>3, ReadWhole
<1>5. SavedKept'
  BY <1>1, <1>2, <1>4 DEF SavedKept, Sound, Grown, Backed, Series
<1>6. IInv'
  BY <1>1, <1>5, EndSaveStep
<1> QED
  BY <1>1, <1>4, <1>6

\* A save that fails changes nothing but itself.
LEMMA SaveFailsStep ==
  ASSUME IInv, NEW w \in Saver, SaveFails(w)
  PROVE  IInv'
<1>1. EndSave(w) /\ UNCHANGED <<saved, requests, duration>>
  BY DEF SaveFails, EndSave, scrapeVars, vars, instruments
<1>2. SavedKept'
  BY <1>1 DEF IInv, SavedKept, Sound, Grown, Backed, Series
<1> QED
  BY <1>1, <1>2, EndSaveStep

-----------------------------------------------------------------------------
(***************************************************************************)
(* Processes.                                                              *)
(***************************************************************************)
\* Nothing recorded is a sound state of the instruments.
LEMMA EmptySound ==
  /\ Sound(Empty)
  /\ \A n \in Instrument : Empty[n] = <<>> /\ DOMAIN Empty[n] = {}
<1>1. /\ DOMAIN Empty = Instrument
      /\ \A n \in Instrument : Empty[n] = <<>> /\ DOMAIN Empty[n] = {}
  BY NamesInOrder DEF Empty
<1>2. ASSUME NEW n \in Instrument, NEW K, NEW max \in Nat
      PROVE  Series(max, K, Empty[n])
  BY <1>1, FS_EmptySet DEF Series
<1>3. /\ "active_requests" \in Instrument /\ "request_duration_seconds" \in Instrument
      /\ "requests_total" \in Instrument
  BY DEF Instrument
<1>4. /\ Series(ActiveLimit, Method, Empty["active_requests"])
      /\ Series(MaxSeries, Key, Empty["request_duration_seconds"])
      /\ Series(MaxSeries, Key, Empty["requests_total"])
  <2>1. ActiveLimit \in Nat /\ MaxSeries \in Nat
    BY Finite
  <2> QED
    BY <1>2, <1>3, <2>1
<1>5. Backed(Empty["request_duration_seconds"], Empty["requests_total"])
  <2>1. DOMAIN Empty["request_duration_seconds"] = {}
    BY <1>1, <1>3
  <2> QED
    BY <2>1 DEF Backed
<1> QED
  BY <1>1, <1>4, <1>5 DEF Sound

\* Nobody has called yet.
LEMMA NobodyTyped ==
  /\ NoPhase \in [Request -> Phase] /\ NoMethod \in [Request -> Method]
  /\ NoStatus \in [Request -> StatusClass] /\ NotRecorded \in [Request -> BOOLEAN]
<1>1. NoPhase \in [Request -> Phase]
  BY DEF NoPhase, Phase
<1>2. NoMethod \in [Request -> Method]
  BY DEF NoMethod, Method
<1>3. NoStatus \in [Request -> StatusClass]
  BY SMT DEF NoStatus, StatusClass, Invalid
<1>4. NotRecorded \in [Request -> BOOLEAN]
  BY DEF NotRecorded
<1> QED
  BY <1>1, <1>2, <1>3, <1>4

\* No save is in progress.
LEMMA NoSaves ==
  ASSUME unread' = NoUnread, payload' = NoPayload, since' = NoPayload
  PROVE  SavesRead'
<1>1. /\ unread' = [w \in Saver |-> <<>>] /\ payload' = [w \in Saver |-> NoPage]
      /\ since' = [w \in Saver |-> NoPage]
  BY DEF NoUnread, NoPayload, NoPage
<1>2. ASSUME NEW w \in Saver
      PROVE  Read(payload'[w], since'[w], duration', requests')
  <2>1. payload'[w] = NoPage /\ since'[w] = NoPage
    BY <1>1
  <2>2. Read(NoPage, NoPage, duration', requests')
    BY DEF Read, NoPage
  <2> QED
    BY <2>1, <2>2
<1> QED
  BY <1>1, <1>2 DEF SavesRead, NoPage

\* A process begins with the sound contents of a checkpoint and no request.
LEMMA BeginsSound ==
  ASSUME NEW contents, Sound(contents),
         active' = contents["active_requests"],
         duration' = contents["request_duration_seconds"],
         requests' = contents["requests_total"],
         base' = contents,
         phase' = NoPhase, method' = NoMethod, status' = NoStatus, recorded' = NotRecorded,
         restarts' \in 0 .. MaxRestarts, EndScrape,
         unread' = NoUnread, payload' = NoPayload, since' = NoPayload, SavedKept'
  PROVE  IInv'
<1>1. LocalTypes'
  BY NobodyTyped, Zenon DEF LocalTypes
<1>2. InstrumentTypes' /\ BaseKept' /\ Backed(duration, requests)'
  BY DEF Sound, InstrumentTypes, BaseKept, Series, Backed
<1>3. /\ \A m \in Method : InGauge(m)' = {}
      /\ \A k \in Key : Counted(k)' = {} /\ Observed(k)' = {}
  BY DEF InGauge, Counted, Observed, NoPhase, NotRecorded
<1>4. LeavesWhatItEntered'
  BY <1>3 DEF LeavesWhatItEntered, NoPhase
<1>5. /\ \A x : Value(contents["active_requests"], x) \in Nat
      /\ \A x : Value(contents["request_duration_seconds"], x) \in Nat
      /\ \A x : Value(contents["requests_total"], x) \in Nat
  BY ValueTyped DEF Sound
<1>6. ActiveCountsInGauge'
  <2>1. \A m \in Method : Value(active', m) = Value(contents["active_requests"], m) + Cardinality(InGauge(m)')
    BY <1>3, <1>5, FS_EmptySet
  <2> QED
    BY <2>1 DEF ActiveCountsInGauge, Value
<1>7. CompletionsCountedOnce'
  <2>1. ASSUME NEW k \in Key
        PROVE  /\ Counts(requests', base'["requests_total"], Counted(k)', k)
               /\ Counts(duration', base'["request_duration_seconds"], Observed(k)', k)
    <3>1. /\ Counted(k)' = {} /\ Observed(k)' = {} /\ Cardinality({}) = 0
      BY <1>3, FS_EmptySet
    <3>2. \A values : (\A x \in DOMAIN values : values[x] \in Nat) => Counts(values, values, {}, k)
      BY FS_EmptySet DEF Counts, Value
    <3>3. /\ \A x \in DOMAIN contents["requests_total"] : contents["requests_total"][x] \in Nat
          /\ \A x \in DOMAIN contents["request_duration_seconds"] :
               contents["request_duration_seconds"][x] \in Nat
      BY DEF Sound, Series
    <3> QED
      BY <3>1, <3>2, <3>3
  <2> QED
    BY <2>1 DEF CompletionsCountedOnce, Complete, Contents, Counts, Value
<1>8. ScrapeRead'
  BY NoScrape
<1>9. SavesRead'
  BY NoSaves
<1> QED
  BY <1>1, <1>2, <1>4, <1>6, <1>7, <1>8, <1>9 DEF IInv

\* The next process starts from the last checkpoint, or from nothing.
LEMMA RestartStep ==
  ASSUME IInv, Restart
  PROVE  IInv' /\ saved' = saved /\ restarts' # restarts
<1> DEFINE contents == IF saved = NoPage THEN Empty ELSE saved
<1>1. RestartWith(contents)
  BY DEF Restart
<1>2. Sound(contents)
  BY EmptySound DEF IInv, SavedKept
<1>3. saved # NoPage => contents = saved
  OBVIOUS
<1> HIDE DEF contents
<1>4. /\ active' = contents["active_requests"]
      /\ duration' = contents["request_duration_seconds"]
      /\ requests' = contents["requests_total"]
      /\ base' = contents
      /\ phase' = NoPhase /\ method' = NoMethod /\ status' = NoStatus /\ recorded' = NotRecorded
      /\ unread' = NoUnread /\ payload' = NoPayload /\ since' = NoPayload
      /\ EndScrape /\ saved' = saved
  BY <1>1 DEF RestartWith
<1>5. restarts' \in 0 .. MaxRestarts /\ restarts' # restarts
  BY <1>1, RestartsAssumption DEF RestartWith, IInv, LocalTypes
<1>6. SavedKept'
  <2> SUFFICES ASSUME saved # NoPage
               PROVE  /\ Grown(saved["request_duration_seconds"], duration')
                      /\ Grown(saved["requests_total"], requests')
    BY <1>4 DEF IInv, SavedKept, Sound, Grown, Backed, Series
  <2>1. /\ Series(MaxSeries, Key, saved["request_duration_seconds"])
        /\ Series(MaxSeries, Key, saved["requests_total"])
    BY DEF IInv, SavedKept, Sound
  <2> QED
    BY <1>3, <1>4, <2>1, GrownOnce
<1> QED
  BY <1>2, <1>4, <1>5, <1>6, BeginsSound

\* The first process starts from nothing.
LEMMA Initially == RestartInit => IInv
<1> SUFFICES ASSUME RestartInit PROVE IInv
  OBVIOUS
<1>1. /\ phase = NoPhase /\ method = NoMethod /\ status = NoStatus /\ recorded = NotRecorded
      /\ active = <<>> /\ requests = <<>> /\ duration = <<>> /\ base = Empty
      /\ todo = <<>> /\ draft = NoPage /\ size = 0 /\ outgrown = FALSE
      /\ unread = NoUnread /\ payload = NoPayload /\ since = NoPayload
      /\ saved = NoPage /\ restarts = 0
  BY DEF RestartInit, ScrapeInit, Init
<1>2. LocalTypes
  <2>1. restarts \in 0 .. MaxRestarts
    BY <1>1, RestartsAssumption
  <2> QED
    BY <1>1, <2>1, NobodyTyped, Zenon DEF LocalTypes
<1>3. /\ active = Empty["active_requests"] /\ duration = Empty["request_duration_seconds"]
      /\ requests = Empty["requests_total"]
  BY <1>1, EmptySound DEF Instrument
<1>4. InstrumentTypes /\ BaseKept /\ Backed(duration, requests)
  BY <1>1, <1>3, EmptySound DEF InstrumentTypes, BaseKept, Sound
<1>5. DOMAIN active = {} /\ DOMAIN requests = {} /\ DOMAIN duration = {}
  BY <1>1
<1>6. /\ \A m \in Method : InGauge(m) = {}
      /\ \A k \in Key : Counted(k) = {} /\ Observed(k) = {}
  BY <1>1 DEF InGauge, Counted, Observed, NoPhase, NotRecorded
<1>7. LeavesWhatItEntered /\ ActiveCountsInGauge
  <2>1. LeavesWhatItEntered
    BY <1>1, <1>6 DEF LeavesWhatItEntered, NoPhase
  <2>2. \A m \in Method : Value(active, m) = 0 /\ Value(base["active_requests"], m) = 0
    BY <1>1, <1>3, <1>5 DEF Value
  <2>3. \A m \in Method : Cardinality(InGauge(m)) = 0
    BY <1>6, FS_EmptySet
  <2> QED
    BY <2>1, <2>2, <2>3 DEF ActiveCountsInGauge
<1>8. CompletionsCountedOnce
  BY <1>5, <1>6 DEF CompletionsCountedOnce, Complete, Contents
<1>9. SavedKept /\ ScrapeRead
  <2>1. Read(NoPage, NoPage, duration, requests)
    BY DEF Read, NoPage
  <2>2. size \in 0 .. MaxLines
    BY <1>1, LinesAssumption
  <2>3. outgrown \in BOOLEAN /\ ~outgrown
    BY <1>1, Zenon
  <2> QED
    BY <1>1, <2>1, <2>2, <2>3 DEF SavedKept, ScrapeRead
<1>10. SavesRead
  <2>1. ASSUME NEW w \in Saver
        PROVE  payload[w] = NoPage /\ since[w] = NoPage /\ unread[w] = <<>>
    BY <1>1 DEF NoUnread, NoPayload
  <2>2. Read(NoPage, NoPage, duration, requests)
    BY DEF Read, NoPage
  <2>3. /\ unread \in [Saver -> {<<>>, Names, Tail(Names), Tail(Tail(Names))}]
        /\ DOMAIN payload = Saver /\ DOMAIN since = Saver
    BY <1>1 DEF NoUnread, NoPayload
  <2> QED
    BY <2>1, <2>2, <2>3 DEF SavesRead
<1> QED
  BY <1>2, <1>4, <1>7, <1>8, <1>9, <1>10 DEF IInv

-----------------------------------------------------------------------------
(***************************************************************************)
(* The theorems.                                                           *)
(***************************************************************************)
\* Nothing in the invariant depends on what a step left unchanged.
LEMMA Stutter == IInv /\ UNCHANGED allVars => IInv'
<1> SUFFICES ASSUME IInv, UNCHANGED allVars PROVE IInv'
  OBVIOUS
<1>1. /\ UNCHANGED <<scrapeVars, vars, scrape, unread, payload, since, saved, base, restarts>>
      /\ UNCHANGED <<requests, duration>>
  BY DEF allVars, scrapeVars, vars, instruments, life, saves
<1> QED
  BY <1>1, SavesKept, SaveStep

\* Every step keeps the invariant, and a save installs no less than it found.
LEMMA NextStep ==
  ASSUME IInv, RestartNext
  PROVE  /\ IInv'
         /\ \A w \in Saver : Install(w) /\ since[w] # NoPage =>
              \A n \in {"requests_total", "request_duration_seconds"} : Grown(since[w][n], saved'[n])
<1>1. ASSUME StartScrape /\ Walks + ScrapeWeight <= MaxWalks /\ UNCHANGED life
      PROVE  IInv'
  BY <1>1, StartStep
<1>2. ASSUME (Render \/ Deliver \/ Refuse) /\ UNCHANGED life
      PROVE  IInv'
  BY <1>2, RenderStep, AnswerStep
<1>3. ASSUME Next /\ UNCHANGED <<scrape, life>>
      PROVE  IInv'
  BY <1>3, ServeStep DEF Next
<1>4. ASSUME \E w \in Saver : StartSave(w) \/ Copy(w) \/ Install(w) \/ SaveFails(w)
      PROVE  IInv'
  BY <1>4, StartSaveStep, CopyStep, InstallStep, SaveFailsStep
<1>5. ASSUME Restart
      PROVE  IInv'
  BY <1>5, RestartStep
<1>6. IInv'
  BY <1>1, <1>2, <1>3, <1>4, <1>5 DEF RestartNext
<1> QED
  BY <1>6, InstallStep

\* Within a process no series goes away.
LEMMA SeriesStay ==
  ASSUME RestartNext, restarts' = restarts, IInv
  PROVE  /\ DOMAIN active \subseteq DOMAIN active' /\ DOMAIN requests \subseteq DOMAIN requests'
         /\ DOMAIN duration \subseteq DOMAIN duration'
<1>1. ~Restart
  BY RestartStep
<1>2. CASE UNCHANGED vars
  BY <1>2 DEF vars, instruments
<1>3. CASE Next
  <2>1. PICK r \in Request : Serve(r)
    BY <1>3 DEF Next
  <2>2. \A values, key, amount, max : DOMAIN values \subseteq DOMAIN Recorded(values, key, amount, max)
    BY DEF Recorded, Added
  <2>3. CASE (\E raw \in RawMethod : Begin(r, MethodOf(raw))) \/ Leave(r) \/ Count(r) \/ Observe(r)
    BY <2>2, <2>3 DEF Begin, Leave, Count, Observe
  <2>4. CASE \/ \E code \in RawStatus : StartResponse(r, code)
             \/ AppEnds(r) \/ ReturnBody(r) \/ FirstChunk(r) \/ BodyEnds(r) \/ CloseUnstarted(r)
    BY <2>4 DEF StartResponse, AppEnds, ReturnBody, FirstChunk, BodyEnds, CloseUnstarted, Finish, instruments
  <2> QED
    BY <2>1, <2>3, <2>4 DEF Serve
<1> QED
  BY <1>1, <1>2, <1>3
     DEF RestartNext, StartScrape, Render, Deliver, Refuse, StartSave, Copy, Install, SaveFails, EndSave,
         scrapeVars

\* A registry that is too long at its shortest stays so within a process.
LEMMA TooLongStays ==
  ASSUME IInv, RestartNext, restarts' = restarts, TooLongNow
  PROVE  TooLongNow'
<1>1. \A n \in Instrument : Shortest(n) \in Nat /\ Shortest(n)' \in Nat /\ Shortest(n) <= Shortest(n)'
  BY NextStep, SeriesStay, LinesGrow DEF IInv
<1>2. /\ Shortest("active_requests") \in Nat /\ Shortest("active_requests")' \in Nat
      /\ Shortest("active_requests") <= Shortest("active_requests")'
  BY <1>1 DEF Instrument
<1>3. /\ Shortest("request_duration_seconds") \in Nat /\ Shortest("request_duration_seconds")' \in Nat
      /\ Shortest("request_duration_seconds") <= Shortest("request_duration_seconds")'
  BY <1>1 DEF Instrument
<1>4. /\ Shortest("requests_total") \in Nat /\ Shortest("requests_total")' \in Nat
      /\ Shortest("requests_total") <= Shortest("requests_total")'
  BY <1>1 DEF Instrument
<1> QED
  BY <1>2, <1>3, <1>4, LinesAssumption DEF TooLongNow

\* The inductive invariant holds in every reachable state.
THEOREM ServiceInvariance == RestartSpec => []IInv
<1>1. IInv /\ [RestartNext]_allVars => IInv'
  BY NextStep, Stutter
<1> QED
  BY Initially, <1>1, PTL DEF RestartSpec

\* Types, and the bounds on the series of each instrument and on a page.
THEOREM ServiceTyped == RestartSpec => []RestartTypeOK
<1>1. IInv => RestartTypeOK
  <2> SUFFICES ASSUME IInv PROVE RestartTypeOK
    OBVIOUS
  <2>1. TypeOK
    BY DEF IInv, LocalTypes, InstrumentTypes, TypeOK
  <2>2. /\ todo \in {<<>>, Names, Tail(Names), Tail(Tail(Names))}
        /\ size \in 0 .. MaxLines /\ outgrown \in BOOLEAN
        /\ \A w \in Saver : unread[w] \in {<<>>, Names, Tail(Names), Tail(Tail(Names))}
    BY DEF IInv, ScrapeRead, SavesRead, Place
  <2>3. (saved # NoPage => DOMAIN saved = Range(Names)) /\ DOMAIN base = Range(Names)
    BY NamesInOrder DEF IInv, SavedKept, BaseKept, Sound
  <2> QED
    BY <2>1, <2>2, <2>3 DEF IInv, LocalTypes, RestartTypeOK
<1> QED
  BY ServiceInvariance, <1>1, PTL

\* The gauge counts the requests in progress, on top of what was restored.
THEOREM ActiveAlwaysInGauge == RestartSpec => []ActiveCountsInGauge
<1>1. IInv => ActiveCountsInGauge
  BY DEF IInv
<1> QED
  BY ServiceInvariance, <1>1, PTL

\* A key of the counter or of the histogram has all its completions, or none.
THEOREM CompletionsAlwaysCountedOnce == RestartSpec => []CompletionsCountedOnce
<1>1. IInv => CompletionsCountedOnce
  BY DEF IInv
<1> QED
  BY ServiceInvariance, <1>1, PTL

\* Durations are never ahead of the counts: not on a page, not in a checkpoint,
\* whichever of several saves installed it.
THEOREM DurationsAlwaysBehind == RestartSpec => []DurationsNeverAhead
<1>1. IInv => DurationsNeverAhead
  <2> SUFFICES ASSUME IInv PROVE DurationsNeverAhead
    OBVIOUS
  <2>1. \A observed, counted : Backed(observed, counted) => NotAhead(observed, counted)
    BY DEF Backed, NotAhead
  <2>2. NotAhead(duration, requests)
    BY <2>1 DEF IInv
  <2>3. ASSUME Len(todo) = 1
        PROVE  NotAhead(Page["request_duration_seconds"], Page["requests_total"])
    <3>1. todo # <<>> /\ Place(todo, draft)
      <4>1. todo # <<>>
        BY <2>3
      <4> QED
        BY <4>1, PendingTyped
    <3>2. Read(Page, NoPage, duration, requests) /\ DOMAIN Page = DOMAIN draft \cup {Head(todo)}
      BY <3>1, ReadNext DEF IInv, ScrapeRead, Page
    <3>3. "requests_total" \in DOMAIN Page
      <4>1. todo # Names /\ todo # Tail(Names)
        BY <2>3, NamesInOrder
      <4>2. Head(todo) = "requests_total"
        BY <3>1, <4>1, NamesInOrder DEF Place
      <4> QED
        BY <3>2, <4>2
    <3>4. Backed(Page["request_duration_seconds"], Page["requests_total"])
      BY <3>2, <3>3 DEF Read
    <3> QED
      BY <2>1, <3>4
  <2>4. saved # NoPage => NotAhead(saved["request_duration_seconds"], saved["requests_total"])
    BY <2>1 DEF IInv, SavedKept, Sound
  <2> QED
    BY <2>2, <2>3, <2>4 DEF DurationsNeverAhead
<1> QED
  BY ServiceInvariance, <1>1, PTL

\* A registry whose shortest page is too long stays so until the process ends,
\* and no scrape that began when it was is answered with a page.
THEOREM RefusalsLast == RestartSpec => RefusalLasts
<1>1. ASSUME IInv, [RestartNext]_allVars
      PROVE  [/\ TooLongNow /\ restarts' = restarts => TooLongNow'
              /\ outgrown => ~Deliver]_allVars
  BY <1>1, TooLongStays, DeliverFits
<1> QED
  BY ServiceInvariance, <1>1, PTL DEF RestartSpec, RefusalLasts

\* A save installs no less than the checkpoint had when it began.
THEOREM CheckpointsAlwaysGrow == RestartSpec => CheckpointsGrow
<1>1. ASSUME IInv, [RestartNext]_allVars
      PROVE  [\A w \in Saver : Install(w) /\ since[w] # NoPage =>
                \A n \in {"requests_total", "request_duration_seconds"} :
                  \A k \in DOMAIN since[w][n] :
                    k \in DOMAIN saved'[n] /\ saved'[n][k] >= since[w][n][k]]_allVars
  BY <1>1, NextStep DEF Grown
<1> QED
  BY ServiceInvariance, <1>1, PTL DEF RestartSpec, CheckpointsGrow
=============================================================================
