--------------------------- MODULE RegistryProofs ---------------------------
(***************************************************************************)
(* The invariants of Registry, for any number of threads, names, label     *)
(* sets, calls, amounts, limits and policies.                              *)
(***************************************************************************)
EXTENDS Registry, FiniteSetTheorems, WellFoundedInduction, TLAPS

-----------------------------------------------------------------------------
(***************************************************************************)
(* The inductive invariant.                                                *)
(***************************************************************************)
Series     == UNION {[D -> Finite] : D \in SUBSET Label}
Definition == [kind : Kind, maxSeries : Nat, maxSamples : Nat, buckets : Nat, maxBuckets : Nat]
Object     == [name : Name, definition : Definition, series : Series, drifted : SUBSET Label]
Copied     == [definition : Definition, series : Series, drifted : SUBSET Label]
Metrics    == UNION {[D -> Copied] : D \in SUBSET Name}
Checkpoint == [limits : Limits, metrics : Metrics]

MemoryTypes ==
  /\ running \in BOOLEAN
  /\ limits \in Limits
  /\ objects \in Seq(Object)
  /\ table \in [Name -> Nat]
  /\ handle \in [Thread -> Nat]
  /\ accepted \in [Name -> Series]
  /\ calls \subseteq Call

WalkTypes ==
  /\ saving \in BOOLEAN
  /\ todo \subseteq Registered
  /\ draft \in Metrics
  /\ saved \in Checkpoint \cup {NoCheckpoint}
  /\ savedCalls \subseteq Call

\* Names and instruments correspond, and a thread holds one of them.
OneObjectPerName ==
  /\ \A n \in Registered : table[n] \in 1 .. Len(objects) /\ objects[table[n]].name = n
  /\ \A i \in 1 .. Len(objects) : table[objects[i].name] = i
  /\ \A t \in Thread : handle[t] \in 0 .. Len(objects)

\* Between two processes there is nothing in memory.
NothingBetween ==
  ~running =>
    /\ objects = <<>> /\ calls = {}
    /\ table = [n \in Name |-> None] /\ handle = [t \in Thread |-> None]
    /\ ~saving /\ todo = {} /\ draft = NoSeries

\* What an instrument keeps of its limits and of those of the registry.
Sound(m, l) ==
  /\ Cardinality(DOMAIN m.series) <= m.definition.maxSeries
  /\ Representable(m)
  /\ m.definition.buckets <= l.maxBuckets
  /\ Constructible(m.definition)
  /\ m.definition.maxBuckets = IF m.definition.kind = "histogram" THEN l.maxBuckets ELSE 0

WithinLimits ==
  /\ Cardinality(Registered) <= limits.maxMetrics
  /\ \A i \in 1 .. Len(objects) : Sound(objects[i], limits)

\* DefinitionOf in a registry with other limits.
DefinitionUnder(c, l) ==
  [kind       |-> c.kind,
   maxSeries  |-> Given(c.maxSeries, l.maxSeries),
   maxSamples |-> IF c.kind = "histogram" THEN Given(c.maxSamples, l.maxSamples) ELSE 0,
   buckets    |-> IF c.kind = "histogram" THEN c.buckets ELSE 0,
   maxBuckets |-> IF c.kind = "histogram" THEN l.maxBuckets ELSE 0]

\* The instruments are those that calls asked for, and as they asked for them.
CallsAnswered ==
  /\ \A c \in calls : table[c.name] # None
                        /\ objects[table[c.name]].definition = DefinitionUnder(c, limits)
  /\ \A n \in Registered : \E c \in calls : c.name = n

\* What the walk has copied is in the registry, with the same definition.
DraftOfRegistered ==
  \A n \in DOMAIN draft :
    /\ n \in Registered
    /\ draft[n].definition = objects[table[n]].definition
    /\ Sound(draft[n], limits)

\* Nothing was accepted for a name without instrument.
NothingUnregistered == \A n \in Name : table[n] = None => accepted[n] = NoSeries

\* A checkpoint is the registry it was taken from as far as the limits and the
\* definitions go.
SavedSound ==
  saved # NoCheckpoint =>
    /\ Cardinality(DOMAIN saved.metrics) <= saved.limits.maxMetrics
    /\ \A n \in DOMAIN saved.metrics : Sound(saved.metrics[n], saved.limits)
    /\ \A c \in savedCalls :
         /\ c.name \in DOMAIN saved.metrics
         /\ saved.metrics[c.name].definition = DefinitionUnder(c, saved.limits)
    /\ \A n \in DOMAIN saved.metrics : \E c \in savedCalls : c.name = n

IInv ==
  /\ MemoryTypes /\ WalkTypes
  /\ OneObjectPerName /\ NothingBetween /\ WithinLimits
  /\ UpdatesAddUp /\ NothingUnregistered /\ CallsAnswered
  /\ DraftOfRegistered /\ SavedSound

-----------------------------------------------------------------------------
(***************************************************************************)
(* Data.                                                                   *)
(***************************************************************************)
\* The order of the names has a first one in each set of them.
LEMMA MinOfNames ==
  ASSUME NEW S \in SUBSET Name, S # {}
  PROVE  Min(S) \in S
<1>1. S \subseteq Nat
  BY NameAssumption
<1> DEFINE Less == {pair \in Nat \X Nat : pair[1] < pair[2]}
<1>2. IsWellFoundedOn(Less, Nat)
  BY NatLessThanWellFounded DEF OpToRel
<1>3. PICK x \in S : \A y \in S : <<y, x>> \notin Less
  BY <1>1, <1>2, WFMin
<1>4. ASSUME NEW y \in S
      PROVE  x <= y
  <2>1. x \in Nat /\ y \in Nat /\ <<y, x>> \notin Less
    BY <1>1, <1>3
  <2> QED
    BY <2>1
<1> QED
  BY <1>4 DEF Min

\* An instrument without series.
LEMMA NothingRecorded == NoSeries \in Series /\ DOMAIN NoSeries = {}
<1>1. NoSeries \in [{} -> Finite]
  BY DEF NoSeries
<1> QED
  BY <1>1 DEF Series

\* An empty walk.
LEMMA NothingCopied == NoSeries \in Metrics /\ DOMAIN NoSeries = {}
<1>1. NoSeries \in [{} -> Copied]
  BY DEF NoSeries
<1> QED
  BY <1>1 DEF Metrics

\* Recording in a series keeps the series of an instrument series.
LEMMA WithSeries ==
  ASSUME NEW s \in Series, NEW k \in Label, NEW v \in Finite
  PROVE  /\ With(s, k, v) \in Series
         /\ DOMAIN With(s, k, v) = DOMAIN s \cup {k}
         /\ DOMAIN s \subseteq Label
         /\ \A j \in DOMAIN s : s[j] \in Finite
         /\ \A j \in DOMAIN s \cup {k} : With(s, k, v)[j] = IF j = k THEN v ELSE s[j]
<1>1. PICK D \in SUBSET Label : s \in [D -> Finite]
  BY DEF Series
<1>2. With(s, k, v) \in [D \cup {k} -> Finite]
  BY <1>1 DEF With
<1>3. D \cup {k} \in SUBSET Label
  OBVIOUS
<1>4. With(s, k, v) \in Series
  BY <1>2, <1>3 DEF Series
<1> QED
  BY <1>1, <1>4 DEF With

\* Copying an instrument extends the walk by it.
LEMMA WithMetric ==
  ASSUME NEW d \in Metrics, NEW n \in Name, NEW m \in Copied
  PROVE  /\ With(d, n, m) \in Metrics
         /\ DOMAIN With(d, n, m) = DOMAIN d \cup {n}
         /\ \A j \in DOMAIN d \cup {n} : With(d, n, m)[j] = IF j = n THEN m ELSE d[j]
<1>1. PICK D \in SUBSET Name : d \in [D -> Copied]
  BY DEF Metrics
<1>2. With(d, n, m) \in [D \cup {n} -> Copied]
  BY <1>1 DEF With
<1>3. D \cup {n} \in SUBSET Name
  OBVIOUS
<1>4. With(d, n, m) \in Metrics
  BY <1>2, <1>3 DEF Metrics
<1> QED
  BY <1>1, <1>4 DEF With

\* The metrics of a walk or a checkpoint.
LEMMA MetricsTyped ==
  ASSUME NEW d \in Metrics
  PROVE  /\ DOMAIN d \in SUBSET Name
         /\ \A n \in DOMAIN d : d[n] \in Copied
<1>1. PICK D \in SUBSET Name : d \in [D -> Copied]
  BY DEF Metrics
<1> QED
  BY <1>1

\* What an instrument or its copy records is finite.
LEMMA SeriesTyped ==
  ASSUME NEW s \in Series
  PROVE  /\ DOMAIN s \subseteq Label
         /\ \A k \in DOMAIN s : s[k] \in Finite
         /\ IsFiniteSet(DOMAIN s) /\ Cardinality(DOMAIN s) \in Nat
<1>1. PICK D \in SUBSET Label : s \in [D -> Finite]
  BY DEF Series
<1> QED
  BY <1>1, NameAssumption, FS_Subset, FS_CardinalityType

\* The definition that a call asks for.
LEMMA DefinitionTyped ==
  ASSUME NEW c \in Call, NEW l \in Limits
  PROVE  DefinitionUnder(c, l) \in Definition
<1>1. c \in [name : Name, kind : Kind, maxSeries : Nat, maxSamples : Nat, buckets : Nat]
  BY CallAssumption
<1> QED
  BY <1>1 DEF DefinitionUnder, Definition, Limits, Given

\* The position of a name in the order of a set of names.
Rank(S, n) == Cardinality({j \in S : j <= n})

\* Ranks number a set of names.
LEMMA Ranks ==
  ASSUME NEW S \in SUBSET Name
  PROVE  /\ IsFiniteSet(S) /\ Cardinality(S) \in Nat
         /\ \A n \in S : Rank(S, n) \in 1 .. Cardinality(S)
         /\ \A m, n \in S : Rank(S, m) = Rank(S, n) => m = n
         /\ \A i \in 1 .. Cardinality(S) : \E n \in S : Rank(S, n) = i
<1> DEFINE Below(n) == {j \in S : j <= n}
<1>1. IsFiniteSet(S) /\ Cardinality(S) \in Nat /\ S \subseteq Nat
  BY NameAssumption, FS_Subset, FS_CardinalityType
<1>2. ASSUME NEW n \in S
      PROVE  IsFiniteSet(Below(n)) /\ Rank(S, n) \in Nat /\ Rank(S, n) <= Cardinality(S)
  BY <1>1, FS_Subset, FS_CardinalityType DEF Rank
<1>3. ASSUME NEW n \in S
      PROVE  Rank(S, n) \in 1 .. Cardinality(S)
  <2>1. n \in Below(n)
    BY <1>1
  <2>2. Rank(S, n) # 0
    BY <1>2, <2>1, FS_EmptySet DEF Rank
  <2> HIDE DEF Below
  <2> QED
    BY <1>1, <1>2, <2>2
<1>4. ASSUME NEW m \in S, NEW n \in S, m < n
      PROVE  Rank(S, m) < Rank(S, n)
  <2> m \in Nat /\ n \in Nat
    BY <1>1
  <2>1. Below(m) \in SUBSET Below(n) /\ n \in Below(n) /\ n \notin Below(m)
    <3>1. ASSUME NEW j \in S, j <= m
          PROVE  j <= n
      BY <1>1, <1>4, <3>1
    <3>2. ~(n <= m) /\ n <= n
      BY <1>4
    <3> QED
      BY <3>1, <3>2
  <2>2. Cardinality(Below(m)) <= Cardinality(Below(n)) /\ Cardinality(Below(n)) # Cardinality(Below(m))
    BY <1>2, <2>1, FS_Subset
  <2> QED
    BY <1>2, <2>2 DEF Rank
<1>5. ASSUME NEW m \in S, NEW n \in S, Rank(S, m) = Rank(S, n)
      PROVE  m = n
  <2> m \in Nat /\ n \in Nat
    BY <1>1
  <2> Rank(S, m) \in Nat /\ Rank(S, n) \in Nat
    BY <1>2
  <2>1. ~(m < n)
    <3>1. m < n => Rank(S, m) < Rank(S, n)
      BY <1>4
    <3> QED
      BY <1>5, <3>1
  <2>2. ~(n < m)
    <3>1. n < m => Rank(S, n) < Rank(S, m)
      BY <1>4
    <3> QED
      BY <1>5, <3>1
  <2> QED
    BY <2>1, <2>2
<1>6. ASSUME NEW i \in 1 .. Cardinality(S)
      PROVE  \E n \in S : Rank(S, n) = i
  <2> DEFINE f == [n \in S |-> Rank(S, n)]
             T == 1 .. Cardinality(S)
  <2>1. f \in Injection(S, T)
    BY <1>3, <1>5 DEF Injection, IsInjective
  <2>2. IsFiniteSet(T) /\ Cardinality(T) = Cardinality(S)
    BY <1>1, FS_Interval
  <2>3. f \in Surjection(S, T)
    BY <2>1, <2>2, FS_Injection
  <2>4. \E n \in S : f[n] = i
    BY <2>3, <1>6 DEF Surjection
  <2> QED
    BY <2>4
<1> QED
  BY <1>1, <1>3, <1>5, <1>6

\* A definition that fits the registry is restored as it was.
LEMMA RestoredAsItWas ==
  ASSUME NEW l \in Limits, NEW m \in Copied, Sound(m, l)
  PROVE  RestoredDefinition(m, l) = m.definition
<1>1. m.definition \in Definition
  BY DEF Copied
<1>2. m.definition.maxBuckets = IF m.definition.kind = "histogram" THEN l.maxBuckets ELSE 0
  BY DEF Sound
<1> QED
  BY <1>1, <1>2 DEF RestoredDefinition, Definition

\* The instruments of a checkpoint in the order of their names.
LEMMA Restored ==
  ASSUME NEW payload \in Checkpoint, NEW l \in Limits,
         \A n \in DOMAIN payload.metrics : Sound(payload.metrics[n], l)
  PROVE  LET S   == DOMAIN payload.metrics
             out == RestoredObjects(payload, l)
         IN  /\ out \in Seq(Object) /\ Len(out) = Cardinality(S)
             /\ \A n \in S : /\ Rank(S, n) \in 1 .. Len(out)
                             /\ out[Rank(S, n)].name = n
                             /\ out[Rank(S, n)].definition = payload.metrics[n].definition
                             /\ out[Rank(S, n)].series = payload.metrics[n].series
             /\ \A i \in 1 .. Len(out) : out[i].name \in S /\ Rank(S, out[i].name) = i
<1> DEFINE S     == DOMAIN payload.metrics
           out   == RestoredObjects(payload, l)
           At(i) == CHOOSE j \in S : Rank(S, j) = i
<1>1. payload.metrics \in Metrics
  BY DEF Checkpoint
<1>2. S \in SUBSET Name /\ \A n \in S : payload.metrics[n] \in Copied
  BY <1>1, MetricsTyped
<1>3. out = [i \in 1 .. Cardinality(S) |->
               [name |-> At(i), definition |-> RestoredDefinition(payload.metrics[At(i)], l),
                series |-> payload.metrics[At(i)].series,
                drifted |-> payload.metrics[At(i)].drifted]]
  BY DEF RestoredObjects, Rank
<1>10. \A n \in S : RestoredDefinition(payload.metrics[n], l) = payload.metrics[n].definition
  BY <1>2, RestoredAsItWas
<1> HIDE DEF S, out
<1>4. \A i \in 1 .. Cardinality(S) : At(i) \in S /\ Rank(S, At(i)) = i
  BY <1>2, Ranks
<1>5. \A n \in S : Rank(S, n) \in 1 .. Cardinality(S) /\ At(Rank(S, n)) = n
  BY <1>2, <1>4, Ranks
<1> HIDE DEF At
<1>6. ASSUME NEW i \in 1 .. Cardinality(S)
      PROVE  [name |-> At(i), definition |-> RestoredDefinition(payload.metrics[At(i)], l),
              series |-> payload.metrics[At(i)].series,
              drifted |-> payload.metrics[At(i)].drifted] \in Object
  <2>1. At(i) \in Name /\ payload.metrics[At(i)] \in Copied
    BY <1>2, <1>4
  <2>2. RestoredDefinition(payload.metrics[At(i)], l) = payload.metrics[At(i)].definition
    BY <1>4, <1>10
  <2> QED
    BY <2>1, <2>2 DEF Object, Copied
<1>7. out \in Seq(Object) /\ Len(out) = Cardinality(S) /\ Cardinality(S) \in Nat
  <2>1. out \in [1 .. Cardinality(S) -> Object] /\ Cardinality(S) \in Nat
    BY <1>2, <1>3, <1>6, Ranks
  <2> QED
    BY <2>1
<1>8. \A n \in S : /\ Rank(S, n) \in 1 .. Len(out)
                   /\ out[Rank(S, n)].name = n
                   /\ out[Rank(S, n)].definition = payload.metrics[n].definition
                   /\ out[Rank(S, n)].series = payload.metrics[n].series
  BY <1>3, <1>5, <1>7, <1>10
<1>9. \A i \in 1 .. Len(out) : out[i].name \in S /\ Rank(S, out[i].name) = i
  BY <1>3, <1>4, <1>7
<1> QED
  BY <1>7, <1>8, <1>9 DEF S, out

\* The registered names and the instruments a thread may hold.
LEMMA ObjectsTyped ==
  ASSUME MemoryTypes, OneObjectPerName
  PROVE  /\ \A i \in 1 .. Len(objects) : objects[i] \in Object
         /\ Len(objects) \in Nat
         /\ IsFiniteSet(Registered) /\ Cardinality(Registered) \in Nat
<1>1. Registered \in SUBSET Name
  BY DEF Registered
<1>2. IsFiniteSet(Registered) /\ Cardinality(Registered) \in Nat
  BY <1>1, NameAssumption, FS_Subset, FS_CardinalityType
<1>3. objects \in Seq(Object)
  BY DEF MemoryTypes
<1> QED
  BY <1>2, <1>3

\* An instrument without series is sound if the registry takes its definition.
LEMMA EmptySound ==
  ASSUME NEW l \in Limits, NEW d \in Definition, NEW m, m.series = NoSeries, m.definition = d,
         d.buckets <= l.maxBuckets, Constructible(d),
         d.maxBuckets = IF d.kind = "histogram" THEN l.maxBuckets ELSE 0
  PROVE  Sound(m, l)
BY NothingRecorded, FS_EmptySet DEF Sound, Representable, Constructible, Definition

-----------------------------------------------------------------------------
(***************************************************************************)
(* What the steps preserve.                                                *)
(***************************************************************************)
\* Nothing is in memory before the first process.
LEMMA Initially == Init => IInv
<1> SUFFICES ASSUME Init PROVE IInv
  OBVIOUS
<1>1. Registered = {} /\ Len(objects) = 0
  BY DEF Init, Registered
<1>2. MemoryTypes
  <2>1. objects \in Seq(Object)
    BY DEF Init
  <2>2. table \in [Name -> Nat] /\ handle \in [Thread -> Nat] /\ accepted \in [Name -> Series]
    BY NothingRecorded DEF Init, None
  <2>3. running \in BOOLEAN /\ limits \in Limits /\ calls \subseteq Call
    BY LimitAssumption DEF Init
  <2> QED
    BY <2>1, <2>2, <2>3 DEF MemoryTypes
<1>3. WalkTypes
  BY NothingCopied DEF Init, WalkTypes
<1>4. OneObjectPerName /\ NothingBetween
  BY <1>1 DEF Init, OneObjectPerName, NothingBetween, None
<1>5. WithinLimits
  <2>1. limits.maxMetrics \in Nat
    BY <1>2 DEF MemoryTypes, Limits
  <2> QED
    BY <1>1, <2>1, FS_EmptySet DEF WithinLimits
<1>6. UpdatesAddUp /\ NothingUnregistered /\ CallsAnswered
  BY <1>1 DEF Init, UpdatesAddUp, NothingUnregistered, CallsAnswered
<1>7. DraftOfRegistered /\ SavedSound
  BY NothingCopied DEF Init, DraftOfRegistered, SavedSound
<1> QED
  BY <1>2, <1>3, <1>4, <1>5, <1>6, <1>7 DEF IInv

\* A call that finds its instrument only hands it out.
LEMMA ReuseStep ==
  ASSUME IInv, NEW t \in Thread, NEW c \in Call, Register(t, c), Reusable(c.name, DefinitionOf(c))
  PROVE  IInv'
<1> DEFINE d == DefinitionOf(c)
<1>1. c.name \in Name
  BY CallAssumption
<1>2. /\ handle' = [handle EXCEPT ![t] = table[c.name]]
      /\ UNCHANGED <<objects, table>>
  BY DEF Register, Reusable, HasRoom
<1>3. UNCHANGED <<running, limits, saving, todo, draft, saved, accepted, savedCalls>>
      /\ calls' = calls \cup {c} /\ running
  BY DEF Register, walk
<1>4. Registered' = Registered
  BY <1>2 DEF Registered
<1>5. table[c.name] # None /\ objects[table[c.name]].definition = d
  BY DEF Reusable
<1>6. c.name \in Registered /\ d = DefinitionUnder(c, limits)
  BY <1>1, <1>5 DEF Registered, DefinitionOf, DefinitionUnder
<1>7. MemoryTypes'
  BY <1>1, <1>2, <1>3 DEF IInv, MemoryTypes
<1>8. WalkTypes'
  BY <1>3, <1>4 DEF IInv, WalkTypes
<1>9. OneObjectPerName' /\ NothingBetween'
  BY <1>2, <1>3, <1>4, <1>6 DEF IInv, OneObjectPerName, NothingBetween, MemoryTypes
<1>10. WithinLimits' /\ UpdatesAddUp' /\ NothingUnregistered'
  BY <1>2, <1>3, <1>4 DEF IInv, WithinLimits, UpdatesAddUp, NothingUnregistered, Sound, Representable, Constructible
<1>11. CallsAnswered'
  BY <1>2, <1>3, <1>4, <1>5, <1>6 DEF IInv, CallsAnswered
<1>12. DraftOfRegistered' /\ SavedSound'
  BY <1>2, <1>3, <1>4 DEF IInv, DraftOfRegistered, SavedSound, Sound, Representable, Constructible
<1> QED
  BY <1>7, <1>8, <1>9, <1>10, <1>11, <1>12 DEF IInv

\* A call for a new name adds an instrument without series.
LEMMA NewStep ==
  ASSUME IInv, NEW t \in Thread, NEW c \in Call, Register(t, c), ~Reusable(c.name, DefinitionOf(c))
  PROVE  IInv'
<1> DEFINE d == DefinitionOf(c)
           n == c.name
           o == [name |-> n, definition |-> d, series |-> NoSeries, drifted |-> {}]
           i == Len(objects) + 1
<1>1. n \in Name /\ c.kind \in Kind /\ c.buckets \in Nat
  BY CallAssumption
<1>2. HasRoom(n) /\ Constructible(d) /\ running
  BY DEF Register
<1>3. UNCHANGED <<running, limits, saving, todo, draft, saved, accepted, savedCalls>>
      /\ calls' = calls \cup {c}
  BY DEF Register, walk
<1>4. d = DefinitionUnder(c, limits)
  BY DEF DefinitionOf, DefinitionUnder
<1>5. d \in Definition /\ o \in Object
  <2>1. d \in Definition
    BY <1>4, DefinitionTyped DEF IInv, MemoryTypes
  <2> QED
    BY <1>1, <2>1, NothingRecorded DEF Object
<1>6. objects' = Append(objects, o) /\ objects \in Seq(Object)
  BY DEF Register, IInv, MemoryTypes
<1>7. /\ objects' \in Seq(Object) /\ Len(objects') = i /\ i \in Nat
      /\ objects'[i] = o
      /\ \A j \in 1 .. Len(objects) : objects'[j] = objects[j]
  BY <1>5, <1>6
<1>8. table' = [table EXCEPT ![n] = i] /\ handle' = [handle EXCEPT ![t] = i]
  BY <1>7 DEF Register
<1> HIDE DEF d, o, i
<1>9. /\ table' \in [Name -> Nat] /\ handle' \in [Thread -> Nat]
      /\ table'[n] = i /\ \A m \in Name \ {n} : table'[m] = table[m]
      /\ \A u \in Thread : handle'[u] = i \/ handle'[u] = handle[u]
  BY <1>1, <1>7, <1>8 DEF IInv, MemoryTypes
<1>10. table[n] = None /\ i # None /\ n \notin Registered /\ Registered' = Registered \cup {n}
  <2>1. i # None
    BY <1>6 DEF i, None
  <2>2. table[n] = None
    BY <1>2 DEF HasRoom
  <2> QED
    BY <1>1, <1>9, <2>1, <2>2 DEF Registered
<1>11. i = Len(objects) + 1 /\ Len(objects) \in Nat
  BY <1>6 DEF i
<1>12. MemoryTypes'
  BY <1>3, <1>7, <1>9 DEF IInv, MemoryTypes
<1>13. WalkTypes'
  BY <1>3, <1>10 DEF IInv, WalkTypes
<1>14. OneObjectPerName'
  <2>1. \A m \in Registered' : table'[m] \in 1 .. Len(objects') /\ objects'[table'[m]].name = m
    <3> TAKE m \in Registered'
    <3>1. CASE m = n
      BY <3>1, <1>7, <1>9, <1>11 DEF o
    <3>2. CASE m # n
      <4>1. m \in Registered /\ m \in Name
        BY <3>2, <1>10 DEF Registered
      <4>2. table[m] \in 1 .. Len(objects) /\ objects[table[m]].name = m
        BY <4>1 DEF IInv, OneObjectPerName
      <4> QED
        BY <3>2, <4>1, <4>2, <1>7, <1>9, <1>11
    <3> QED
      BY <3>1, <3>2
  <2>2. \A j \in 1 .. Len(objects') : table'[objects'[j].name] = j
    <3> TAKE j \in 1 .. Len(objects')
    <3>1. CASE j = i
      BY <3>1, <1>7, <1>9 DEF o
    <3>2. CASE j # i
      <4>1. j \in 1 .. Len(objects)
        BY <3>2, <1>7, <1>11
      <4>2. objects[j] \in Object /\ table[objects[j].name] = j /\ j # None
        BY <4>1, <1>6 DEF IInv, OneObjectPerName, None
      <4>3. objects[j].name \in Name /\ objects[j].name # n
        BY <4>2, <1>10 DEF Object
      <4> QED
        BY <4>1, <4>2, <4>3, <1>7, <1>9
    <3> QED
      BY <3>1, <3>2
  <2>3. \A u \in Thread : handle'[u] \in 0 .. Len(objects')
    BY <1>7, <1>9, <1>11 DEF IInv, OneObjectPerName
  <2> QED
    BY <2>1, <2>2, <2>3 DEF OneObjectPerName
<1>15. NothingBetween'
  BY <1>2, <1>3 DEF NothingBetween
<1>16. WithinLimits'
  <2>1. Cardinality(Registered') <= limits'.maxMetrics
    <3>1. limits.maxMetrics \in Nat
      BY DEF IInv, MemoryTypes, Limits
    <3>2. IsFiniteSet(Registered) /\ Cardinality(Registered) \in Nat
      BY ObjectsTyped DEF IInv
    <3>3. Cardinality(Registered') = Cardinality(Registered) + 1
      BY <1>10, <3>2, FS_AddElement
    <3> QED
      BY <1>2, <1>3, <3>1, <3>2, <3>3 DEF HasRoom
  <2>2. Sound(o, limits)
    <3>1. d.buckets <= limits.maxBuckets
      <4>1. limits.maxBuckets \in Nat
        BY DEF IInv, MemoryTypes, Limits
      <4> QED
        BY <1>2, <1>4, <4>1 DEF Constructible, DefinitionUnder
    <3>2. limits \in Limits
      BY DEF IInv, MemoryTypes
    <3>3. d.maxBuckets = IF d.kind = "histogram" THEN limits.maxBuckets ELSE 0
      BY <1>4 DEF DefinitionUnder
    <3> QED
      BY <1>2, <1>5, <3>1, <3>2, <3>3, EmptySound DEF o
  <2>3. \A j \in 1 .. Len(objects') : Sound(objects'[j], limits)
    BY <2>2, <1>7, <1>11 DEF IInv, WithinLimits
  <2> QED
    BY <2>1, <2>3, <1>3 DEF WithinLimits, Sound, Representable, Constructible
<1>17. UpdatesAddUp' /\ NothingUnregistered'
  <2>1. accepted[n] = NoSeries
    BY <1>1, <1>10 DEF IInv, NothingUnregistered
  <2>2. \A m \in Registered : table[m] \in 1 .. Len(objects) /\ m \in Name /\ m # n
    BY <1>10 DEF IInv, OneObjectPerName, Registered
  <2>3. \A m \in Registered : objects'[table'[m]].series = accepted'[m]
    <3>1. \A m \in Registered : objects'[table'[m]] = objects[table[m]] /\ accepted'[m] = accepted[m]
      BY <2>2, <1>3, <1>7, <1>9
    <3> QED
      BY <3>1 DEF IInv, UpdatesAddUp
  <2>4. objects'[table'[n]].series = accepted'[n]
    BY <2>1, <1>3, <1>7, <1>9 DEF o
  <2>5. UpdatesAddUp'
    BY <2>3, <2>4, <1>10 DEF UpdatesAddUp
  <2>6. NothingUnregistered'
    BY <1>3, <1>7, <1>9, <1>10 DEF IInv, NothingUnregistered
  <2> QED
    BY <2>5, <2>6
<1>18. CallsAnswered'
  <2>1. \A e \in calls : /\ e.name \in Name /\ e.name # n
                         /\ table[e.name] \in 1 .. Len(objects) /\ table[e.name] # None
                         /\ objects[table[e.name]].definition = DefinitionUnder(e, limits)
    BY CallAssumption, <1>10 DEF IInv, MemoryTypes, CallsAnswered, OneObjectPerName, Registered
  <2>2. \A e \in calls' : table'[e.name] # None
                          /\ objects'[table'[e.name]].definition = DefinitionUnder(e, limits)
    BY <2>1, <1>3, <1>4, <1>7, <1>9, <1>10 DEF o
  <2>3. \A m \in Registered' : \E e \in calls' : e.name = m
    BY <1>3, <1>10 DEF IInv, CallsAnswered
  <2> QED
    BY <2>2, <2>3, <1>3 DEF CallsAnswered
<1>19. DraftOfRegistered' /\ SavedSound'
  <2>1. \A m \in Registered : table[m] \in 1 .. Len(objects) /\ m \in Name /\ m # n
    BY <1>10 DEF IInv, OneObjectPerName, Registered
  <2>2. \A m \in Registered : objects'[table'[m]] = objects[table[m]]
    BY <2>1, <1>7, <1>9
  <2> QED
    BY <2>2, <1>3, <1>10 DEF IInv, DraftOfRegistered, SavedSound, Sound, Representable, Constructible
<1> QED
  BY <1>12, <1>13, <1>14, <1>15, <1>16, <1>17, <1>18, <1>19 DEF IInv

\* A value that an instrument takes, and that is accepted as the sum of the
\* updates, is in its series and in no other.
LEMMA PutStep ==
  ASSUME IInv, NEW t \in Thread, NEW k \in Label, NEW v \in Finite,
         handle[t] # None,
         objects[handle[t]].definition.kind = "counter" => v >= 0,
         NEW gone \in SUBSET Label, Put(t, k, v, v, gone)
  PROVE  IInv'
<1> DEFINE i == handle[t]
           o == objects[i]
           p == [o EXCEPT !.series = With(o.series, k, v), !.drifted = gone]
<1>1. i \in 1 .. Len(objects) /\ Len(objects) \in Nat
  <2>1. i \in 0 .. Len(objects) /\ Len(objects) \in Nat /\ i # 0
    BY ObjectsTyped DEF IInv, OneObjectPerName, None
  <2> QED
    BY <2>1
<1>2. o \in Object
  BY <1>1, ObjectsTyped DEF IInv
<1>3. o.series \in Series /\ o.name \in Name /\ o.definition \in Definition
  BY <1>2 DEF Object
<1>4. p \in Object /\ p.name = o.name /\ p.definition = o.definition
      /\ p.series = With(o.series, k, v)
  BY <1>2, <1>3, WithSeries DEF Object
<1>5. /\ objects' = [objects EXCEPT ![i] = p]
      /\ accepted' = [accepted EXCEPT ![o.name] = With(@, k, v)]
      /\ UNCHANGED <<running, limits, table, handle, saving, todo, draft, saved, calls, savedCalls>>
  BY DEF Put, walk
<1>6. Fits(o, k)
  BY DEF Put
<1> HIDE DEF i, o, p
<1>7. /\ objects' \in Seq(Object) /\ Len(objects') = Len(objects)
      /\ objects'[i] = p
      /\ \A j \in 1 .. Len(objects) : j # i => objects'[j] = objects[j]
  <2>1. objects \in Seq(Object)
    BY DEF IInv, MemoryTypes
  <2> QED
    BY <1>1, <1>4, <1>5, <2>1
<1>8. \A j \in 1 .. Len(objects) :
        objects'[j].name = objects[j].name /\ objects'[j].definition = objects[j].definition
  BY <1>4, <1>7 DEF o
<1>9. Registered' = Registered
  BY <1>5 DEF Registered
<1>10. \A n \in Registered : n \in Name /\ table[n] \in 1 .. Len(objects)
  BY DEF IInv, OneObjectPerName, Registered
<1>11. table[o.name] = i /\ o.name \in Registered
  BY <1>1, <1>3 DEF IInv, OneObjectPerName, Registered, None, o
<1>12. accepted[o.name] = o.series
  BY <1>11 DEF IInv, UpdatesAddUp, o
<1>13. /\ accepted' \in [Name -> Series]
       /\ accepted'[o.name] = p.series
       /\ \A n \in Name \ {o.name} : accepted'[n] = accepted[n]
  <2>1. accepted \in [Name -> Series]
    BY DEF IInv, MemoryTypes
  <2>2. p.series \in Series
    BY <1>4 DEF Object
  <2> QED
    BY <1>3, <1>4, <1>5, <1>12, <2>1, <2>2
<1>14. Sound(p, limits)
  <2>1. Sound(o, limits)
    BY <1>1 DEF IInv, WithinLimits, o
  <2>2. Cardinality(DOMAIN p.series) <= p.definition.maxSeries
    <3>1. DOMAIN p.series = DOMAIN o.series \cup {k}
      <4>1. DOMAIN With(o.series, k, v) = DOMAIN o.series \cup {k}
        BY <1>3, WithSeries
      <4> QED
        BY <4>1, <1>4
    <3>2. IsFiniteSet(DOMAIN o.series) /\ Cardinality(DOMAIN o.series) \in Nat
      BY <1>3, SeriesTyped
    <3>3. CASE k \in DOMAIN o.series
      <4>1. DOMAIN p.series = DOMAIN o.series
        BY <3>1, <3>3
      <4> QED
        BY <4>1, <1>4, <2>1 DEF Sound
    <3>4. CASE k \notin DOMAIN o.series
      <4>1. Cardinality(DOMAIN p.series) = Cardinality(DOMAIN o.series) + 1
        BY <3>1, <3>2, <3>4, FS_AddElement
      <4>2. Cardinality(DOMAIN o.series) < o.definition.maxSeries /\ o.definition.maxSeries \in Nat
        BY <1>3, <1>6, <3>4 DEF Fits, Definition
      <4> QED
        BY <1>4, <3>2, <4>1, <4>2
    <3> QED
      BY <3>3, <3>4
  <2>3. Representable(p)
    <3>1. /\ DOMAIN p.series = DOMAIN o.series \cup {k}
          /\ \A j \in DOMAIN p.series : p.series[j] = IF j = k THEN v ELSE o.series[j]
      <4>1. /\ DOMAIN With(o.series, k, v) = DOMAIN o.series \cup {k}
            /\ \A j \in DOMAIN o.series \cup {k} :
                 With(o.series, k, v)[j] = IF j = k THEN v ELSE o.series[j]
        BY <1>3, WithSeries
      <4> QED
        BY <4>1, <1>4
    <3>2. o.definition.kind = "counter" => v >= 0
      BY DEF o, i
    <3> QED
      BY <1>4, <2>1, <3>1, <3>2 DEF Sound, Representable, Constructible
  <2> QED
    BY <1>4, <2>1, <2>2, <2>3 DEF Sound
<1>15. MemoryTypes'
  BY <1>5, <1>7, <1>13 DEF IInv, MemoryTypes
<1>16. WalkTypes'
  BY <1>5, <1>9 DEF IInv, WalkTypes
<1>17. OneObjectPerName'
  BY <1>5, <1>7, <1>8, <1>9, <1>10 DEF IInv, OneObjectPerName
<1>18. NothingBetween'
  <2>1. running
    <3>1. ~running => Len(objects) = 0
      BY DEF IInv, NothingBetween
    <3> QED
      BY <1>1, <3>1 DEF IInv, MemoryTypes
  <2> QED
    BY <2>1, <1>5 DEF NothingBetween
<1>19. WithinLimits'
  <2>1. \A j \in 1 .. Len(objects) : Sound(objects'[j], limits)
    BY <1>7, <1>14 DEF IInv, WithinLimits
  <2> QED
    BY <2>1, <1>5, <1>7, <1>9 DEF IInv, WithinLimits, Sound, Representable, Constructible
<1>20. UpdatesAddUp' /\ NothingUnregistered'
  <2>1. ASSUME NEW n \in Registered
        PROVE  objects'[table[n]].series = accepted'[n]
    <3>1. CASE n = o.name
      BY <3>1, <1>7, <1>11, <1>13
    <3>2. CASE n # o.name
      <4>1. table[n] # i
        BY <3>2 DEF IInv, OneObjectPerName, o
      <4> QED
        BY <4>1, <3>2, <1>7, <1>10, <1>13 DEF IInv, UpdatesAddUp
    <3> QED
      BY <3>1, <3>2
  <2>2. \A n \in Name : table[n] = None => n # o.name
    BY <1>1, <1>11 DEF None
  <2> QED
    BY <2>1, <2>2, <1>5, <1>9, <1>13 DEF IInv, UpdatesAddUp, NothingUnregistered
<1>21. CallsAnswered'
  <2>1. \A c \in calls : c.name \in Registered
    BY CallAssumption DEF IInv, MemoryTypes, CallsAnswered, Registered
  <2> QED
    BY <2>1, <1>5, <1>8, <1>9, <1>10 DEF IInv, CallsAnswered
<1>22. DraftOfRegistered' /\ SavedSound'
  BY <1>5, <1>8, <1>9, <1>10 DEF IInv, DraftOfRegistered, SavedSound, Sound, Representable, Constructible
<1> QED
  BY <1>15, <1>16, <1>17, <1>18, <1>19, <1>20, <1>21, <1>22 DEF IInv

\* An update is a Put of what the instrument held and the amount, and the same
\* amount is accepted.
LEMMA RecordStep ==
  ASSUME IInv, NEW t \in Thread, Record(t)
  PROVE  IInv'
<1>1. PICK k \in Label :
        \/ \E amount \in Amount :
             CounterInc(t, k, amount) \/ GaugeInc(t, k, amount) \/ GaugeSet(t, k, amount)
        \/ Observe(t, k)
  BY DEF Record
<1> DEFINE o == objects[handle[t]]
<1>2. handle[t] # None
  BY <1>1 DEF CounterInc, GaugeInc, GaugeSet, Observe, Holds
<1>3. handle[t] \in 1 .. Len(objects)
  <2>1. handle[t] \in 0 .. Len(objects) /\ Len(objects) \in Nat /\ handle[t] # 0
    BY <1>2, ObjectsTyped DEF IInv, OneObjectPerName, None
  <2> QED
    BY <2>1
<1>4. o \in Object /\ Sound(o, limits)
  BY <1>3, ObjectsTyped DEF IInv, WithinLimits
<1>5. accepted[o.name] = o.series
  <2>1. o.name \in Name /\ table[o.name] = handle[t]
    BY <1>3, <1>4 DEF IInv, OneObjectPerName, Object
  <2> QED
    BY <1>2, <2>1 DEF IInv, UpdatesAddUp, Registered
<1>6. Value(o.series, k) \in Int
      /\ (o.definition.kind = "counter" => Value(o.series, k) >= 0)
  BY <1>4 DEF Sound, Representable, Constructible, Value, Finite
<1>10. o.drifted \in SUBSET Label
  BY <1>4 DEF Object
<1> HIDE DEF o
<1>7. CASE \E amount \in Amount : CounterInc(t, k, amount) \/ GaugeInc(t, k, amount)
  <2>1. PICK amount \in Amount : CounterInc(t, k, amount) \/ GaugeInc(t, k, amount)
    BY <1>7
  <2> DEFINE v == Value(o.series, k) + amount
  <2>2. v \in Finite /\ Put(t, k, v, v, o.drifted)
    BY <2>1, <1>5 DEF CounterInc, GaugeInc, Add, o
  <2>3. o.definition.kind = "counter" => amount >= 0
    BY <2>1 DEF CounterInc, GaugeInc, Holds, o
  <2>4. amount \in Int
    BY ValueAssumption DEF Finite
  <2>5. o.definition.kind = "counter" => v >= 0
    BY <1>6, <2>3, <2>4
  <2> HIDE DEF v
  <2> QED
    BY <1>2, <1>10, <2>2, <2>5, PutStep DEF o
<1>8. CASE \E amount \in Amount : GaugeSet(t, k, amount)
  <2>1. PICK amount \in Amount : GaugeSet(t, k, amount)
    BY <1>8
  <2>2. amount \in Finite
    BY ValueAssumption
  <2>3. Put(t, k, amount, amount, o.drifted) /\ objects[handle[t]].definition.kind # "counter"
    BY <2>1 DEF GaugeSet, Holds, o
  <2> QED
    BY <1>2, <1>10, <2>2, <2>3, PutStep
<1>9. CASE Observe(t, k)
  <2> DEFINE v == Value(o.series, k) + 1
  <2>1. o.definition.kind = "histogram" /\ Value(o.series, k) < MaxCount
    BY <1>9 DEF Observe, Holds, o
  <2>3. PICK gone \in {o.drifted \cup {k}, o.drifted \ {k}} : Put(t, k, v, v, gone)
    BY <1>5, <1>9 DEF Observe, o
  <2>4. gone \in SUBSET Label
    BY <1>10
  <2>2. v \in Finite
    <3>1. Value(o.series, k) \in Finite
      <4>1. MaxFinite \in Nat
        BY ValueAssumption
      <4> QED
        BY <4>1, <1>4 DEF Sound, Representable, Constructible, Value, Finite, o
    <3>2. MaxCount \in Nat /\ MaxFinite \in Nat /\ MaxCount <= MaxFinite
      BY ValueAssumption
    <3> QED
      BY <2>1, <3>1, <3>2 DEF Finite
  <2> HIDE DEF v
  <2> QED
    BY <1>2, <2>1, <2>2, <2>3, <2>4, PutStep DEF o
<1> QED
  BY <1>1, <1>7, <1>8, <1>9

\* The walk starts with all the names and reads the instruments as they are.
LEMMA WalkStep == IInv /\ (StartSave \/ Copy) => IInv'
<1> SUFFICES ASSUME IInv, StartSave \/ Copy PROVE IInv'
  OBVIOUS
<1>1. UNCHANGED <<running, limits, objects, table, handle, saved, accepted, calls, savedCalls>>
  BY DEF StartSave, Copy, memory, observed
<1>2. Registered' = Registered
  BY <1>1 DEF Registered
<1>3. MemoryTypes' /\ OneObjectPerName' /\ WithinLimits' /\ UpdatesAddUp' /\ NothingUnregistered'
      /\ CallsAnswered' /\ SavedSound'
  BY <1>1, <1>2 DEF IInv, MemoryTypes, OneObjectPerName, WithinLimits, UpdatesAddUp,
                    NothingUnregistered, CallsAnswered, SavedSound, Sound, Representable, Constructible
<1>4. CASE StartSave
  <2>1. saving' = TRUE /\ todo' = Registered /\ draft' = NoSeries /\ running
    BY <1>4 DEF StartSave
  <2>2. WalkTypes'
    BY <2>1, <1>1, <1>2, NothingCopied DEF IInv, WalkTypes
  <2>3. NothingBetween' /\ DraftOfRegistered'
    BY <2>1, <1>1, NothingCopied DEF NothingBetween, DraftOfRegistered
  <2> QED
    BY <1>3, <2>2, <2>3 DEF IInv
<1>5. CASE Copy
  <2> DEFINE n == Min(todo)
             m == [definition |-> objects[table[n]].definition, series |-> objects[table[n]].series,
                   drifted |-> objects[table[n]].drifted]
  <2>1. todo \in SUBSET Registered /\ todo \in SUBSET Name /\ todo # {} /\ saving
    BY <1>5 DEF Copy, IInv, WalkTypes, Registered
  <2>2. n \in Registered /\ n \in Name
    BY <2>1, MinOfNames
  <2>3. todo' = todo \ {n} /\ draft' = With(draft, n, m) /\ saving' = saving
    BY <1>5 DEF Copy
  <2> HIDE DEF n
  <2>4. table[n] \in 1 .. Len(objects)
    BY <2>2 DEF IInv, OneObjectPerName
  <2>5. objects[table[n]] \in Object /\ Sound(objects[table[n]], limits)
    BY <2>4, ObjectsTyped DEF IInv, WithinLimits
  <2>6. m \in Copied /\ Sound(m, limits)
        /\ m.definition = objects[table[n]].definition
    BY <2>5 DEF Object, Copied, Sound, Representable
  <2> HIDE DEF m
  <2>7. /\ draft' \in Metrics /\ DOMAIN draft' = DOMAIN draft \cup {n}
        /\ \A j \in DOMAIN draft \cup {n} : draft'[j] = IF j = n THEN m ELSE draft[j]
    <3>1. draft \in Metrics /\ m \in Copied /\ n \in Name
      BY <2>2, <2>6 DEF IInv, WalkTypes
    <3> QED
      BY <2>3, <3>1, WithMetric
  <2>8. WalkTypes'
    BY <2>1, <2>3, <2>7, <1>1, <1>2 DEF IInv, WalkTypes
  <2>9. NothingBetween'
    BY <2>1, <1>1 DEF IInv, NothingBetween
  <2>10. \A j \in DOMAIN draft' : /\ j \in Registered
                                  /\ draft'[j].definition = objects[table[j]].definition
                                  /\ Sound(draft'[j], limits)
    BY <2>2, <2>6, <2>7 DEF IInv, DraftOfRegistered
  <2>11. DraftOfRegistered'
    BY <2>10, <1>1, <1>2 DEF DraftOfRegistered, Sound, Representable, Constructible
  <2> QED
    BY <1>3, <2>8, <2>9, <2>11 DEF IInv
<1> QED
  BY <1>4, <1>5

\* What the walk copied becomes the checkpoint, with the calls that it answers.
LEMMA EncodeStep == IInv /\ Encode => IInv'
<1> SUFFICES ASSUME IInv, Encode PROVE IInv'
  OBVIOUS
<1>1. UNCHANGED <<running, limits, objects, table, handle, todo, accepted, calls>>
      /\ saving' = FALSE /\ draft' = NoSeries
  BY DEF Encode, memory
<1>2. Registered' = Registered
  BY <1>1 DEF Registered
<1>3. MemoryTypes' /\ OneObjectPerName' /\ WithinLimits' /\ UpdatesAddUp' /\ NothingUnregistered'
      /\ CallsAnswered' /\ NothingBetween' /\ DraftOfRegistered'
  BY <1>1, <1>2, NothingCopied
     DEF IInv, MemoryTypes, OneObjectPerName, WithinLimits, UpdatesAddUp, NothingUnregistered,
         CallsAnswered, NothingBetween, DraftOfRegistered, Sound, Representable, Constructible
<1>4. CASE UNCHANGED <<saved, savedCalls>>
  <2>1. WalkTypes' /\ SavedSound'
    BY <1>1, <1>2, <1>4, NothingCopied DEF IInv, WalkTypes, SavedSound, Sound, Representable, Constructible
  <2> QED
    BY <1>3, <2>1 DEF IInv
<1>5. CASE /\ saved' = [limits |-> limits, metrics |-> draft]
           /\ savedCalls' = {c \in calls : c.name \in DOMAIN draft}
  <2>1. saved'.limits = limits /\ saved'.metrics = draft /\ saved' \in Checkpoint
    BY <1>5 DEF IInv, MemoryTypes, WalkTypes, Checkpoint
  <2>2. WalkTypes'
    BY <1>1, <1>2, <1>5, <2>1, NothingCopied DEF IInv, MemoryTypes, WalkTypes
  <2>3. DOMAIN draft \in SUBSET Registered
    BY DEF IInv, DraftOfRegistered
  <2>4. Cardinality(DOMAIN draft) <= limits.maxMetrics
    <3>1. IsFiniteSet(Registered) /\ Cardinality(Registered) \in Nat
      BY ObjectsTyped DEF IInv
    <3>2. Cardinality(DOMAIN draft) \in Nat /\ Cardinality(DOMAIN draft) <= Cardinality(Registered)
      BY <2>3, <3>1, FS_Subset, FS_CardinalityType
    <3>3. limits.maxMetrics \in Nat
      BY DEF IInv, MemoryTypes, Limits
    <3> QED
      BY <3>1, <3>2, <3>3 DEF IInv, WithinLimits
  <2>5. \A n \in DOMAIN draft : Sound(draft[n], limits)
    BY DEF IInv, DraftOfRegistered
  <2>6. \A c \in savedCalls' : c.name \in DOMAIN draft
                               /\ draft[c.name].definition = DefinitionUnder(c, limits)
    BY <1>5 DEF IInv, DraftOfRegistered, CallsAnswered
  <2>7. \A n \in DOMAIN draft : \E c \in savedCalls' : c.name = n
    BY <1>5, <2>3 DEF IInv, CallsAnswered
  <2>8. SavedSound'
    BY <2>1, <2>4, <2>5, <2>6, <2>7 DEF SavedSound, Sound, Representable, Constructible
  <2> QED
    BY <1>3, <2>2, <2>8 DEF IInv
<1> QED
  BY <1>4, <1>5 DEF Encode

\* A new process holds the instruments of the checkpoint, as they were made.
LEMMA LoadStep ==
  ASSUME IInv, NEW p \in Policy, Load(p)
  PROVE  IInv'
<1> DEFINE S == DOMAIN saved.metrics
<1>1. ~running /\ saved # NoCheckpoint /\ saved \in Checkpoint
  BY DEF Load, IInv, WalkTypes
<1>2. /\ running' = TRUE /\ limits' = saved.limits
      /\ objects' = RestoredObjects(saved, saved.limits)
      /\ table' = [n \in Name |-> IF n \in S THEN Rank(S, n) ELSE None]
      /\ accepted' = [n \in Name |-> IF n \in S THEN saved.metrics[n].series ELSE NoSeries]
      /\ calls' = savedCalls
      /\ UNCHANGED <<handle, saving, todo, draft, saved, savedCalls>>
  BY DEF Load, RestoredLimits, walk, Rank
<1>3. /\ handle = [t \in Thread |-> None] /\ ~saving /\ todo = {} /\ draft = NoSeries
  BY <1>1 DEF IInv, NothingBetween
<1>4. saved.limits \in Limits /\ saved.metrics \in Metrics
  BY <1>1 DEF Checkpoint
<1>5. S \in SUBSET Name
      /\ \A n \in S : saved.metrics[n] \in Copied
  BY <1>4, MetricsTyped
<1>20. \A n \in S : Sound(saved.metrics[n], saved.limits)
  BY <1>1 DEF IInv, SavedSound
<1>6. /\ objects' \in Seq(Object) /\ Len(objects') = Cardinality(S)
      /\ \A n \in S : /\ Rank(S, n) \in 1 .. Len(objects')
                      /\ objects'[Rank(S, n)].name = n
                      /\ objects'[Rank(S, n)].definition = saved.metrics[n].definition
                      /\ objects'[Rank(S, n)].series = saved.metrics[n].series
      /\ \A i \in 1 .. Len(objects') : objects'[i].name \in S /\ Rank(S, objects'[i].name) = i
  BY <1>1, <1>2, <1>4, <1>20, Restored
<1>7. /\ Cardinality(S) <= saved.limits.maxMetrics
      /\ \A n \in S : Sound(saved.metrics[n], saved.limits)
      /\ \A c \in savedCalls :
           c.name \in S /\ saved.metrics[c.name].definition = DefinitionUnder(c, saved.limits)
      /\ \A n \in S : \E c \in savedCalls : c.name = n
  BY <1>1 DEF IInv, SavedSound
<1> HIDE DEF S
<1>8. Len(objects') \in Nat
  BY <1>6
<1>9. /\ \A n \in S : table'[n] = Rank(S, n) /\ table'[n] # None
      /\ \A n \in Name \ S : table'[n] = None
  BY <1>2, <1>5, <1>6, <1>8 DEF None
<1>10. Registered' = S
  BY <1>5, <1>9 DEF Registered
<1>11. MemoryTypes'
  <2>1. table' \in [Name -> Nat]
    BY <1>2, <1>6, <1>8 DEF None
  <2>2. accepted' \in [Name -> Series]
    <3>1. \A n \in S : saved.metrics[n].series \in Series
      BY <1>5 DEF Copied
    <3> QED
      BY <3>1, <1>2, NothingRecorded
  <2> QED
    BY <2>1, <2>2, <1>2, <1>4, <1>6 DEF IInv, MemoryTypes, WalkTypes
<1>12. WalkTypes'
  BY <1>2, <1>3 DEF IInv, WalkTypes
<1>13. OneObjectPerName'
  BY <1>2, <1>3, <1>6, <1>8, <1>9, <1>10 DEF OneObjectPerName, None
<1>14. NothingBetween'
  BY <1>2 DEF NothingBetween
<1>15. WithinLimits'
  <2>1. \A i \in 1 .. Len(objects') : Sound(objects'[i], saved.limits)
    BY <1>6, <1>7 DEF Sound, Representable, Constructible
  <2> QED
    BY <2>1, <1>2, <1>7, <1>10 DEF WithinLimits, Sound, Representable, Constructible
<1>16. UpdatesAddUp' /\ NothingUnregistered'
  <2>1. \A n \in S : accepted'[n] = saved.metrics[n].series /\ table'[n] = Rank(S, n)
    BY <1>2, <1>5, <1>9
  <2>2. \A n \in S : objects'[Rank(S, n)].series = saved.metrics[n].series
    BY <1>6
  <2>3. UpdatesAddUp'
    BY <2>1, <2>2, <1>10 DEF UpdatesAddUp
  <2>4. NothingUnregistered'
    BY <1>2, <1>9, <1>10 DEF NothingUnregistered
  <2> QED
    BY <2>3, <2>4
<1>17. CallsAnswered'
  <2>1. ASSUME NEW c \in calls'
        PROVE  table'[c.name] # None
               /\ objects'[table'[c.name]].definition = DefinitionUnder(c, limits')
    <3>1. c.name \in S /\ saved.metrics[c.name].definition = DefinitionUnder(c, saved.limits)
      BY <1>2, <1>7
    <3>2. table'[c.name] = Rank(S, c.name) /\ table'[c.name] # None
      BY <3>1, <1>9
    <3>3. objects'[Rank(S, c.name)].definition = saved.metrics[c.name].definition
      BY <3>1, <1>6
    <3> QED
      BY <3>1, <3>2, <3>3, <1>2
  <2>2. \A n \in Registered' : \E c \in calls' : c.name = n
    BY <1>2, <1>7, <1>10
  <2> QED
    BY <2>1, <2>2 DEF CallsAnswered
<1>18. DraftOfRegistered'
  BY <1>2, <1>3, NothingCopied DEF DraftOfRegistered
<1>19. SavedSound'
  BY <1>2 DEF IInv, SavedSound, Sound, Representable, Constructible
<1> QED
  BY <1>11, <1>12, <1>13, <1>14, <1>15, <1>16, <1>17, <1>18, <1>19 DEF IInv

\* A process starts with an empty registry.
LEMMA CreateStep ==
  ASSUME IInv, NEW l \in Configured, Create(l)
  PROVE  IInv'
<1>1. /\ ~running /\ running' = TRUE /\ limits' = l /\ l \in Limits
      /\ UNCHANGED <<objects, table, handle, saving, todo, draft, saved, accepted, calls, savedCalls>>
  BY LimitAssumption DEF Create, walk, observed
<1>2. /\ objects = <<>> /\ Len(objects) = 0 /\ calls = {} /\ draft = NoSeries
      /\ Registered = {} /\ Registered' = {}
  BY <1>1 DEF IInv, NothingBetween, Registered
<1>3. MemoryTypes' /\ WalkTypes'
  BY <1>1, <1>2 DEF IInv, MemoryTypes, WalkTypes
<1>4. OneObjectPerName' /\ NothingBetween'
  BY <1>1, <1>2 DEF IInv, OneObjectPerName, NothingBetween
<1>5. WithinLimits'
  <2>1. l.maxMetrics \in Nat
    BY <1>1 DEF Limits
  <2> QED
    BY <1>1, <1>2, <2>1, FS_EmptySet DEF WithinLimits
<1>6. UpdatesAddUp' /\ NothingUnregistered' /\ CallsAnswered'
  BY <1>1, <1>2 DEF IInv, UpdatesAddUp, NothingUnregistered, CallsAnswered
<1>7. DraftOfRegistered' /\ SavedSound'
  BY <1>1, <1>2, NothingCopied DEF IInv, DraftOfRegistered, SavedSound, Sound, Representable, Constructible
<1> QED
  BY <1>3, <1>4, <1>5, <1>6, <1>7 DEF IInv

\* A crash loses all but the checkpoint.
LEMMA CrashStep == IInv /\ Crash => IInv'
<1> SUFFICES ASSUME IInv, Crash PROVE IInv'
  OBVIOUS
<1>1. /\ running' = FALSE /\ objects' = <<>> /\ calls' = {}
      /\ table' = [n \in Name |-> None] /\ handle' = [t \in Thread |-> None]
      /\ saving' = FALSE /\ todo' = {} /\ draft' = NoSeries
      /\ accepted' = [n \in Name |-> NoSeries]
      /\ UNCHANGED <<limits, saved, savedCalls>>
  BY DEF Crash
<1>2. Len(objects') = 0 /\ Registered' = {}
  BY <1>1 DEF Registered
<1>3. MemoryTypes'
  <2>1. objects' \in Seq(Object)
    BY <1>1
  <2>2. table' \in [Name -> Nat] /\ handle' \in [Thread -> Nat]
    BY <1>1 DEF None
  <2>3. accepted' \in [Name -> Series]
    BY <1>1, NothingRecorded
  <2> QED
    BY <2>1, <2>2, <2>3, <1>1 DEF IInv, MemoryTypes
<1>4. WalkTypes'
  BY <1>1, NothingCopied DEF IInv, WalkTypes
<1>5. OneObjectPerName' /\ NothingBetween'
  BY <1>1, <1>2 DEF OneObjectPerName, NothingBetween, None
<1>6. WithinLimits'
  <2>1. limits.maxMetrics \in Nat
    BY DEF IInv, MemoryTypes, Limits
  <2> QED
    BY <1>1, <1>2, <2>1, FS_EmptySet DEF WithinLimits
<1>7. UpdatesAddUp' /\ NothingUnregistered' /\ CallsAnswered'
  BY <1>1, <1>2 DEF UpdatesAddUp, NothingUnregistered, CallsAnswered
<1>8. DraftOfRegistered' /\ SavedSound'
  BY <1>1, NothingCopied DEF IInv, DraftOfRegistered, SavedSound, Sound, Representable, Constructible
<1> QED
  BY <1>3, <1>4, <1>5, <1>6, <1>7, <1>8 DEF IInv

-----------------------------------------------------------------------------
(***************************************************************************)
(* The theorems.                                                           *)
(***************************************************************************)
\* The inductive invariant holds in every reachable state.
THEOREM RegistryInvariance == Spec => []IInv
<1>1. ASSUME IInv, [Next]_vars PROVE IInv'
  <2>1. ASSUME NEW t \in Thread, NEW c \in Call, Register(t, c) PROVE IInv'
    BY <1>1, <2>1, ReuseStep, NewStep
  <2>2. ASSUME NEW t \in Thread, Record(t) PROVE IInv'
    BY <1>1, <2>2, RecordStep
  <2>3. CASE StartSave \/ Copy \/ Encode \/ Crash
    BY <1>1, <2>3, WalkStep, EncodeStep, CrashStep
  <2>4. ASSUME NEW p \in Policy, Load(p) PROVE IInv'
    BY <1>1, <2>4, LoadStep
  <2>5. ASSUME NEW l \in Configured, Create(l) PROVE IInv'
    BY <1>1, <2>5, CreateStep
  <2>6. CASE UNCHANGED vars
    BY <1>1, <2>6
       DEF vars, memory, walk, observed, IInv, MemoryTypes, WalkTypes, Registered, OneObjectPerName,
           NothingBetween, WithinLimits, UpdatesAddUp, NothingUnregistered, CallsAnswered,
           DraftOfRegistered, SavedSound, Sound, Representable, Constructible
  <2> QED
    BY <1>1, <2>1, <2>2, <2>3, <2>4, <2>5, <2>6 DEF Next
<1> QED
  BY Initially, <1>1, PTL DEF Spec

\* No registry and no instrument exceeds its limits, before and after a restart.
THEOREM RegistryTyped == Spec => []TypeOK
<1>1. IInv => TypeOK
  <2> SUFFICES ASSUME IInv PROVE TypeOK
    OBVIOUS
  <2>1. {running, saving} \subseteq BOOLEAN
    BY DEF IInv, MemoryTypes, WalkTypes
  <2>2. limits \in Limits /\ Cardinality(Registered) <= limits.maxMetrics /\ todo \subseteq Registered
        /\ \A t \in Thread : handle[t] \in 0 .. Len(objects)
    BY DEF IInv, MemoryTypes, WalkTypes, WithinLimits, OneObjectPerName
  <2>3. ASSUME NEW i \in DOMAIN objects
        PROVE  /\ objects[i].name \in Name
               /\ DOMAIN objects[i].series \subseteq Label
               /\ Cardinality(DOMAIN objects[i].series) <= objects[i].definition.maxSeries
               /\ Representable(objects[i])
               /\ objects[i].definition.buckets <= limits.maxBuckets
    <3>1. i \in 1 .. Len(objects)
      BY DEF IInv, MemoryTypes
    <3>2. objects[i] \in Object /\ Sound(objects[i], limits)
      BY <3>1, ObjectsTyped DEF IInv, WithinLimits
    <3>3. objects[i].name \in Name /\ objects[i].series \in Series
      BY <3>2 DEF Object
    <3> QED
      BY <3>2, <3>3, SeriesTyped DEF Sound
  <2> QED
    BY <2>1, <2>2, <2>3 DEF TypeOK
<1> QED
  BY RegistryInvariance, <1>1, PTL

\* No update that returned is lost or counted twice, in this process or by the
\* checkpoint it was started from.
THEOREM UpdatesAlwaysAddUp == Spec => []UpdatesAddUp
<1>1. IInv => UpdatesAddUp
  BY DEF IInv
<1> QED
  BY RegistryInvariance, <1>1, PTL

\* A registration that returned once returns again, also after a restart.
THEOREM RegistrationsAlwaysLast == Spec => []RegistrationsLast
<1>1. IInv => RegistrationsLast
  <2> SUFFICES ASSUME IInv, NEW c \in calls PROVE Reusable(c.name, DefinitionOf(c))
    BY DEF RegistrationsLast
  <2>1. DefinitionOf(c) = DefinitionUnder(c, limits)
    BY DEF DefinitionOf, DefinitionUnder
  <2> QED
    BY <2>1 DEF IInv, CallsAnswered, Reusable
<1> QED
  BY RegistryInvariance, <1>1, PTL

\* What a call left to the registry's limits, or asked for itself, is all that a
\* policy has to allow.
LEMMA LimitsOfCalls ==
  ASSUME NEW c \in Call, NEW l \in Limits, NEW p \in Policy, LimitsWithin(l, p)
  PROVE  LET d == DefinitionUnder(c, l)
         IN  /\ d.maxSeries <= p.maxSeries <=> c.maxSeries <= p.maxSeries
             /\ (d.kind = "histogram" => d.maxSamples <= p.maxSamples) <=> c.maxSamples <= p.maxSamples
<1>1. /\ c.maxSeries \in Nat /\ c.maxSamples \in Nat
      /\ c.kind # "histogram" => c.maxSamples = 0
  BY CallAssumption DEF None
<1>2. /\ l.maxSeries \in Nat /\ l.maxSamples \in Nat
      /\ p.maxSeries \in Nat /\ p.maxSamples \in Nat
      /\ l.maxSeries <= p.maxSeries /\ l.maxSamples <= p.maxSamples
  BY LimitAssumption DEF Limits, LimitsWithin
<1> QED
  BY <1>1, <1>2 DEF DefinitionUnder, Given, None

\* A checkpoint loads under exactly the policies that allow its size and the
\* limits the program asked for, unless a series of a histogram in it has drifted.
THEOREM AlwaysLoadableWithinPolicy == Spec => []LoadableWithinPolicy
<1>1. IInv => LoadableWithinPolicy
  <2> SUFFICES ASSUME IInv, saved # NoCheckpoint, NEW p \in Policy
               PROVE  Accepts(saved, p) <=>
                        /\ Size(saved.metrics) <= p.maxFileBytes
                        /\ LimitsWithin(saved.limits, p)
                        /\ \A c \in savedCalls : c.maxSeries <= p.maxSeries /\ c.maxSamples <= p.maxSamples
                        /\ \A n \in DOMAIN saved.metrics : saved.metrics[n].drifted = {}
    BY DEF LoadableWithinPolicy
  <2> DEFINE S == DOMAIN saved.metrics
             l == saved.limits
  <2>1. l \in Limits /\ savedCalls \subseteq Call
    BY DEF IInv, WalkTypes, Checkpoint
  <2>2. /\ Cardinality(S) <= l.maxMetrics
        /\ \A n \in S : Sound(saved.metrics[n], l)
        /\ \A c \in savedCalls : c.name \in S /\ saved.metrics[c.name].definition = DefinitionUnder(c, l)
        /\ \A n \in S : \E c \in savedCalls : c.name = n
    BY DEF IInv, SavedSound
  <2>3. ASSUME LimitsWithin(l, p), NEW c \in savedCalls
        PROVE  MetricWithin(saved.metrics[c.name], l, p) <=>
                 /\ c.maxSeries <= p.maxSeries /\ c.maxSamples <= p.maxSamples
                 /\ saved.metrics[c.name].drifted = {}
    <3> DEFINE m == saved.metrics[c.name]
    <3>1. m.definition = DefinitionUnder(c, l) /\ Sound(m, l)
      BY <2>2
    <3>2. /\ m.definition.maxSeries <= p.maxSeries <=> c.maxSeries <= p.maxSeries
          /\ (m.definition.kind = "histogram" => m.definition.maxSamples <= p.maxSamples)
               <=> c.maxSamples <= p.maxSamples
      BY <2>1, <2>3, <3>1, LimitsOfCalls
    <3>3. m \in Copied
      BY <2>2, MetricsTyped DEF IInv, WalkTypes, Checkpoint
    <3>4. RestoredDefinition(m, l) = m.definition
      BY <2>1, <3>1, <3>3, RestoredAsItWas
    <3> QED
      BY <3>1, <3>2, <3>4 DEF MetricWithin, SeriesFit, ValuesFit, Sound
  <2>4. ASSUME LimitsWithin(l, p)
        PROVE  (\A n \in S : MetricWithin(saved.metrics[n], l, p)) <=>
                 /\ \A c \in savedCalls : c.maxSeries <= p.maxSeries /\ c.maxSamples <= p.maxSamples
                 /\ \A n \in S : saved.metrics[n].drifted = {}
    BY <2>2, <2>3, <2>4
  <2> QED
    BY <2>2, <2>4 DEF Accepts
<1> QED
  BY RegistryInvariance, <1>1, PTL
=============================================================================
