------------------------------ MODULE Registry ------------------------------
(***************************************************************************)
(* A registry of samsarix_analytics.monitoring.metrics: threads register   *)
(* instruments and record through the objects they get back, a checkpoint  *)
(* is encoded from one instrument after the other, and after a crash the   *)
(* next process decodes it under a CheckpointPolicy.                       *)
(*                                                                         *)
(* A series is a number: the value of a counter or a gauge, the number of  *)
(* observations of a histogram.  Of the contents of a histogram, which are *)
(* Histogram's matter, only this is kept: which of its series a checkpoint *)
(* is refused for, because their sums, rounded with each observation, have *)
(* drifted from the observations.                                          *)
(* Of a definition its limits are kept, its description and label names    *)
(* left out; max_label_value_length, which a registry gives to all of its  *)
(* instruments alike, is a limit of the registry.  Sizes are in lines.     *)
(***************************************************************************)
EXTENDS Integers, FiniteSets, FiniteSetsExt, Sequences

CONSTANTS
  Thread,
  Name,       \* metric names, in their order
  Label,      \* label sets
  Call,       \* what the program calls counter(), gauge() and histogram() with
  Amount,     \* what it increments by, or sets to
  Configured, \* the limits it may configure a registry with
  Policy,     \* the policies it may load with
  MaxFinite,  \* the largest float
  MaxBytes,   \* max_bytes of encode_checkpoint, in lines
  MaxCount    \* bound: observations of a histogram

Kind   == {"counter", "gauge", "histogram"}
Limits == [maxMetrics : Nat, maxSeries : Nat, maxSamples : Nat, maxBuckets : Nat,
           maxLabel : Nat]
Finite == -MaxFinite .. MaxFinite
None   == 0   \* an argument or an object that is not there

ASSUME NameAssumption  == Name \subseteq Nat /\ IsFiniteSet(Name) /\ IsFiniteSet(Label)
ASSUME ValueAssumption ==
  {MaxFinite, MaxBytes, MaxCount} \subseteq Nat /\ MaxCount <= MaxFinite /\ Amount \subseteq Finite
\* Only histogram() takes buckets and a number of samples.
ASSUME CallAssumption  ==
  /\ Call \subseteq [name : Name, kind : Kind, maxSeries : Nat, maxSamples : Nat, buckets : Nat]
  /\ \A c \in Call : c.kind # "histogram" => c.maxSamples = None /\ c.buckets = 0
ASSUME LimitAssumption ==
  /\ Configured \subseteq Limits
  /\ Policy \subseteq [maxFileBytes : Nat, maxMetrics : Nat, maxSeries : Nat,
                       maxSamples : Nat, maxBuckets : Nat, maxLabel : Nat]

VARIABLES
  running,    \* whether a process runs
  limits,     \* the limits of its registry
  objects,    \* every instrument that was registered, a sequence: its name, its
              \* definition, its series, and those that have drifted
  table,      \* _instruments: the object of a name, or None
  handle,     \* the instrument a thread holds, or None
  saving,     \* whether a checkpoint is being encoded
  todo,       \* the names it has not copied
  draft,      \* what it has copied, by name: definition, series and those that have drifted
  saved,      \* the checkpoint, or NoCheckpoint
  accepted,   \* observed: by name and label set, what the updates that returned amount to
  calls,      \* observed: the registrations that returned
  savedCalls  \* observed: those of the instruments in the checkpoint

memory   == <<running, limits, objects, table, handle>>
walk     == <<saving, todo, draft>>
observed == <<accepted, calls, savedCalls>>
vars     == <<memory, walk, saved, observed>>

NoCheckpoint == <<>>
NoSeries     == <<>>

Registered == {n \in Name : table[n] # None}

-----------------------------------------------------------------------------
(***************************************************************************)
(* Registration.                                                           *)
(***************************************************************************)
Given(argument, default) == IF argument = None THEN default ELSE argument

DefinitionOf(c) ==
  LET isHistogram == c.kind = "histogram" IN
  [kind       |-> c.kind,
   maxSeries  |-> Given(c.maxSeries, limits.maxSeries),
   maxSamples |-> IF isHistogram THEN Given(c.maxSamples, limits.maxSamples) ELSE 0,
   buckets    |-> IF isHistogram THEN c.buckets ELSE 0,
   maxBuckets |-> IF isHistogram THEN limits.maxBuckets ELSE 0]

\* What Histogram.__init__ demands of the buckets.
Constructible(d) == d.kind = "histogram" => d.buckets \in 1 .. d.maxBuckets

\* Whether the name has an instrument that the call gets.
Reusable(n, d) == table[n] # None /\ objects[table[n]].definition = d

\* Variant: the last registration of a name wins.
HasRoomAgain(n) == Cardinality(Registered \cup {n}) <= limits.maxMetrics

\* Whether the name is new and the registry takes it.
HasRoom(n) == table[n] = None /\ Cardinality(Registered) < limits.maxMetrics

\* counter(), gauge() and histogram(); a call that raises changes nothing.
Register(t, c) ==
  LET d == DefinitionOf(c) IN
  /\ running
  /\ Constructible(d)
  /\ \/ /\ Reusable(c.name, d)
        /\ handle' = [handle EXCEPT ![t] = table[c.name]]
        /\ UNCHANGED <<objects, table>>
     \/ /\ HasRoom(c.name)
        /\ objects' = Append(objects, [name |-> c.name, definition |-> d, series |-> NoSeries,
                                     drifted |-> {}])
        /\ table' = [table EXCEPT ![c.name] = Len(objects')]
        /\ handle' = [handle EXCEPT ![t] = Len(objects')]
  /\ calls' = calls \cup {c}
  /\ UNCHANGED <<running, limits, walk, saved, accepted, savedCalls>>

-----------------------------------------------------------------------------
(***************************************************************************)
(* Recording, under the lock of the instrument.                            *)
(***************************************************************************)
Value(series, k) == IF k \in DOMAIN series THEN series[k] ELSE 0

With(series, k, v) == [j \in DOMAIN series \cup {k} |-> IF j = k THEN v ELSE series[j]]

\* Variant: one series more than the limit.
FitsOneMore(o, k) == k \in DOMAIN o.series \/ Cardinality(DOMAIN o.series) <= o.definition.maxSeries

Fits(o, k) == k \in DOMAIN o.series \/ Cardinality(DOMAIN o.series) < o.definition.maxSeries

\* The thread's instrument has v in a series afterwards, or the call raises.
Put(t, k, v, acceptedValue, drifted) ==
  LET o == objects[handle[t]] IN
  /\ Fits(o, k)
  /\ objects' = [objects EXCEPT ![handle[t]].series = With(@, k, v),
                                ![handle[t]].drifted = drifted]
  /\ accepted' = [accepted EXCEPT ![o.name] = With(@, k, acceptedValue)]
  /\ UNCHANGED <<running, limits, table, handle, walk, saved, calls, savedCalls>>

Add(t, k, amount) ==
  LET o == objects[handle[t]]
      v == Value(o.series, k) + amount
  IN  v \in Finite /\ Put(t, k, v, Value(accepted[o.name], k) + amount, o.drifted)

Holds(t, kind) == handle[t] # None /\ objects[handle[t]].definition.kind = kind

CounterInc(t, k, amount) == Holds(t, "counter") /\ amount >= 0 /\ Add(t, k, amount)

\* Gauge.inc and Gauge.dec.
GaugeInc(t, k, amount) == Holds(t, "gauge") /\ Add(t, k, amount)

GaugeSet(t, k, v) == Holds(t, "gauge") /\ Put(t, k, v, v, objects[handle[t]].drifted)

\* Rounding may take the series out of what a checkpoint may hold, or back into it.
Observe(t, k) ==
  /\ Holds(t, "histogram")
  /\ LET o == objects[handle[t]] IN
     /\ Value(o.series, k) < MaxCount
     /\ \E drifted \in {o.drifted \cup {k}, o.drifted \ {k}} :
          Put(t, k, Value(o.series, k) + 1, Value(accepted[o.name], k) + 1, drifted)

-----------------------------------------------------------------------------
(***************************************************************************)
(* Encoding.  Instruments are never removed from the registry, so the list *)
(* that _checkpoint_state copies is the set of names.                      *)
(***************************************************************************)
StartSave ==
  /\ running /\ ~saving
  /\ saving' = TRUE
  /\ todo' = Registered
  /\ draft' = NoSeries
  /\ UNCHANGED <<memory, saved, observed>>

\* One instrument under its lock, in the order of the names.
Copy ==
  /\ saving /\ todo # {}
  /\ LET n == Min(todo)
         o == objects[table[n]]
     IN  /\ todo' = todo \ {n}
         /\ draft' = With(draft, n, [definition |-> o.definition, series |-> o.series,
                                      drifted |-> o.drifted])
  /\ UNCHANGED <<memory, saving, saved, observed>>

\* The limits, and a line for each definition and each series.
Size(metrics) ==
  1 + MapThenSumSet(LAMBDA n : 1 + Cardinality(DOMAIN metrics[n].series), DOMAIN metrics)

\* encode_checkpoint gives up on a payload that is too large.
Encode ==
  /\ saving /\ todo = {}
  /\ saving' = FALSE
  /\ draft' = NoSeries
  /\ IF Size(draft) <= MaxBytes
     THEN /\ saved' = [limits |-> limits, metrics |-> draft]
          /\ savedCalls' = {c \in calls : c.name \in DOMAIN draft}
     ELSE UNCHANGED <<saved, savedCalls>>
  /\ UNCHANGED <<memory, todo, accepted, calls>>

-----------------------------------------------------------------------------
(***************************************************************************)
(* Decoding.                                                               *)
(***************************************************************************)
\* _limit, for each limit of the registry.
LimitsWithin(saidLimits, p) ==
  /\ saidLimits.maxMetrics <= p.maxMetrics
  /\ saidLimits.maxSeries <= p.maxSeries
  /\ saidLimits.maxSamples <= p.maxSamples
  /\ saidLimits.maxBuckets <= p.maxBuckets
  /\ saidLimits.maxLabel <= p.maxLabel

\* Variant: an instrument that has reached its limit does not fit any more.
SeriesFitStrictly(m) == Cardinality(DOMAIN m.series) < m.definition.maxSeries

\* The checks of the series, those of the values being inc() and set() again.
SeriesFit(m) == Cardinality(DOMAIN m.series) <= m.definition.maxSeries

\* The numbers that counters, gauges and counts of observations may be.
Representable(m) ==
  \A k \in DOMAIN m.series :
    m.series[k] \in Finite /\ (m.definition.kind = "counter" => m.series[k] >= 0)

\* With what _restore_checkpoint_series demands of a histogram's series.
ValuesFit(m) == Representable(m) /\ m.drifted = {}

\* counter(), gauge() or histogram() again: the definition of a checkpoint and
\* the bucket limit of the new registry.
RestoredDefinition(m, restored) ==
  [m.definition EXCEPT !.maxBuckets = IF m.definition.kind = "histogram"
                                      THEN restored.maxBuckets ELSE 0]

\* _common_definition and the branch of the kind in _restore_registry.
MetricWithin(m, restored, p) ==
  /\ m.definition.maxSeries <= p.maxSeries
  /\ m.definition.kind = "histogram" => m.definition.maxSamples <= p.maxSamples
  /\ Constructible(RestoredDefinition(m, restored))
  /\ SeriesFit(m) /\ ValuesFit(m)

Accepts(payload, p) ==
  /\ Size(payload.metrics) <= p.maxFileBytes
  /\ LimitsWithin(payload.limits, p)
  /\ Cardinality(DOMAIN payload.metrics) <= payload.limits.maxMetrics
  /\ \A n \in DOMAIN payload.metrics : MetricWithin(payload.metrics[n], payload.limits, p)

\* Variant: the registry gets the limits of the policy.
RestoredUnderPolicy(payload, p) ==
  [maxMetrics |-> p.maxMetrics, maxSeries |-> p.maxSeries,
   maxSamples |-> p.maxSamples, maxBuckets |-> p.maxBuckets, maxLabel |-> p.maxLabel]

RestoredLimits(payload, p) == payload.limits

\* The instruments in the order of the names.
RestoredObjects(payload, restored) ==
  LET rank(n) == Cardinality({j \in DOMAIN payload.metrics : j <= n}) IN
  [i \in 1 .. Cardinality(DOMAIN payload.metrics) |->
     LET n == CHOOSE j \in DOMAIN payload.metrics : rank(j) = i
         m == payload.metrics[n]
     IN  [name |-> n, definition |-> RestoredDefinition(m, restored), series |-> m.series,
          drifted |-> m.drifted]]

\* decode_checkpoint in a new process; if it raises, none is running yet.
Load(p) ==
  /\ ~running /\ saved # NoCheckpoint
  /\ Accepts(saved, p)
  /\ running' = TRUE
  /\ limits' = RestoredLimits(saved, p)
  /\ objects' = RestoredObjects(saved, RestoredLimits(saved, p))
  /\ table' = [n \in Name |-> IF n \in DOMAIN saved.metrics
                              THEN Cardinality({j \in DOMAIN saved.metrics : j <= n}) ELSE None]
  /\ accepted' = [n \in Name |-> IF n \in DOMAIN saved.metrics
                                 THEN saved.metrics[n].series ELSE NoSeries]
  /\ calls' = savedCalls
  /\ UNCHANGED <<handle, walk, saved, savedCalls>>

\* MetricRegistry() where there is no checkpoint yet.
Create(configuredLimits) ==
  /\ ~running /\ saved = NoCheckpoint
  /\ running' = TRUE
  /\ limits' = configuredLimits
  /\ UNCHANGED <<objects, table, handle, walk, saved, observed>>

\* What a process had in memory is gone.
Crash ==
  /\ running
  /\ running' = FALSE
  /\ objects' = <<>>
  /\ table' = [n \in Name |-> None]
  /\ handle' = [t \in Thread |-> None]
  /\ saving' = FALSE /\ todo' = {} /\ draft' = NoSeries
  /\ accepted' = [n \in Name |-> NoSeries]
  /\ calls' = {}
  /\ UNCHANGED <<limits, saved, savedCalls>>

-----------------------------------------------------------------------------
Init ==
  /\ running = FALSE
  /\ limits \in Configured
  /\ objects = <<>>
  /\ table = [n \in Name |-> None]
  /\ handle = [t \in Thread |-> None]
  /\ saving = FALSE /\ todo = {} /\ draft = NoSeries
  /\ saved = NoCheckpoint
  /\ accepted = [n \in Name |-> NoSeries]
  /\ calls = {} /\ savedCalls = {}

Record(t) ==
  \E k \in Label :
    \/ \E amount \in Amount :
         CounterInc(t, k, amount) \/ GaugeInc(t, k, amount) \/ GaugeSet(t, k, amount)
    \/ Observe(t, k)

Next ==
  \/ \E t \in Thread :
       \/ \E c \in Call : Register(t, c)
       \/ Record(t)
  \/ StartSave \/ Copy \/ Encode
  \/ \E p \in Policy : Load(p)
  \/ \E l \in Configured : Create(l)
  \/ Crash

Spec == Init /\ [][Next]_vars

-----------------------------------------------------------------------------
\* Types, and the caps of README.md:202: no registry and no instrument exceeds
\* its limits, before and after a restart.
TypeOK ==
  /\ {running, saving} \subseteq BOOLEAN
  /\ limits \in Limits
  /\ Cardinality(Registered) <= limits.maxMetrics
  /\ todo \subseteq Registered
  /\ \A t \in Thread : handle[t] \in 0 .. Len(objects)
  /\ \A i \in DOMAIN objects :
       /\ objects[i].name \in Name
       /\ DOMAIN objects[i].series \subseteq Label
       /\ Cardinality(DOMAIN objects[i].series) <= objects[i].definition.maxSeries
       /\ Representable(objects[i])
       /\ objects[i].definition.buckets <= limits.maxBuckets

\* What the registry reports of a name is what all the updates that returned add
\* up to, whichever threads made them through whichever call they got the
\* instrument from, among updates that were refused, registrations at the same
\* time, and restarts.
UpdatesAddUp ==
  \A n \in Registered : objects[table[n]].series = accepted[n]

\* README.md:197, "Registering the same metric definition twice returns the
\* original instrument": a registration that returned once returns again, whatever was
\* registered since, and also in the next process if its instrument is in the
\* checkpoint, although the limits that were left to the registry's defaults
\* and the buckets it allows are not saved with the instrument.
RegistrationsLast ==
  running => \A c \in calls : Reusable(c.name, DefinitionOf(c))

\* docs/PRODUCTIZATION.md:144 and README.md:240: a checkpoint loads under exactly
\* the policies that allow its size, the limits of the registry and the limits
\* the program asked for in the calls that made its instruments, unless it holds
\* a series of a histogram that has drifted.  Nothing else that was recorded, and
\* nothing of how the instruments came to be, in this process or one before it,
\* makes the program's own checkpoint unloadable.
LoadableWithinPolicy ==
  saved # NoCheckpoint =>
    \A p \in Policy :
      Accepts(saved, p) <=>
        /\ Size(saved.metrics) <= p.maxFileBytes
        /\ LimitsWithin(saved.limits, p)
        /\ \A c \in savedCalls : c.maxSeries <= p.maxSeries /\ c.maxSamples <= p.maxSamples
        /\ \A n \in DOMAIN saved.metrics : saved.metrics[n].drifted = {}
=============================================================================
