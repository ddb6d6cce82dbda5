# A verification development of samsarix-analytics

Samsarix Analytics is an in-process metrics library: counters, gauges and
histograms with bounded series, threshold alerts over them, a Prometheus
endpoint, HTTP middleware that records requests, and checkpoints that carry the
metrics over a restart. This directory holds TLA+ models of it, the TLC runs
that check them on small instances, and proofs of the properties that matter
most for every instance.

Source files are named relative to `src/samsarix_analytics/`.

## 1. Inventory

| part | state | operations | hard to test | what makes it correct |
|---|---|---|---|---|
| Alert manager, `monitoring/alerting.py` | rules, live alerts, last triggers, history, handlers, one re-entrant lock | `add_rule`, `remove_rule`, `add_handler`, `evaluate`, `acknowledge`, `resolve` | `evaluate` takes the lock once per sample and works from a copy of the rules; handlers run without the lock; instants come from the caller | live alerts belong to current rules; history holds resolved alerts once; cooldowns hold; events reach handlers once |
| HTTP instrumentation, `instrumentation.py` | per request: method, status, whether the gauge took it | `begin`, `capture_status`, `finish`, the WSGI body generator, the ASGI wrapper | completion is three operations under three locks; each may be refused; a body may be closed at any time | the gauge counts the requests in progress, counter and histogram the completed ones, also when a checkpoint is taken in between and another process goes on |
| Metrics endpoint, `exposition.py` 121-269, `metrics.py` 811-826 | none of its own | render, refuse | a page is rendered instrument by instrument while requests complete; a byte limit cuts it off, and the digits of the values decide how long a page is | what counts on one page may differ by; a page is whole or refused |
| Standalone server, `exposition.py` 277-394 | slots, shutdown flags, `_closed`, a lock | accept, process, release, `close` | slow clients, failing thread starts, `close` from several threads, `close` again after `TimeoutError` | no slot is lost; a closed server is really stopped; `close` ends |
| Histogram, `monitoring/metrics.py` 389-672 | per label set: count, sum, extremes, buckets, window | `observe`, `query`, `summary`, checkpoint and restore | eviction, boundaries of buckets and floats, restored series that are observed upon | aggregates are exact; what was saved can be loaded |
| Counter, gauge, `monitoring/metrics.py` 217-386 | value per label set | `inc`, `dec`, `set` | series limit, sums beyond the finite range | what is reported is what the updates that returned add up to |
| Registry, `monitoring/metrics.py` 678-843 | instruments by name, limits | register, get, snapshot | two threads register one name; re-registration in the next process, with limits that were left to defaults | one instrument per name; a registration that worked keeps working |
| Checkpoint codec, `checkpoint.py` 67-399 | none | encode, decode under a policy | own checkpoints that are refused; instruments recorded upon between two copies | a checkpoint loads under exactly the policies that allow its limits, if the validator takes its histograms |
| Checkpoint file, `checkpoint.py` 402-459 | the file, temporary files | `save_checkpoint`, `load_checkpoint` | crash, loss of power, failure and concurrency at any step; saves overlap, for no lock is taken | the file is always a complete checkpoint, and no job is lost or counted twice |
| Command line, `cli.py` | none | print | - | - |

The parts meet in the registry. The application and the middleware record into
instruments, each with its own lock; `evaluate`, the endpoint and the checkpoint
read them one instrument at a time, so none of them sees one moment of the whole
registry. Alert handlers and the WSGI/ASGI applications are called back with no
lock held. The server has one accepting thread and one thread per connection. A
checkpoint is an explicit call of the application.

`PROJECT.json` lists the components with what is left out, and the hazards at
their lines with the properties that cover them.

## 2. Modules

| module | models | composed with |
|---|---|---|
| `AlertBoard` | what the alert manager promises, every operation atomic | - |
| `AlertManager` | `alerting.py`, a step per lock section | implements `AlertBoard` |
| `AlertManagerProofs` | proofs about `AlertManager` | extends it |
| `AlertNoticesProofs` | the proof about its notices | extends `AlertManagerProofs` |
| `HTTPInstrumentation` | `instrumentation.py` with its three instruments | - |
| `Scrape` | the endpoint over the instruments of `HTTPInstrumentation` | extends it |
| `HTTPRestart` | checkpoints of those instruments, crashes and the next process | extends `Scrape` |
| `HTTPRestartProofs` | proofs about `HTTPRestart`, and through it about `HTTPInstrumentation` and `Scrape` | extends it |
| `Registry` | registration, recording, and encode/decode under a `CheckpointPolicy` | - |
| `RegistryProofs` | proofs about `Registry` | extends it |
| `Histogram` | `Histogram` with its checkpoint and validator | - |
| `HistogramProofs` | proofs about `Histogram`: types, aggregates, what the validator accepts | extends it |
| `HistogramPercentileProofs` | the proof about its percentiles | extends `HistogramProofs` |
| `CheckpointFile` | `save_checkpoint`, `load_checkpoint` and the worker of `examples/checkpointed_worker.py` | - |
| `CheckpointFileProofs` | proofs about `CheckpointFile` | extends it |
| `MetricsServer` | the standalone server and `close()` | - |
| `MetricsServerProofs` | proofs about `MetricsServer` | extends it |

`MC<module>.tla` gives the constants of a module their values, and the `.cfg`
files beside it are the runs. A definition whose comment starts with "Variant"
is a plausible mistake in the code; no action uses it. `PROJECT.json`
("mutants") says which definition it stands in for and which property then
fails.

### AlertManager

A rule is a record with an identity, because the code compares rules with `is`;
a series is the rank of its label set. An `Alert` object is an id with the
record it holds at the moment, since callers and handlers keep a reference to
it. `evaluate()` is a sequence of actions of one thread: `EvaluateBegin` (the
copy of the rules), `Query` or `QueryFails` for each rule, then for each sample
one of `StaleRule`, `UpdateActive`, `CoolingDown`, `CooldownOverflow`,
`Trigger`, `AutoResolve`, `NothingToDo`, which are the branches of the lock
section at lines 265-305, and at the end `NotifyBegin` and one `CallHandler` per
call. `QueryFails` (an absent metric or an aggregation it does not support)
leaves the other rules of the pass to be evaluated; `CooldownOverflow` ends the
pass, and with it goes what the pass already raised and has not announced. A
query may return any value for each series, because the application may have
recorded anything since; instants are any element of `Time`, because callers
pass them. Rules are visited in any order, which includes the dictionary's. Of
the fields of an alert those that only describe it (value, severity,
acknowledged_at, resolved_at) are left out.

`AlertBoard` is the specification without threads and passes. `ImplementsBoard`
says that every step of the manager is an operation of the board or changes
nothing that it sees: `QuietUntil` is the end of the cooldown, and an alert
whose rule went away before it was resolved is "dropped".

### HTTPInstrumentation, Scrape and HTTPRestart

A request is in one of the phases of the WSGI or the ASGI wrapper. The three
instruments are partial functions from label values to counts; an operation on a
new series is refused when the instrument is full (`Fits`). Elapsed times are
left out: the histogram is its number of observations. `FirstChunk`, `BodyEnds`
and `CloseUnstarted` are the life of the generator that `instrument_wsgi`
returns.

`Scrape` adds a walk that reads the instruments in the order of their names, a
step each, under that instrument's lock, and ends in a page (`Deliver`) or, as
soon as what it has rendered is too long, in a refusal (`Refuse`). The code
compares encoded bytes, and how many those are depends on the digits of the
values: a page can get shorter although series are only ever added. A page is
therefore measured in units of its shortest lines, and a line of a value takes
one unit and up to `Spread` units more, anew at every rendering. `outgrown`
records whether the page was too long with the shortest possible values when the
scrape began; only of such pages does `RefusalLasts` say that they are refused.
One scrape is modelled at a time, since scrapes only read.

`HTTPRestart` adds saves and processes. `save_checkpoint` takes no lock, so each
`Saver` walks over the instruments on its own (`StartSave`, `Copy`), and
`Install` puts what it has copied in the place of whatever other saves have
installed since; `SaveFails` leaves the checkpoint alone. `since` is the
checkpoint that was there when the save began, the one `CheckpointsGrow`
compares with: of two saves that overlap, the older copy may be installed last,
and then the checkpoint has less than before. The process may die at any moment:
requests, scrapes and saves in progress and everything since the last checkpoint
are gone, and the next process starts from the checkpoint with as many requests
again. `base` is what it started from. The invariants are stated relative to it,
so they say what a restart does to the gauge: the requests that were in progress
when it was copied stay in it for good.

### Registry

An instrument is an object; `table` is `_instruments`, and a thread records
through the object it holds, so that an instrument the registry has lost sight
of would still take updates. `Register` is `counter()`, `gauge()` and
`histogram()`: the construction, which may fail, and `_register` under the lock.
An argument that is left out (`None`) takes the default of the registry when the
call is made, which is why the limits of a restored registry matter. Calls that
raise are not steps: they change nothing. `StartSave`, `Copy` and `Encode` are
`encode_checkpoint`; `Accepts` is everything `decode_checkpoint` demands of a
payload the program wrote, in the order of the code: size, limits, number of
metrics, and each metric with its series. A series of a histogram is its number
of observations here, and the validator that `decode_checkpoint` runs on it is
the subject of `Histogram`; of its verdict `Registry` keeps `drifted`, the
series it refuses because their rounded sums no longer agree with their
observations (finding 4). Any observation may make a series drift or end its
drift, which is more than rounding does, so that what holds here holds of the
code whenever it drifts. `LoadableWithinPolicy` says that drift is the one
reason, besides the policy's limits, for which a checkpoint of the program is
refused. A restored histogram has the bucket limit of the restored registry
(`RestoredDefinition`), and `Constructible` is what its constructor demands, at
least one bucket and not more than that limit. Three history variables record
what the callers know: the sum of the updates that returned, and the
registrations that returned, now and up to the checkpoint.

### Histogram

A series is the record `_HistogramSeries`, with `NewSeries` what `observe()`
starts one from and `NoSeries` the label set that has none, not even an empty
one. `Observe` is `observe()` and `ObserveRefused` the call that raises: a step
that changes nothing, so `AggregatesExact` is also about the trace a refused
observation might leave. `observe()` has no limit on the count; `MaxCount` is
the validator's, which a series restored from a file written elsewhere may have
reached already, and `MaxObserved` bounds the behaviours. `Valid` is the
validator with its two parts, what it demands of every series (`Plausible`) and
of one whose window still holds everything (`Exact`). Numbers are integers that
stand for floats. `Rounded` is rounding to nearest, ties to even, to integers
whose significand is at most `Significand`; a sum beyond `MaxFinite` is refused,
as by `observe()`; `Close` is `math.isclose` with `rel_tol = 1/Tolerance`. The
runs `histogram` and `histogram_percentile` stay below `Significand`, where
every sum is exact. `Compensated` is the summation that `sum()` has used since
Python 3.12: `Sum` rounds the exact `Total` once, or else `Accumulated` rounds
after each value. `Save` and `Load` are a checkpoint and a restart;
`LoadForeign` starts from any series the validator accepts. Percentiles are
computed times 100, with the interpolation of `_percentile`, in exact
arithmetic: the interpolation rounds nothing.

### CheckpointFile

`save_checkpoint` is `MakeTemporary`, `Write`, `Sync`, `Replace`, or `Fail` and
then `Unlink` or `UnlinkFails`, since `unlink` may itself raise or be
interrupted; `load_checkpoint` is `Start` and `Read`. A process can die at each
step, and a save can be interrupted before its `try` (`InterruptBeforeTry`, the
temporary file stays, as it does after `UnlinkFails`) or when the file has
already moved (`ReplaceInterrupted`, the caller is told that the save failed).
`abandoned` records the saves that had no chance to clean up, or whose cleaning
up failed, and `powerLost` whether entries may have come back. The file system
is external: an entry leads to an inode; after a loss of power a file that was
not synced is incomplete, and the target entry is the one last known to be on
the disk or any later one.

### MetricsServer

`serve_forever` and `shutdown` belong to Python's `socketserver` and are
modelled as far as `close()` relies on them: two flags and the order in which
the loop sets them. `close()` is one action per statement under its lock. A
client sends the parts of its request when it likes; `Tick` lets time pass for
the requests being read and never beyond the timeout of a read.

## 3. Runs

| run | instance | shows |
|---|---|---|
| `alerts` | 2 threads, 3 rules of 2 names (one replaceable, one with a missing metric), 1 series, 2 instants, history of 1, 2 handlers, 2 alerts | types, `LiveAlertsOfCurrentRules`, `HistoryOfResolved`, `CooldownSeparatesTriggers`, `AlertsOnlyAdvance`, `NotifiedAtMostOnce`, `ImplementsBoard` |
| `alerts_live` | 2 threads, 2 of 3 rules at a time (two names; one metric missing), 1 series, 1 handler, 2 alerts | `EventsReachHandlers`, also when another rule of the pass fails |
| `alerts_overflow` | as `alerts` with one thread | violation: `EvaluationsReturn` |
| `http` | 2 requests in each of 2 processes, 2 methods, 1 status class, 1 series, pages of 11 units with values that add up to 1, 2 savers, 3 saves | `ActiveCountsInGauge`, `CompletionsCountedOnce`, `DurationsNeverAhead`, `RefusalLasts`, `CheckpointsGrow` |
| `http_leak` | 3 requests, 3 methods, 3 status classes, 2 series | violation: `ActiveDrains` |
| `histogram` | 2 label sets, room for 1, window of 2, up to 5 observations where the validator takes 4, sums up to 4 | `AggregatesExact`, `SeriesStayLoadable`, `PercentilesWithinWindow` |
| `histogram_percentile` | observations at both ends of the finite range | violation: `PercentilesFinite` |
| `histogram_rounding` | equal observations, a significand of 8, a tolerance of 1/4 | violation: `RestartsSucceed` |
| `registry` | 2 threads, 2 names, 2 label sets, 6 calls, 2 configurations, 2 policies, values from -1 to 1 | `UpdatesAddUp`, `RegistrationsLast`, `LoadableWithinPolicy` |
| `checkpoint` | 2 processes, 3 saves, 2 jobs | `CheckpointsComplete`, `FilesArePrivate`, `TemporariesCleaned`, `StoredJobsCountedOnce` |
| `server` | 2 connections, 1 slot, 2 closers, requests of 2 reads | `SlotsConserved`, `ClosedIsFinal`, `SocketOutlivesLoop`, `CloseEnds`, `SlotsComeBack` |
| `server_timeout` | the same | violation: `RequestsWithinTimeout` |

**Bounds.** Two evaluations suffice for every pair of lock sections to
interleave, because the store is touched by one section at a time and a third
thread only adds more of the same steps. Two alerts are a trigger and a trigger
after it (a cooldown, a replaced rule), and with a history of one the second
resolution evicts the first. `Room` starts a pass only if `MaxAlerts` leaves
room for what all passes together may still raise, so no pass is cut short by
the bound. In `alerts_live` two alerts are enough for a pass over two working
rules, for a pass over a working and a broken one while a second thread
evaluates too, and for one that resolves what another raised. In `http` each
instrument has room for one of two methods or keys, so that each of the three
operations is refused in some behaviours. A page with one series of each
instrument is a unit too long, and a page with less may be too long or not,
depending on the digits. The status classes, which only add keys, are one there,
so that three saves of two threads can overlap and follow each other; `MaxWalks`
allows either two saves at a time or one scrape, which has the weight of two
(`ScrapeWeight`): scrapes and saves do not touch each other. The steps of two
requests interleave in every way, each takes one lock at a time, and two
requests more follow in the second process, which starts from whatever the first
had saved. In `registry` one call exceeds the strict policy, one has more
buckets than one of the configurations allows, one has none, two contradict
others, and one configuration has room for one metric only; restarts are not
bounded. The tolerance in `histogram_rounding` is far wider than the
validator's, and so is the precision coarser; the ratio decides only how many
observations it takes. With floats, 100000 observations of 0.1 do it. Five
observations fill a window of two, evict, survive a restart, reach the limit of
the sum and exceed the count that the validator takes. Three saves give a loader
an inode that has been replaced twice. Two connections for one slot give a
refusal, a failed start and a slot that comes back. The bounds that appear in
guards are `MaxAlerts`, `MaxRestarts`, `MaxSaves`, `MaxWalks` with
`ScrapeWeight`, `MaxObserved` (`Histogram`), `MaxCount` (`Registry`), `MaxInode`
and `MaxJobs`.

**Deadlock** is checked except in `registry`, which ends after a crash where no
policy accepts the checkpoint.

**Fairness.** `alerts_live` assumes weak fairness of the steps of a running
evaluation: its thread is scheduled, the registry answers, and handlers return
(a handler that does not return stops its own thread's evaluation; the code does
not guard against that). Nobody is assumed to evaluate, administer or resolve
anything. `server` assumes that the accepting thread, the workers and the
threads inside `close()` are scheduled and that time passes; clients may stay
silent for ever and nobody has to call `close()`.

**Violations** are disagreements between the code and what its documentation
says, each with the quoted line in `PROJECT.json` ("findings"):

1. A cooldown that passes validation can make `evaluate()` raise
   `OverflowError`, which ends the pass for all rules; what the pass had already
   triggered or resolved is in the store and is never announced.
2. A WSGI body that is closed before its first chunk is never finalized, and its
   request stays in the gauge.
3. A percentile between two finite observations can be infinite or NaN.
4. The sum of a series drifts by rounding until the validator refuses the
   program's own checkpoint.
5. The request timeout applies to each read, not to the request.

## 4. Proofs

`AlertManagerProofs` proves, for every set of threads, rules, series, values and
instants and every limit, from the assumptions on the constants named in
`AlertManager`:

* `TypeCorrect`, `LiveCorrect`, `HistoryCorrect`: three of the invariants of run
  `alerts`. The inductive invariant (`IInv`, theorem `Invariance`) adds two
  parts to them. `RulesByName`, a rule is registered under its own name: without
  it an evaluation that compares its rule with the registered one could trigger
  under another name's key. `SelectedByRule`, the samples a pass still has to
  apply have labels of its rule: the board raises alerts for those only, so the
  refinement needs it. That a resolution never enters the history twice needs
  nothing more, since live alerts are not resolved and the history holds
  resolved ones.
* `CooldownCorrect`, `AdvanceCorrect`: the action properties, from the same
  invariant, one step per action that touches a trigger or an alert.
* `Refinement`: the manager implements `AlertBoard`. Each action is shown to map
  to one board operation or a stutter; the lemmas `InstallStep`, `RaiseStep`,
  `ResolveStep` and `UpdateStep` collect the cases.

`AlertNoticesProofs` adds `NoticesAtMostOnce`. The invariant beside `IInv`: an
event is held by one pass, once (`HeldByOne`: the pass that raised or resolved
the alert under the lock; a second pass cannot, because an alert is raised when
its id is fresh and resolved while it is live), and a handler that a pass still
has to call for an event has not been told of it (`ToldOnce`).

`CheckpointFileProofs` proves for any number of processes, saves and jobs:

* `FilesTyped`, `CheckpointsAlwaysComplete`, `FilesAlwaysPrivate`,
  `TemporariesAlwaysCleaned` and `JobsAlwaysCountedOnce`: all the invariants of
  run `checkpoint`. Its inductive invariant follows an inode through a save:
  what is at the target, or may be there after a loss of power, is written and
  synced (`TargetComplete`, without which a reader could be refused after a
  restart); each temporary file belongs to a save in progress or is `abandoned`;
  each step may assume the ones before it (`StepsDone`); every inode in use is
  older than the next one (`OlderThanNext`, so a new temporary file is private);
  and while processes take turns the registry of the running one is what is
  stored and its own jobs (`CountsAccounted`).

`RegistryProofs` proves for any number of threads, names, label sets, calls,
limits and policies:

* `UpdatesAlwaysAddUp`. What could go wrong is two objects under one name, of
  which a thread keeps the one that the registry has lost. `OneObjectPerName`
  excludes it: the table and the list of objects correspond, and a handle is one
  of the list. In a restored process the sum starts from the values in the
  checkpoint.
* `RegistrationsAlwaysLast`. A call returns again if the instrument of its name
  has the definition the call asks for *under the defaults of the registry that
  runs*. `CallsAnswered` says that of the instruments in memory and `SavedSound`
  of the checkpoint, both with `DefinitionUnder`, which names the limits the
  definition was made with; a restored registry has the limits that were saved,
  so the two agree.
* `AlwaysLoadableWithinPolicy`. `Sound` collects what an instrument keeps of its
  own limits and of the registry's. Together with `DraftOfRegistered` (what a
  walk has copied is still in the registry, since nothing is unregistered) it
  leaves `Accepts` with exactly the conditions the property names: the policy's
  limits, the size, and that no series has drifted.
* `RegistryTyped`: registry, instruments and draft keep within their limits.

Two of its assumptions go beyond types: only `histogram()` takes buckets and a
number of samples, as in the code, and the bound on observations is within the
range of the values (`MaxCount <= MaxFinite`), because a series of a histogram
is its count here.

`HTTPRestartProofs` proves for any number of requests, methods, series, units of
a page, savers and restarts:

* `ActiveAlwaysInGauge`, by the cardinality of `InGauge`. The gauge is
  decremented only for requests whose increment was admitted
  (`LeavesWhatItEntered`), and the series of a method never goes away, so the
  decrement is never refused.
* `CompletionsAlwaysCountedOnce`: a key gains a series with its first completion
  or the instrument is full then, and remains full (`FullStays`).
* `DurationsAlwaysBehind`. That a key observed is counted as often is not
  inductive when the counter refused the key: `Backed` adds that the counter is
  then full, so the key is refused for good, and `NotAhead` speaks of keys that
  both instruments admit. A walk reads the durations first, and counts only
  grow, so what it read is `Backed` by what it reads next. `Read` says that of a
  scrape and of each save by itself, wherever it is (`Place`), so it does not
  matter which of several saves is installed last.
* `RefusalsLast`: in one process series are only added, so a page that is too
  long at its shortest stays so. `Pending`, the size of the page if the walk
  went on now with the shortest values, only grows; once it exceeds the limit,
  `Deliver` cannot happen (`DeliverFits`).
* `CheckpointsAlwaysGrow`: what a save has copied is at least what the
  checkpoint had when that save began (`Read`, with `since` for the older one),
  because the instruments have never less than the checkpoint (`SavedKept`), and
  a process starts with the contents of the last one. It follows that only saves
  that overlap can make a checkpoint have less than one before it.

`MetricsServerProofs` proves for any number of clients, slots, reads and threads
in `close()`:

* `SlotsAlwaysConserved`, by counting `Held`; `HandedOver` says that an accepted
  connection is the one the loop has in its hands, so a slot that is taken for
  it is either passed on or given back.
* `SocketAlwaysOutlivesLoop`, `ClosedAlwaysFinal`: `CloseStepsDone` is what each
  step of `close()` may assume of the loop, in whichever order the threads come,
  also after a call that gave up with `TimeoutError`.

`HistogramProofs` proves for any label sets, observations, buckets, limits,
window, tolerance and significand, with `sum()` compensated or not. The
inductive invariant comes in layers, each from the one before:

* `IInv` says of the series in memory and of those in the checkpoint (`Sound`)
  everything the validator checks apart from the mean, the sum and the limit of
  the count (`Consistent`). That is preserved by observing any value, whatever
  becomes of the sum: counting the window (`AtMostAppend`, `AtMostTail`) keeps
  it below the buckets, and an evicted value leaves the extremes where they
  were. It gives `TypeCorrect`, `SeriesConsistent` and `RefusalsForSums`: a
  checkpoint that is refused is refused for the mean or the sum of a series, or
  for a count beyond `MaxCount`, which only a series restored from elsewhere can
  reach in practice.
* `AggregatesInv` relates each series to what was observed, in memory and at the
  checkpoint (`Summarises`), which gives `AggregatesOfAll`: every aggregate is
  exact, and the total is the sum rounded after each observation. With it,
  `RefusalsForMean`: where `sum()` is not compensated, the window's sum always
  agrees, so the mean and the count are all that can refuse a series that was
  observed. Run `histogram_rounding` finds the refusal for the mean; this says
  there is no other kind.
* `TotalsInv` (`AggregatesWhileExact`) and `LoadableInv` (`LoadableWhileExact`)
  speak of behaviours in which sums are exact: `SumsFit`, no total has reached
  the significand (2^53 units in a float), from where on the property is false,
  as that run shows. `SeriesStayLoadable` excepts a series that has counted
  beyond `MaxCount`: the code does observe upon a foreign series that is at the
  limit, and cannot load it again. The mean is the part that needs an argument
  (`MeanKept`): a foreign series may have a mean just outside its extremes, and
  one observation more must keep it within the tolerance. `LoadableWhileExact`
  assumes `ForeignExact`, that a checkpoint written elsewhere has the exact sum
  of a window that is still complete; the validator accepts one that is only
  close, and an observation that cancels most of the sum then leaves a
  difference beyond the tolerance. TLC evaluates `ForeignExact` for run
  `histogram`.
* `ShortSeriesAlwaysExact` has no hypothesis on sums: `n` observations of at
  most `B` each with `n * B` within the significand make a series that is exact,
  through evictions, refusals and restarts, whatever becomes of other series.
  For floats that is, for example, a million latencies given as whole numbers of
  microseconds up to two hours.

`HistogramPercentileProofs` adds `PercentilesOrdered`, which has no hypothesis
at all. `Ranked` has a value (`RankExists`: the least integer that enough
observations do not exceed), ascends with the rank (`RankedMonotonic`) and ends
at the extremes (`RankedExtremes`); a percentile lies between two ranks
(`PercentileIs`), and of two percentiles either the ranks are apart or the
fractions are ordered (`PercentileMonotonic`).

Recursion in `Histogram` is over integers, by recursive functions, and what the
proofs need of it they get from minimal counterexamples: `Least`, a set of
naturals has a least member, is a consequence of the well-foundedness of the
naturals, so that no induction theorem with an operator for a parameter is
cited. `Spacing` is computed by doubling because the prover knows nothing of
exponentiation. The formulas above were also checked by TLC, on an instance with
a significand below the finite range, a tolerance of 1/3, foreign series whose
mean is only close, and both kinds of `sum()`.

**Only model-checked:** the liveness properties (`EventsReachHandlers`,
`CloseEnds`, `SlotsComeBack`: liveness is outside the prover's reach), and the
runs that end in a violation, which refute. Every invariant and every action
property of a run is a theorem.

## 5. Not modelled

* A refusal for a label value that is too long (`metrics.py` 160): the labels of
  the middleware are from small fixed sets. In `HTTPInstrumentation` a series is
  refused only because the instrument is full.
* How a connection ends early (a disconnect, a malformed request), and the
  writing of the response: either way the worker ends and gives back its slot
  (`EndRequest`).
* The endpoint's checks of path, method and token, header parsing, escaping and
  number formatting: functions of their arguments without state.
* JSON, and the checks of `checkpoint.py` that only a file written elsewhere can
  fail (types, duplicate keys and names), and the default it supplies for
  `max_histogram_buckets` in files of an older version.
* The rounding of counters and gauges; `abs_tol` of the validator, which matters
  near zero only.
* That the validator accepts truncated series that no observations produce: the
  evicted part of a window is checked by its mean only (`metrics.py` 593-599).
  `SeriesStayLoadable` shows that such a series can still be observed upon,
  saved and loaded, unless its window is complete and its sum only close (see
  `LoadableWhileExact`).
* The order of notices across threads: handlers run without the lock, and the
  code promises none.
* The command line, the release scripts and the benchmark.

## 6. Plan

Done, in this order: the alert manager and its refinement, the middleware, the
endpoint, the histogram, the checkpoint file and the server, with the proofs
about the alert manager and the checkpoint file; then the registry with its
codec, restarts of the instrumented service and rounding; then the proofs about
the registry, the service across restarts, the server and the notices of the
alert manager; then the proofs about the histogram; last a revision of the
assumptions that the code does not make: pages whose length depends on digits,
overlapping saves, drifted series at load, `unlink` that fails, counts beyond
the validator's limit. Left:

1. How far a compensated `sum()` of a complete window can be from the total that
   `observe()` rounded at every step, which would extend `RefusalsForMean` to
   Python 3.12.
2. The endpoint's decision between 404, 405, 401 and a page, if it ever keeps
   state.
