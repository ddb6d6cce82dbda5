------------------------ MODULE HTTPInstrumentation ------------------------
(***************************************************************************)
(* The WSGI and ASGI middleware of samsarix_analytics.instrumentation: one *)
(* request per thread or task, each recording its entry, its status and,   *)
(* at the end, its completion in three instruments that have a lock each.  *)
(* Completion is therefore three steps, and requests interleave between    *)
(* them; each step can be refused by an instrument that is out of series,  *)
(* and the refusal is logged and the next step taken.                      *)
(*                                                                         *)
(* A WSGI request is over when the body generator that the middleware      *)
(* returns to the server ends; an ASGI request when the application does.  *)
(***************************************************************************)
EXTENDS Integers, FiniteSets

CONSTANTS
  Request,      \* requests, each served once by a process
  KnownMethod,  \* _KNOWN_METHODS
  RawMethod,    \* what a client may send as the method
  RawStatus,    \* status codes an application may answer with
  MaxSeries     \* max_series of the instruments

ASSUME RequestAssumption == IsFiniteSet(Request)
ASSUME StatusAssumption  == RawStatus \subseteq Int
ASSUME SeriesAssumption  == MaxSeries \in Nat \ {0}
ASSUME MethodAssumption  == IsFiniteSet(KnownMethod) /\ "OTHER" \notin KnownMethod

Method      == KnownMethod \cup {"OTHER"}
Invalid     == 0                        \* "invalid"; the class "2xx" is 2
StatusClass == 0 .. 5
Key         == Method \X StatusClass    \* label values of requests and duration

\* _method: the code also folds case, which RawMethod leaves out.
MethodOf(raw) == IF raw \in KnownMethod THEN raw ELSE "OTHER"

\* _status_class of an int or of the three digits a status line starts with.
ClassOf(code) == IF code \in 100 .. 599 THEN code \div 100 ELSE Invalid

ActiveLimit == IF MaxSeries < Cardinality(Method) THEN MaxSeries ELSE Cardinality(Method)

VARIABLES
  phase,      \* where a request is
  method,     \* its method label
  status,     \* its status_class
  recorded,   \* its active_recorded
  active,     \* gauge: value by method, a partial function
  requests,   \* counter: value by key, a partial function
  duration    \* histogram: number of observations by key, a partial function

local       == <<phase, method, status, recorded>>
instruments == <<active, requests, duration>>
vars        == <<local, instruments>>

Phase == {"new",        \* not begun
          "app",        \* the application runs
          "returned",   \* WSGI: the server has the body and has not asked for a chunk
          "body",       \* WSGI: the body generator runs or waits between two chunks
          "abandoned",  \* WSGI: the body was closed without having started
          "leave", "count", "observe",  \* completion: the operation that comes next
          "done"}

KeyOf(r) == <<method[r], status[r]>>

\* The variables of the middleware before a request; "500" until the
\* application says otherwise.
NoPhase     == [r \in Request |-> "new"]
NoMethod    == [r \in Request |-> "OTHER"]
NoStatus    == [r \in Request |-> 5]
NotRecorded == [r \in Request |-> FALSE]

Init ==
  /\ phase = NoPhase
  /\ method = NoMethod /\ status = NoStatus /\ recorded = NotRecorded
  /\ active = <<>>
  /\ requests = <<>>
  /\ duration = <<>>

-----------------------------------------------------------------------------
(***************************************************************************)
(* Counter.inc, Gauge.inc and Histogram.observe on their series: a new     *)
(* series needs room, otherwise CardinalityLimitError is raised.           *)
(***************************************************************************)
\* Variant: one series more than the limit.
FitsOneMore(values, key, limit) == key \in DOMAIN values \/ Cardinality(DOMAIN values) <= limit

Fits(values, key, limit) == key \in DOMAIN values \/ Cardinality(DOMAIN values) < limit

\* Variant: a series that is back at zero is dropped.
AddedNonZero(values, key, amount) ==
  LET old(k) == IF k \in DOMAIN values THEN values[k] ELSE 0
      new(k) == old(k) + (IF k = key THEN amount ELSE 0)
  IN  [k \in {j \in DOMAIN values \cup {key} : new(j) # 0} |-> new(k)]

Added(values, key, amount) ==
  [k \in DOMAIN values \cup {key} |->
     (IF k \in DOMAIN values THEN values[k] ELSE 0) + (IF k = key THEN amount ELSE 0)]

\* A refused operation is logged and changes nothing.
Recorded(values, key, amount, limit) ==
  IF Fits(values, key, limit) THEN Added(values, key, amount) ELSE values

-----------------------------------------------------------------------------
(***************************************************************************)
(* The application.                                                        *)
(***************************************************************************)

\* begin(): active_recorded says whether the gauge took the request.
Begin(r, m) ==
  /\ phase[r] = "new"
  /\ phase' = [phase EXCEPT ![r] = "app"]
  /\ method' = [method EXCEPT ![r] = m]
  /\ recorded' = [recorded EXCEPT ![r] = Fits(active, m, ActiveLimit)]
  /\ active' = Recorded(active, m, 1, ActiveLimit)
  /\ UNCHANGED <<status, requests, duration>>

\* capture_status, called by the application while it runs and, when it is a
\* generator, while its body is iterated; the last call counts.
StartResponse(r, code) ==
  /\ phase[r] \in {"app", "body"}
  /\ status' = [status EXCEPT ![r] = ClassOf(code)]
  /\ UNCHANGED <<phase, method, recorded, instruments>>

\* Variant: a request that failed does not leave the gauge.
FinishFailed(r) ==
  /\ phase' = [phase EXCEPT ![r] = IF recorded[r] /\ status[r] # 5 THEN "leave" ELSE "count"]
  /\ UNCHANGED <<method, status, recorded, instruments>>

\* finish(): the gauge comes first, if the request is in it.
Finish(r) ==
  /\ phase' = [phase EXCEPT ![r] = IF recorded[r] THEN "leave" ELSE "count"]
  /\ UNCHANGED <<method, status, recorded, instruments>>

\* ASGI: the application returned, raised or was cancelled.  WSGI: it raised.
AppEnds(r) ==
  /\ phase[r] = "app"
  /\ Finish(r)

\* WSGI: the application returned its response, and the middleware body().
ReturnBody(r) ==
  /\ phase[r] = "app"
  /\ phase' = [phase EXCEPT ![r] = "returned"]
  /\ UNCHANGED <<method, status, recorded, instruments>>

FirstChunk(r) ==
  /\ phase[r] = "returned"
  /\ phase' = [phase EXCEPT ![r] = "body"]
  /\ UNCHANGED <<method, status, recorded, instruments>>

\* The body is exhausted, raises, or the server closes it: its finally clause
\* finalizes, also when the close() of the response raises.
BodyEnds(r) ==
  /\ phase[r] = "body"
  /\ Finish(r)

\* The server closes a body it never iterated: a generator that has not
\* started has no finally clause to run.
CloseUnstarted(r) ==
  /\ phase[r] = "returned"
  /\ phase' = [phase EXCEPT ![r] = "abandoned"]
  /\ UNCHANGED <<method, status, recorded, instruments>>

-----------------------------------------------------------------------------
(***************************************************************************)
(* The operations of finish(), each under the lock of its instrument.      *)
(***************************************************************************)
Leave(r) ==
  /\ phase[r] = "leave"
  /\ active' = Recorded(active, method[r], -1, ActiveLimit)
  /\ phase' = [phase EXCEPT ![r] = "count"]
  /\ UNCHANGED <<method, status, recorded, requests, duration>>

\* Variant: a refused count ends the completion.
CountOrStop(r) ==
  /\ phase[r] = "count"
  /\ requests' = Recorded(requests, KeyOf(r), 1, MaxSeries)
  /\ phase' = [phase EXCEPT ![r] = IF Fits(requests, KeyOf(r), MaxSeries) THEN "observe"
                                   ELSE "done"]
  /\ UNCHANGED <<method, status, recorded, active, duration>>

Count(r) ==
  /\ phase[r] = "count"
  /\ requests' = Recorded(requests, KeyOf(r), 1, MaxSeries)
  /\ phase' = [phase EXCEPT ![r] = "observe"]
  /\ UNCHANGED <<method, status, recorded, active, duration>>

Observe(r) ==
  /\ phase[r] = "observe"
  /\ duration' = Recorded(duration, KeyOf(r), 1, MaxSeries)
  /\ phase' = [phase EXCEPT ![r] = "done"]
  /\ UNCHANGED <<method, status, recorded, active, requests>>

-----------------------------------------------------------------------------
Serve(r) ==
  \/ \E raw \in RawMethod : Begin(r, MethodOf(raw))
  \/ \E code \in RawStatus : StartResponse(r, code)
  \/ AppEnds(r) \/ ReturnBody(r) \/ FirstChunk(r) \/ BodyEnds(r) \/ CloseUnstarted(r)
  \/ Leave(r) \/ Count(r) \/ Observe(r)

Next == \E r \in Request : Serve(r)

Spec == Init /\ [][Next]_vars

-----------------------------------------------------------------------------
Series(limit, keys, values) ==
  /\ DOMAIN values \subseteq keys
  /\ Cardinality(DOMAIN values) <= limit
  /\ \A k \in DOMAIN values : values[k] \in Nat

\* Types, and the bound on the series of each instrument.
TypeOK ==
  /\ phase \in [Request -> Phase]
  /\ method \in [Request -> Method]
  /\ status \in [Request -> StatusClass]
  /\ recorded \in [Request -> BOOLEAN]
  /\ Series(ActiveLimit, Method, active)
  /\ Series(MaxSeries, Key, requests)
  /\ Series(MaxSeries, Key, duration)

\* Requests that are in the gauge: they entered it and have not left it.
InGauge(m) ==
  {r \in Request : recorded[r] /\ method[r] = m
                     /\ phase[r] \in {"app", "returned", "body", "abandoned", "leave"}}

\* Requests that came through the second and the third operation of finish().
Counted(k)  == {r \in Request : KeyOf(r) = k /\ phase[r] \in {"observe", "done"}}
Observed(k) == {r \in Request : KeyOf(r) = k /\ phase[r] = "done"}

\* A request that is over does not count as in progress: with every request
\* served and every body closed, the gauge of requests in progress is zero.
ActiveDrains ==
  (\A r \in Request : phase[r] \in {"abandoned", "done"}) => \A m \in DOMAIN active : active[m] = 0
=============================================================================
