--------------------------- MODULE MetricsServer ---------------------------
(***************************************************************************)
(* The standalone metrics server of samsarix_analytics.exposition: one     *)
(* thread accepts connections and hands each to a thread of its own if a   *)
(* slot is free; threads of the application call close(), together or      *)
(* again after a timeout.  Clients connect when they like, send a request  *)
(* at their own pace, or not at all.                                       *)
(*                                                                         *)
(* serve_forever, shutdown and the handler are Python's socketserver; they *)
(* are modelled as far as the code relies on them.  A request is complete  *)
(* after a number of reads; a read that waits for the socket's timeout     *)
(* ends the connection.                                                    *)
(***************************************************************************)
EXTENDS Integers, FiniteSets

CONSTANTS
  Client,         \* connections that clients may open
  Closer,         \* threads that call close()
  MaxConcurrent,  \* max_concurrent_requests
  Timeout,        \* request_timeout_seconds
  Reads           \* reads a request takes (the handler limits line and header sizes)

ASSUME ClientAssumption == IsFiniteSet(Client)
ASSUME LimitsAssumption == {MaxConcurrent, Timeout, Reads} \subseteq Nat \ {0}

VARIABLES
  loop,       \* where the server thread is
  accepted,   \* the connection it is handing over
  stopping,   \* __shutdown_request
  stopped,    \* the event __is_shut_down
  listening,  \* whether the server's socket is open
  slots,      \* free slots of _worker_slots
  conn,       \* what became of a connection
  left,       \* reads its request still takes
  silent,     \* time since its last read returned
  age,        \* time since it was accepted
  closer,     \* where a call of close() is
  closed      \* _closed

server  == <<loop, accepted, stopping, stopped>>
request == <<left, silent, age>>
vars    == <<server, listening, slots, conn, request, closer, closed>>

NoClient == "none"

Loop   == {"starting", "select", "accept", "spawn", "leaving", "dead"}
Conn   == {"new", "backlog", "accepted", "working", "releasing", "refused", "ended"}
Closes == {"out", "lock", "shutdown", "wait", "close", "join", "returned", "raised"}

Working == {c \in Client : conn[c] = "working"}

Init ==
  /\ loop = "starting"
  /\ accepted = NoClient
  /\ stopping = FALSE
  /\ stopped = FALSE
  /\ listening = TRUE
  /\ slots = MaxConcurrent
  /\ conn = [c \in Client |-> "new"]
  /\ left = [c \in Client |-> Reads]
  /\ silent = [c \in Client |-> 0]
  /\ age = [c \in Client |-> 0]
  /\ closer = [p \in Closer |-> "out"]
  /\ closed = FALSE

-----------------------------------------------------------------------------
(***************************************************************************)
(* The server thread.                                                      *)
(***************************************************************************)
ServeForever ==
  /\ loop = "starting"
  /\ loop' = "select"
  /\ stopped' = FALSE
  /\ UNCHANGED <<accepted, stopping, listening, slots, conn, request, closer, closed>>

\* get_request: the connection gets its timeout.
Accept(c) ==
  /\ loop = "select" /\ ~stopping
  /\ conn[c] = "backlog"
  /\ loop' = "accept"
  /\ accepted' = c
  /\ conn' = [conn EXCEPT ![c] = "accepted"]
  /\ UNCHANGED <<stopping, stopped, listening, slots, request, closer, closed>>

\* The connection is closed unanswered, and the loop goes on.
Refuse ==
  /\ conn' = [conn EXCEPT ![accepted] = "refused"]
  /\ loop' = "select"
  /\ accepted' = NoClient

\* Variant: the slot is released on every path.
RejectAndRelease ==
  /\ loop = "accept" /\ slots = 0
  /\ Refuse
  /\ slots' = slots + 1
  /\ UNCHANGED <<stopping, stopped, listening, request, closer, closed>>

\* process_request: with no slot free the connection is closed at once.
RejectBusy ==
  /\ loop = "accept" /\ slots = 0
  /\ Refuse
  /\ UNCHANGED <<stopping, stopped, listening, slots, request, closer, closed>>

AcquireSlot ==
  /\ loop = "accept" /\ slots > 0
  /\ slots' = slots - 1
  /\ loop' = "spawn"
  /\ UNCHANGED <<accepted, stopping, stopped, listening, conn, request, closer, closed>>

Spawn ==
  /\ loop = "spawn"
  /\ conn' = [conn EXCEPT ![accepted] = "working"]
  /\ loop' = "select"
  /\ accepted' = NoClient
  /\ UNCHANGED <<stopping, stopped, listening, slots, request, closer, closed>>

\* Variant: the slot is lost when the thread cannot be started.
SpawnFailsWithSlot ==
  /\ loop = "spawn"
  /\ Refuse
  /\ UNCHANGED <<stopping, stopped, listening, slots, request, closer, closed>>

\* The thread cannot be started: the slot is given back, the connection closed.
SpawnFails ==
  /\ loop = "spawn"
  /\ Refuse
  /\ slots' = slots + 1
  /\ UNCHANGED <<stopping, stopped, listening, request, closer, closed>>

LeaveLoop ==
  /\ loop = "select" /\ stopping
  /\ stopping' = FALSE
  /\ stopped' = TRUE
  /\ loop' = "leaving"
  /\ UNCHANGED <<accepted, listening, slots, conn, request, closer, closed>>

ThreadEnds ==
  /\ loop = "leaving"
  /\ loop' = "dead"
  /\ UNCHANGED <<accepted, stopping, stopped, listening, slots, conn, request, closer, closed>>

-----------------------------------------------------------------------------
(***************************************************************************)
(* Clients, and the threads that serve them.                               *)
(***************************************************************************)
Connect(c) ==
  /\ conn[c] = "new"
  /\ conn' = [conn EXCEPT ![c] = IF listening THEN "backlog" ELSE "refused"]
  /\ UNCHANGED <<server, listening, slots, request, closer, closed>>

\* Part of the request arrives, within the timeout of the read that waits for it.
Receive(c) ==
  /\ conn[c] = "working" /\ left[c] > 0
  /\ left' = [left EXCEPT ![c] = @ - 1]
  /\ silent' = [silent EXCEPT ![c] = 0]
  /\ UNCHANGED <<server, listening, slots, conn, age, closer, closed>>

\* Variant: no timeout on the socket.
EndComplete(c) ==
  /\ conn[c] = "working"
  /\ left[c] = 0
  /\ conn' = [conn EXCEPT ![c] = "releasing"]
  /\ UNCHANGED <<server, listening, slots, request, closer, closed>>

\* The request is complete and answered, or a read timed out; in both cases,
\* and whatever the handler raises, the connection is closed.
EndRequest(c) ==
  /\ conn[c] = "working"
  /\ left[c] = 0 \/ silent[c] = Timeout
  /\ conn' = [conn EXCEPT ![c] = "releasing"]
  /\ UNCHANGED <<server, listening, slots, request, closer, closed>>

\* process_request_thread: finally.
ReleaseSlot(c) ==
  /\ conn[c] = "releasing"
  /\ slots' = slots + 1
  /\ conn' = [conn EXCEPT ![c] = "ended"]
  /\ UNCHANGED <<server, listening, request, closer, closed>>

\* Time passes for the requests being read: none waits longer than the timeout,
\* and one that is complete is answered at once.
Tick ==
  /\ \E c \in Working : left[c] > 0
  /\ \A c \in Working : silent[c] < Timeout /\ left[c] > 0
  /\ silent' = [c \in Client |-> silent[c] + IF c \in Working THEN 1 ELSE 0]
  /\ age' = [c \in Client |-> age[c] + IF c \in Working THEN 1 ELSE 0]
  /\ UNCHANGED <<server, listening, slots, conn, left, closer, closed>>

-----------------------------------------------------------------------------
(***************************************************************************)
(* close(): all of it under _close_lock.                                   *)
(***************************************************************************)
\* Variant: the lock is not released when TimeoutError is raised.
LockFreeUnlessRaised == \A p \in Closer : closer[p] \in {"out", "lock", "returned"}

LockFree == \A p \in Closer : closer[p] \in {"out", "lock", "returned", "raised"}

Step(p, location) == closer' = [closer EXCEPT ![p] = location]

\* The first call, or another after it returned or raised TimeoutError.
Call(p) ==
  /\ closer[p] \in {"out", "raised", "returned"}
  /\ Step(p, "lock")
  /\ UNCHANGED <<server, listening, slots, conn, request, closed>>

TakeLock(p) ==
  /\ closer[p] = "lock" /\ LockFree
  /\ Step(p, IF closed THEN "returned" ELSE "shutdown")
  /\ UNCHANGED <<server, listening, slots, conn, request, closed>>

Shutdown(p) ==
  /\ closer[p] = "shutdown"
  /\ stopping' = TRUE
  /\ Step(p, "wait")
  /\ UNCHANGED <<loop, accepted, stopped, listening, slots, conn, request, closed>>

\* Variant: shutdown() does not wait for the loop.
ShutdownAtOnce(p) ==
  /\ closer[p] = "wait"
  /\ Step(p, "close")
  /\ UNCHANGED <<server, listening, slots, conn, request, closed>>

ShutdownReturns(p) ==
  /\ closer[p] = "wait" /\ stopped
  /\ Step(p, "close")
  /\ UNCHANGED <<server, listening, slots, conn, request, closed>>

\* server_close: connections not accepted are reset.
ServerClose(p) ==
  /\ closer[p] = "close"
  /\ listening' = FALSE
  /\ conn' = [c \in Client |-> IF conn[c] = "backlog" THEN "refused" ELSE conn[c]]
  /\ Step(p, "join")
  /\ UNCHANGED <<server, slots, request, closed>>

\* Variant: is_alive() is not checked after the join.
JoinedAnyway(p) ==
  /\ closer[p] = "join"
  /\ closed' = TRUE
  /\ Step(p, "returned")
  /\ UNCHANGED <<server, listening, slots, conn, request>>

Joined(p) ==
  /\ closer[p] = "join" /\ loop = "dead"
  /\ closed' = TRUE
  /\ Step(p, "returned")
  /\ UNCHANGED <<server, listening, slots, conn, request>>

\* join(timeout) gives up on the server thread: TimeoutError.
JoinTimesOut(p) ==
  /\ closer[p] = "join" /\ loop # "dead"
  /\ Step(p, "raised")
  /\ UNCHANGED <<server, listening, slots, conn, request, closed>>

-----------------------------------------------------------------------------
Serve ==
  \/ ServeForever
  \/ \E c \in Client : Accept(c)
  \/ RejectBusy \/ AcquireSlot \/ Spawn \/ SpawnFails
  \/ LeaveLoop \/ ThreadEnds

Handle(c) == EndRequest(c) \/ ReleaseSlot(c)

Close(p) ==
  \/ TakeLock(p) \/ Shutdown(p) \/ ShutdownReturns(p) \/ ServerClose(p)
  \/ Joined(p) \/ JoinTimesOut(p)

Next ==
  \/ Serve
  \/ \E c \in Client : Connect(c) \/ Receive(c) \/ Handle(c)
  \/ Tick
  \/ \E p \in Closer : Call(p) \/ Close(p)

Spec == Init /\ [][Next]_vars

\* The threads are scheduled and time passes; no client has to do anything, and
\* nobody has to call close().
FairSpec ==
  /\ Spec
  /\ WF_vars(Serve)
  /\ WF_vars(Tick)
  /\ \A c \in Client : WF_vars(Handle(c))
  /\ \A p \in Closer : WF_vars(Close(p))

-----------------------------------------------------------------------------
TypeOK ==
  /\ loop \in Loop
  /\ accepted \in Client \cup {NoClient}
  /\ {stopping, stopped, listening, closed} \subseteq BOOLEAN
  /\ slots \in 0 .. MaxConcurrent
  /\ conn \in [Client -> Conn]
  /\ left \in [Client -> 0 .. Reads]
  /\ silent \in [Client -> 0 .. Timeout]
  /\ age \in [Client -> Nat]
  /\ closer \in [Closer -> Closes]

\* Every slot is free, or held by one request or by the thread that is being
\* started: no refusal, failed start or timeout loses one or frees one twice.
SlotsConserved ==
  slots + Cardinality({c \in Client : conn[c] \in {"working", "releasing"}})
        + (IF loop = "spawn" THEN 1 ELSE 0) = MaxConcurrent

\* When a close() has returned the server thread is gone, the socket is closed,
\* and no connection is in between; slow clients may still be served.
ClosedIsFinal ==
  closed =>
    /\ loop = "dead" /\ ~listening
    /\ \A c \in Client : conn[c] \notin {"backlog", "accepted"}

\* The listening socket is closed only after the loop that accepts from it has
\* ended, whichever calls of close() overlap or are repeated.
SocketOutlivesLoop == ~listening => loop \in {"leaving", "dead"}

\* Every close() comes to an end, returning or raising, however slow clients are
\* and however many other calls there are.
CloseEnds == \A p \in Closer : closer[p] = "lock" ~> closer[p] \in {"returned", "raised"}

\* A request gives its slot back, though its client may fall silent.
SlotsComeBack ==
  \A c \in Client : conn[c] = "working" ~> conn[c] = "ended"

\* README.md:138, "enforces a five-second per-request timeout".
RequestsWithinTimeout == \A c \in Working : age[c] <= Timeout
=============================================================================
