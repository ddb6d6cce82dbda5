------------------------- MODULE MetricsServerProofs -------------------------
(***************************************************************************)
(* The safety invariants of MetricsServer, for any number of clients,      *)
(* slots, reads and threads that call close().                             *)
(***************************************************************************)
EXTENDS MetricsServer, FiniteSetTheorems, TLAPS

-----------------------------------------------------------------------------
(***************************************************************************)
(* The inductive invariant.                                                *)
(***************************************************************************)
\* Only the connection that the loop is handing over is accepted and unserved.
HandedOver ==
  /\ loop \in {"accept", "spawn"} => accepted \in Client /\ conn[accepted] = "accepted"
  /\ \A c \in Client :
       conn[c] = "accepted" => loop \in {"accept", "spawn"} /\ accepted = c

\* What a call of close() may assume at each of its steps.
CloseStepsDone ==
  /\ stopped => loop \in {"leaving", "dead"}
  /\ \A p \in Closer :
       /\ closer[p] = "close" => loop \in {"leaving", "dead"}
       /\ closer[p] = "join" => ~listening

\* A closed socket has no backlog.
NoBacklog == ~listening => \A c \in Client : conn[c] # "backlog"

\* What ClosedIsFinal says of the server.
ClosedServer == closed => loop = "dead" /\ ~listening

Types ==
  /\ loop \in Loop
  /\ accepted \in Client \cup {NoClient}
  /\ stopping \in BOOLEAN /\ stopped \in BOOLEAN
  /\ listening \in BOOLEAN /\ closed \in BOOLEAN
  /\ conn \in [Client -> Conn]
  /\ closer \in [Closer -> Closes]

Clocks ==
  /\ left \in [Client -> 0 .. Reads]
  /\ silent \in [Client -> 0 .. Timeout]
  /\ age \in [Client -> Nat]

Held == {c \in Client : conn[c] \in {"working", "releasing"}}

SlotsCounted ==
  /\ slots \in Nat
  /\ slots + Cardinality(Held) + (IF loop = "spawn" THEN 1 ELSE 0) = MaxConcurrent

Control == HandedOver /\ CloseStepsDone /\ NoBacklog /\ ClosedServer /\ SocketOutlivesLoop

IInv == Types /\ Clocks /\ Control /\ SlotsCounted

-----------------------------------------------------------------------------
\* No client is connected and nobody closes in the initial state.
LEMMA Initially == Init => IInv
<1> SUFFICES ASSUME Init PROVE IInv
  OBVIOUS
<1>1. Types
  BY DEF Init, Types, Loop, Conn, Closes
<1>2. Clocks
  BY LimitsAssumption DEF Init, Clocks
<1>3. Control
  BY DEF Init, Control, HandedOver, CloseStepsDone, NoBacklog, ClosedServer,
         SocketOutlivesLoop
<1>4. SlotsCounted
  <2>1. Held = {}
    BY DEF Init, Held
  <2> QED
    BY <2>1, LimitsAssumption, FS_EmptySet DEF Init, SlotsCounted
<1> QED
  BY <1>1, <1>2, <1>3, <1>4 DEF IInv

\* Locations and answers of every step.
LEMMA TypesStep == IInv /\ [Next]_vars => Types'
<1> SUFFICES ASSUME IInv, [Next]_vars PROVE Types'
  OBVIOUS
<1> USE DEF IInv, Types, vars, server, request, Loop, Conn, Closes
<1>1. CASE Serve
  <2>1. CASE ServeForever \/ AcquireSlot \/ LeaveLoop \/ ThreadEnds
    BY <2>1 DEF ServeForever, AcquireSlot, LeaveLoop, ThreadEnds
  <2>2. ASSUME NEW c \in Client, Accept(c) PROVE Types'
    BY <2>2 DEF Accept
  <2>3. CASE RejectBusy \/ Spawn \/ SpawnFails
    BY <2>3 DEF RejectBusy, Spawn, SpawnFails, Refuse
  <2> QED
    BY <1>1, <2>1, <2>2, <2>3 DEF Serve
<1>2. ASSUME NEW c \in Client, Connect(c) \/ Receive(c) \/ Handle(c) PROVE Types'
  BY <1>2 DEF Connect, Receive, Handle, EndRequest, ReleaseSlot
<1>3. CASE Tick \/ UNCHANGED vars
  BY <1>3 DEF Tick
<1>4. ASSUME NEW p \in Closer, Call(p) \/ Close(p) PROVE Types'
  BY <1>4 DEF Call, Close, Step, TakeLock, Shutdown, ShutdownReturns, ServerClose,
              Joined, JoinTimesOut
<1> QED
  BY <1>1, <1>2, <1>3, <1>4 DEF Next

\* Time does not pass the timeout, and no more is read than the request.
LEMMA ClocksStep == IInv /\ [Next]_vars => Clocks'
<1> SUFFICES ASSUME IInv, [Next]_vars PROVE Clocks'
  OBVIOUS
<1> USE LimitsAssumption DEF IInv, Clocks, vars, server, request
<1>1. CASE Serve
  BY <1>1 DEF Serve, ServeForever, Accept, RejectBusy, AcquireSlot, Spawn, SpawnFails, Refuse,
              LeaveLoop, ThreadEnds
<1>2. ASSUME NEW c \in Client, Connect(c) \/ Handle(c) PROVE Clocks'
  BY <1>2 DEF Connect, Handle, EndRequest, ReleaseSlot
<1>3. ASSUME NEW c \in Client, Receive(c) PROVE Clocks'
  BY <1>3 DEF Receive
<1>4. CASE Tick
  <2>1. silent' \in [Client -> 0 .. Timeout]
    <3>1. \A c \in Client : silent[c] + (IF c \in Working THEN 1 ELSE 0) \in 0 .. Timeout
      BY <1>4 DEF Tick
    <3> QED
      BY <1>4, <3>1 DEF Tick
  <2>2. age' \in [Client -> Nat]
    BY <1>4 DEF Tick
  <2> QED
    BY <1>4, <2>1, <2>2 DEF Tick
<1>5. ASSUME NEW p \in Closer, Call(p) \/ Close(p) PROVE Clocks'
  BY <1>5 DEF Call, Close, Step, TakeLock, Shutdown, ShutdownReturns, ServerClose,
              Joined, JoinTimesOut
<1>6. CASE UNCHANGED vars
  BY <1>6
<1> QED
  BY <1>1, <1>2, <1>3, <1>4, <1>5, <1>6 DEF Next

\* The order of close() against the loop: it waits for the loop before it closes
\* the socket, and for the thread before it says that the server is closed.
LEMMA ControlStep == IInv /\ [Next]_vars => Control'
<1> SUFFICES ASSUME IInv, [Next]_vars PROVE Control'
  OBVIOUS
<1> USE DEF IInv, Types, Control, HandedOver, CloseStepsDone, NoBacklog, ClosedServer,
            SocketOutlivesLoop, vars, server, request, Loop, Conn, Closes
<1>1. CASE Serve
  <2>1. CASE ServeForever \/ AcquireSlot \/ LeaveLoop \/ ThreadEnds
    BY <2>1 DEF ServeForever, AcquireSlot, LeaveLoop, ThreadEnds
  <2>2. ASSUME NEW c \in Client, Accept(c) PROVE Control'
    BY <2>2 DEF Accept
  <2>3. CASE RejectBusy \/ Spawn \/ SpawnFails
    BY <2>3 DEF RejectBusy, Spawn, SpawnFails, Refuse
  <2> QED
    BY <1>1, <2>1, <2>2, <2>3 DEF Serve
<1>2. ASSUME NEW c \in Client, Connect(c) \/ Receive(c) \/ Handle(c) PROVE Control'
  BY <1>2 DEF Connect, Receive, Handle, EndRequest, ReleaseSlot
<1>3. CASE Tick \/ UNCHANGED vars
  BY <1>3 DEF Tick
<1>4. ASSUME NEW p \in Closer, Call(p) \/ Close(p) PROVE Control'
  <2>1. CASE ServerClose(p)
    BY <1>4, <2>1 DEF ServerClose, Step
  <2>2. CASE Call(p) \/ TakeLock(p) \/ Shutdown(p) \/ ShutdownReturns(p)
    BY <1>4, <2>2 DEF Call, Step, TakeLock, Shutdown, ShutdownReturns
  <2>3. CASE Joined(p) \/ JoinTimesOut(p)
    BY <1>4, <2>3 DEF Step, Joined, JoinTimesOut
  <2> QED
    BY <1>4, <2>1, <2>2, <2>3 DEF Close
<1> QED
  BY <1>1, <1>2, <1>3, <1>4 DEF Next

-----------------------------------------------------------------------------
(***************************************************************************)
(* Slots.                                                                  *)
(***************************************************************************)
\* The connections that hold a slot are finitely many.
LEMMA HeldFinite == IsFiniteSet(Held) /\ Cardinality(Held) \in Nat
BY ClientAssumption, FS_Subset, FS_CardinalityType DEF Held

\* A step that lets no connection into Held or out of it, and neither takes nor
\* frees a slot, counts right.
LEMMA SlotsKept ==
  ASSUME SlotsCounted, Held' = Held, slots' = slots,
         loop' = "spawn" <=> loop = "spawn"
  PROVE  SlotsCounted'
BY DEF SlotsCounted

\* Every step gives what it takes: from the free slots to the thread that is
\* being started, from there to the request, and back.
LEMMA SlotsStep == IInv /\ [Next]_vars => SlotsCounted'
<1> SUFFICES ASSUME IInv, [Next]_vars PROVE SlotsCounted'
  OBVIOUS
<1> USE DEF IInv, Types, vars, server, request, Conn
<1>1. CASE Serve
  <2>1. CASE ServeForever \/ LeaveLoop \/ ThreadEnds
    <3>1. Held' = Held /\ slots' = slots /\ loop # "spawn" /\ loop' # "spawn"
      BY <2>1 DEF ServeForever, LeaveLoop, ThreadEnds, Held
    <3> QED
      BY <3>1, SlotsKept
  <2>2. ASSUME NEW c \in Client, Accept(c) PROVE SlotsCounted'
    <3>1. Held' = Held /\ slots' = slots /\ loop # "spawn" /\ loop' # "spawn"
      BY <2>2 DEF Accept, Held
    <3> QED
      BY <3>1, SlotsKept
  <2>3. CASE RejectBusy
    <3>1. Held' = Held
      BY <2>3 DEF RejectBusy, Refuse, Held, Control, HandedOver
    <3>2. slots' = slots /\ loop # "spawn" /\ loop' # "spawn"
      BY <2>3 DEF RejectBusy, Refuse
    <3> QED
      BY <3>1, <3>2, SlotsKept
  <2>4. CASE AcquireSlot
    <3>1. Held' = Held
      BY <2>4 DEF AcquireSlot, Held
    <3> QED
      BY <2>4, <3>1, HeldFinite, LimitsAssumption DEF AcquireSlot, SlotsCounted
  <2>5. CASE Spawn
    <3>1. accepted \in Client /\ accepted \notin Held /\ Held' = Held \cup {accepted}
      BY <2>5 DEF Spawn, Held, Control, HandedOver
    <3>2. Cardinality(Held') = Cardinality(Held) + 1
      BY <3>1, HeldFinite, FS_AddElement
    <3> QED
      BY <2>5, <3>2, HeldFinite DEF Spawn, SlotsCounted
  <2>6. CASE SpawnFails
    <3>1. Held' = Held
      BY <2>6 DEF SpawnFails, Refuse, Held, Control, HandedOver
    <3> QED
      BY <2>6, <3>1, HeldFinite DEF SpawnFails, Refuse, SlotsCounted
  <2> QED
    BY <1>1, <2>1, <2>2, <2>3, <2>4, <2>5, <2>6 DEF Serve
<1>2. ASSUME NEW c \in Client, Connect(c) \/ Receive(c) \/ EndRequest(c)
      PROVE  SlotsCounted'
  <2>1. Held' = Held
    BY <1>2 DEF Connect, Receive, EndRequest, Held
  <2>2. slots' = slots /\ loop' = loop
    BY <1>2 DEF Connect, Receive, EndRequest
  <2> QED
    BY <2>1, <2>2, SlotsKept
<1>3. ASSUME NEW c \in Client, ReleaseSlot(c) PROVE SlotsCounted'
  <2>1. c \in Held /\ Held' = Held \ {c}
    BY <1>3 DEF ReleaseSlot, Held
  <2>2. Cardinality(Held') = Cardinality(Held) - 1
    BY <2>1, HeldFinite, FS_RemoveElement
  <2> QED
    BY <1>3, <2>2, HeldFinite DEF ReleaseSlot, SlotsCounted
<1>4. CASE Tick \/ UNCHANGED vars
  BY <1>4, SlotsKept DEF Tick, Held
<1>5. ASSUME NEW p \in Closer, Call(p) \/ Close(p) PROVE SlotsCounted'
  <2>1. Held' = Held
    BY <1>5 DEF Call, Close, Step, TakeLock, Shutdown, ShutdownReturns, ServerClose,
                Joined, JoinTimesOut, Held
  <2>2. slots' = slots /\ loop' = loop
    BY <1>5 DEF Call, Close, Step, TakeLock, Shutdown, ShutdownReturns, ServerClose,
                Joined, JoinTimesOut
  <2> QED
    BY <2>1, <2>2, SlotsKept
<1> QED
  BY <1>1, <1>2, <1>3, <1>4, <1>5 DEF Next, Handle

-----------------------------------------------------------------------------
(***************************************************************************)
(* The theorems.                                                           *)
(***************************************************************************)
\* The inductive invariant holds in every reachable state.
THEOREM ServerInvariance == Spec => []IInv
<1>1. IInv /\ [Next]_vars => IInv'
  BY TypesStep, ClocksStep, ControlStep, SlotsStep DEF IInv
<1> QED
  BY Initially, <1>1, PTL DEF Spec

\* Types: in particular the free slots never exceed the configured number.
THEOREM ServerTyped == Spec => []TypeOK
<1>1. IInv => TypeOK
  <2> SUFFICES ASSUME IInv PROVE TypeOK
    OBVIOUS
  <2>1. slots \in 0 .. MaxConcurrent
    BY HeldFinite, LimitsAssumption DEF IInv, SlotsCounted
  <2>2. {stopping, stopped, listening, closed} \subseteq BOOLEAN
    BY DEF IInv, Types
  <2> QED
    BY <2>1, <2>2 DEF IInv, Types, Clocks, TypeOK
<1> QED
  BY ServerInvariance, <1>1, PTL

\* process_request and process_request_thread lose no slot and free none twice.
THEOREM SlotsAlwaysConserved == Spec => []SlotsConserved
<1>1. IInv => SlotsConserved
  BY DEF IInv, SlotsCounted, SlotsConserved, Held
<1> QED
  BY ServerInvariance, <1>1, PTL

\* close() closes the socket only after the loop that accepts from it ended.
THEOREM SocketAlwaysOutlivesLoop == Spec => []SocketOutlivesLoop
<1>1. IInv => SocketOutlivesLoop
  BY DEF IInv, Control
<1> QED
  BY ServerInvariance, <1>1, PTL

\* Once a close() returned, the thread is gone and no connection is in between.
THEOREM ClosedAlwaysFinal == Spec => []ClosedIsFinal
<1>1. IInv => ClosedIsFinal
  BY DEF IInv, Control, HandedOver, NoBacklog, ClosedServer, ClosedIsFinal
<1> QED
  BY ServerInvariance, <1>1, PTL
=============================================================================
