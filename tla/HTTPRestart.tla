---------------------------- MODULE HTTPRestart ----------------------------
(***************************************************************************)
(* The life of an instrumented service across processes: requests record   *)
(* (HTTPInstrumentation), the endpoint is scraped (Scrape), checkpoints    *)
(* are taken by the same walk over the instruments, by several threads at  *)
(* a time and while requests are in progress, and the process dies at any  *)
(* moment; the next one starts from the checkpoint, as in                  *)
(* examples/checkpointed_worker.py.                                        *)
(*                                                                         *)
(* One scrape runs at a time: scrapes only read, so a second one would see *)
(* what the first might have seen.  Saves overlap: save_checkpoint takes   *)
(* no lock, so what one thread encoded may be installed over what another  *)
(* encoded after it.  That a file is replaced as a whole is                *)
(* CheckpointFile's matter.                                                *)
(***************************************************************************)
EXTENDS Scrape

CONSTANTS
  Saver,        \* threads that save checkpoints
  MaxSaves,     \* bound: saves, over all processes
  MaxWalks,     \* bound: saves at a time,
  ScrapeWeight, \* and as how many of them a scrape counts
  MaxRestarts   \* bound: processes after the first

ASSUME RestartsAssumption == IsFiniteSet(Saver) /\ {MaxSaves, MaxWalks, ScrapeWeight, MaxRestarts} \subseteq Nat

VARIABLES
  unread,    \* instruments that a save has not copied
  payload,   \* what it has copied: series by instrument
  since,     \* observed: the checkpoint that was there when it began, or NoPage
  begun,     \* how many saves have begun
  saved,     \* the checkpoint: the instruments as a save read them, or NoPage
  base,      \* what the running process started from
  restarts   \* processes before this one

saves    == <<unread, payload, since, begun>>
life     == <<saves, saved, base, restarts>>
allVars  == <<scrapeVars, life>>

Empty == [n \in Range(Names) |-> <<>>]

Saving(w) == unread[w] # <<>> \/ payload[w] # NoPage

Walks == Cardinality({w \in Saver : Saving(w)}) + IF todo = <<>> THEN 0 ELSE ScrapeWeight

NoUnread  == [w \in Saver |-> <<>>]
NoPayload == [w \in Saver |-> NoPage]

RestartInit ==
  /\ ScrapeInit
  /\ unread = NoUnread /\ payload = NoPayload /\ since = NoPayload /\ begun = 0
  /\ saved = NoPage
  /\ base = Empty
  /\ restarts = 0

-----------------------------------------------------------------------------
(***************************************************************************)
(* save_checkpoint.                                                        *)
(***************************************************************************)
\* _checkpoint_state copies the list of instruments.
StartSave(w) ==
  /\ ~Saving(w) /\ Walks + 1 <= MaxWalks /\ begun < MaxSaves
  /\ begun' = begun + 1
  /\ unread' = [unread EXCEPT ![w] = Names]
  /\ since' = [since EXCEPT ![w] = saved]
  /\ UNCHANGED <<scrapeVars, payload, saved, base, restarts>>

\* Then each of them, under its lock.
Copy(w) ==
  /\ unread[w] # <<>>
  /\ unread' = [unread EXCEPT ![w] = Tail(@)]
  /\ payload' = [payload EXCEPT ![w] = PageWith(@, Head(unread[w]))]
  /\ UNCHANGED <<scrapeVars, since, begun, saved, base, restarts>>

EndSave(w) ==
  /\ unread' = [unread EXCEPT ![w] = <<>>]
  /\ payload' = [payload EXCEPT ![w] = NoPage]
  /\ since' = [since EXCEPT ![w] = NoPage]
  /\ UNCHANGED <<scrapeVars, begun, base, restarts>>

\* os.replace, whatever other saves have installed since this one began.
Install(w) ==
  /\ Saving(w) /\ unread[w] = <<>>
  /\ saved' = payload[w]
  /\ EndSave(w)

\* The encoding or a file operation before the os.replace raises.
SaveFails(w) ==
  /\ Saving(w)
  /\ EndSave(w)
  /\ UNCHANGED saved

-----------------------------------------------------------------------------
(***************************************************************************)
(* Processes.                                                              *)
(***************************************************************************)
\* The process dies with its requests, and the next one, which will be sent as
\* many again, loads the checkpoint or starts empty without one;
\* HTTPMetrics.create finds the restored instruments.
RestartWith(contents) ==
  /\ restarts < MaxRestarts
  /\ restarts' = restarts + 1
  /\ base' = contents
  /\ active' = contents["active_requests"]
  /\ duration' = contents["request_duration_seconds"]
  /\ requests' = contents["requests_total"]
  /\ phase' = NoPhase /\ method' = NoMethod /\ status' = NoStatus
  /\ recorded' = NotRecorded
  /\ EndScrape
  /\ unread' = NoUnread /\ payload' = NoPayload /\ since' = NoPayload
  /\ UNCHANGED <<begun, saved>>

\* Variant: the checkpoint is not loaded.
RestartAfresh == RestartWith(Empty)

Restart == RestartWith(IF saved = NoPage THEN Empty ELSE saved)

RestartNext ==
  \/ Next /\ UNCHANGED <<scrape, life>>
  \/ StartScrape /\ Walks + ScrapeWeight <= MaxWalks /\ UNCHANGED life
  \/ (Render \/ Deliver \/ Refuse) /\ UNCHANGED life
  \/ \E w \in Saver : StartSave(w) \/ Copy(w) \/ Install(w) \/ SaveFails(w)
  \/ Restart

RestartSpec == RestartInit /\ [][RestartNext]_allVars

-----------------------------------------------------------------------------
\* Types, and the bounds on the series of each instrument and on a page.
RestartTypeOK ==
  /\ TypeOK
  /\ todo \in {<<>>, Names, Tail(Names), Tail(Tail(Names))}
  /\ size \in 0 .. MaxLines
  /\ outgrown \in BOOLEAN
  /\ \A w \in Saver : unread[w] \in {<<>>, Names, Tail(Names), Tail(Tail(Names))}
  /\ saved # NoPage => DOMAIN saved = Range(Names)
  /\ DOMAIN base = Range(Names)
  /\ restarts \in 0 .. MaxRestarts

Value(values, k) == IF k \in DOMAIN values THEN values[k] ELSE 0

\* The gauge of a method is the number of requests of this process that entered
\* and did not leave, on top of what the checkpoint held: a request refused on
\* entry does not leave, one that entered is never refused when it leaves, and
\* no request of an earlier process ever leaves.
ActiveCountsInGauge ==
  \A m \in Method :
    Value(active, m) = Value(base["active_requests"], m) + Cardinality(InGauge(m))

\* A key that is admitted counted every request that reached it since the
\* checkpoint the process started from, and a key that was refused once stays
\* refused: the counter and the histogram either tell the whole truth about a
\* key or nothing.
Complete(name, reached(_)) ==
  LET values == Contents(name) IN
  \A k \in Key :
    IF k \in DOMAIN values
    THEN values[k] = Value(base[name], k) + Cardinality(reached(k))
    ELSE reached(k) # {} => Cardinality(DOMAIN values) = MaxSeries

CompletionsCountedOnce ==
  /\ Complete("requests_total", Counted)
  /\ Complete("request_duration_seconds", Observed)

\* Durations are never ahead of the counts: not in the instruments, not on the
\* page a scrape is about to end with, not in a checkpoint, whichever of several
\* saves installed it, and so not after a restart.  A request is counted before
\* its duration is observed, and a walk reads the durations first.
DurationsNeverAhead ==
  /\ NotAhead(duration, requests)
  /\ Len(todo) = 1 => NotAhead(Page["request_duration_seconds"], Page["requests_total"])
  /\ saved # NoPage => NotAhead(saved["request_duration_seconds"], saved["requests_total"])

\* README.md:136, "Oversized output fails with 503": a registry that is too long
\* however few digits its values have stays so until the process ends, because
\* series never go away; and no scrape that began when it was is answered with a
\* page, whatever the requests do to the values meanwhile.
RefusalLasts ==
  [][/\ TooLongNow /\ restarts' = restarts => TooLongNow'
     /\ outgrown => ~Deliver]_allVars

\* A save installs no less than the checkpoint had when it began, also when that
\* was written by a process that died: completed requests and durations, once
\* saved, can be missing from a checkpoint only if its save overlapped with the
\* one that saved them.
CheckpointsGrow ==
  [][\A w \in Saver : Install(w) /\ since[w] # NoPage =>
       \A n \in {"requests_total", "request_duration_seconds"} :
         \A k \in DOMAIN since[w][n] :
           k \in DOMAIN saved'[n] /\ saved'[n][k] >= since[w][n][k]]_allVars
=============================================================================
