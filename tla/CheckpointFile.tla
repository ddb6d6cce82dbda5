--------------------------- MODULE CheckpointFile ---------------------------
(***************************************************************************)
(* The checkpoint file of samsarix_analytics.checkpoint: processes resume  *)
(* from it and save to it (examples/checkpointed_worker.py), while any of  *)
(* them may die at any step, any file operation may fail, and the machine  *)
(* may lose power.                                                         *)
(*                                                                         *)
(* A registry is the number of jobs it has counted; the encoding of it is  *)
(* complete or not.  The directory has an entry for the target and one for *)
(* every temporary file; an entry leads to an inode, and a process that    *)
(* has opened the target goes on reading its inode when the entry changes. *)
(* The file system is external: what it keeps over a loss of power is what *)
(* POSIX lets the code rely on.                                            *)
(***************************************************************************)
EXTENDS Integers, FiniteSets

CONSTANTS
  Worker,    \* processes, each of which may run again and again
  MaxInode,  \* bound: saves that get as far as a temporary file
  MaxJobs    \* bound: jobs counted by a registry

ASSUME BoundsAssumption == MaxInode \in Nat /\ MaxJobs \in Nat

Inode == 1 .. MaxInode
None  == 0

VARIABLES
  jobs,     \* inode: the count it was created to hold
  written,  \* inodes with the complete payload
  synced,   \* inodes that fsync has put on the disk
  used,     \* number of inodes created so far
  temps,    \* inodes with a temporary entry
  target,   \* the inode of the target entry
  onDisk,   \* what the target entry may be after a loss of power
  pc,       \* where a process is
  count,    \* its registry
  open,     \* the inode it reads or writes
  unsaved,  \* observed: jobs it did that no save of its own has stored
  stored,   \* observed: jobs in saves that reached the target
  overlap,  \* observed: whether two processes ever ran at once
  abandoned,  \* observed: inodes of saves that had no chance to clean up
  powerLost   \* observed: whether the machine has lost power

files    == <<jobs, written, synced, used, temps, target, onDisk>>
process  == <<pc, count, open, unsaved>>
observed == <<stored, overlap, abandoned, powerLost>>
vars     == <<files, process, observed>>

Writing  == {"write", "sync", "replace"}
Saving   == Writing \cup {"unlink"}
Location == {"idle", "read", "ready", "refused"} \cup Saving

Savers == {w \in Worker : pc[w] \in Saving}

Init ==
  /\ jobs = [i \in Inode |-> 0]
  /\ written = {} /\ synced = {} /\ temps = {}
  /\ used = 0
  /\ target = None
  /\ onDisk = {None}
  /\ pc = [w \in Worker |-> "idle"]
  /\ count = [w \in Worker |-> 0]
  /\ open = [w \in Worker |-> None]
  /\ unsaved = [w \in Worker |-> 0]
  /\ stored = 0
  /\ overlap = FALSE
  /\ abandoned = {}
  /\ powerLost = FALSE

Go(w, location) == pc' = [pc EXCEPT ![w] = location]

-----------------------------------------------------------------------------
(***************************************************************************)
(* A process starts with a new registry, or with the one it loads.         *)
(***************************************************************************)
\* Variant: the process does not look for a checkpoint.
StartAfresh(w) ==
  /\ pc[w] = "idle"
  /\ Go(w, "ready")
  /\ overlap' = (overlap \/ \E v \in Worker \ {w} : pc[v] # "idle")
  /\ UNCHANGED <<files, count, open, unsaved, stored, abandoned, powerLost>>

Start(w) ==
  /\ pc[w] = "idle"
  /\ Go(w, IF target = None THEN "ready" ELSE "read")
  /\ open' = [open EXCEPT ![w] = target]
  /\ overlap' = (overlap \/ \E v \in Worker \ {w} : pc[v] # "idle")
  /\ UNCHANGED <<files, count, unsaved, stored, abandoned, powerLost>>

\* Variant: a restored count is added to the registry twice.
ReadTwice(w) ==
  /\ pc[w] = "read"
  /\ IF open[w] \in written
     THEN Go(w, "ready") /\ count' = [count EXCEPT ![w] = 2 * jobs[open[w]]]
     ELSE Go(w, "refused") /\ UNCHANGED count
  /\ UNCHANGED <<files, open, unsaved, observed>>

\* load_checkpoint reads the inode it opened; decode_checkpoint refuses what is
\* not a complete payload.
Read(w) ==
  /\ pc[w] = "read"
  /\ IF open[w] \in written
     THEN Go(w, "ready") /\ count' = [count EXCEPT ![w] = jobs[open[w]]]
     ELSE Go(w, "refused") /\ UNCHANGED count
  /\ UNCHANGED <<files, open, unsaved, observed>>

Work(w) ==
  /\ pc[w] = "ready"
  /\ count[w] < MaxJobs
  /\ count' = [count EXCEPT ![w] = @ + 1]
  /\ unsaved' = [unsaved EXCEPT ![w] = @ + 1]
  /\ UNCHANGED <<files, pc, open, observed>>

\* What a process held is gone with it.
Leave(w) ==
  /\ Go(w, "idle")
  /\ count' = [count EXCEPT ![w] = 0]
  /\ open' = [open EXCEPT ![w] = None]
  /\ unsaved' = [unsaved EXCEPT ![w] = 0]

Exit(w) ==
  /\ pc[w] \in {"ready", "refused"}
  /\ Leave(w)
  /\ UNCHANGED <<files, observed>>

-----------------------------------------------------------------------------
(***************************************************************************)
(* save_checkpoint: the payload is encoded, a private temporary file made, *)
(* filled, flushed, and renamed onto the target; a failure removes it.     *)
(***************************************************************************)
\* Variant: the temporary file has a fixed name.
SharedTemporary == 1

\* mkstemp: a new file, with a name that is not in use.
NewTemporary == used + 1

MakeTemporary(w) ==
  /\ pc[w] = "ready"
  /\ used < MaxInode
  /\ used' = used + 1
  /\ jobs' = [jobs EXCEPT ![NewTemporary] = count[w]]
  /\ temps' = temps \cup {NewTemporary}
  /\ open' = [open EXCEPT ![w] = NewTemporary]
  /\ Go(w, "write")
  /\ UNCHANGED <<written, synced, target, onDisk, count, unsaved, observed>>

Write(w) ==
  /\ pc[w] = "write"
  /\ written' = written \cup {open[w]}
  /\ Go(w, "sync")
  /\ UNCHANGED <<jobs, synced, used, temps, target, onDisk, count, open, unsaved, observed>>

\* Variant: flush() without fsync().
SyncForgotten(w) ==
  /\ pc[w] = "sync"
  /\ Go(w, "replace")
  /\ UNCHANGED <<files, count, open, unsaved, observed>>

Sync(w) ==
  /\ pc[w] = "sync"
  /\ synced' = synced \cup {open[w]}
  /\ Go(w, "replace")
  /\ UNCHANGED <<jobs, written, used, temps, target, onDisk, count, open, unsaved, observed>>

\* The directory is not flushed: after a loss of power the entry may still be
\* an earlier one.
MoveToTarget(w) ==
  /\ pc[w] = "replace"
  /\ target' = open[w]
  /\ temps' = temps \ {open[w]}
  /\ onDisk' = onDisk \cup {open[w]}
  /\ stored' = stored + unsaved[w]
  /\ unsaved' = [unsaved EXCEPT ![w] = 0]
  /\ UNCHANGED <<jobs, written, synced, used, count, open, overlap, abandoned, powerLost>>

Replace(w) == MoveToTarget(w) /\ Go(w, "ready")

\* The call is interrupted (KeyboardInterrupt) once the file has moved.
ReplaceInterrupted(w) == MoveToTarget(w) /\ Go(w, "unlink")

\* The disk is full, the rename is refused, the call is interrupted.
Fail(w) ==
  /\ pc[w] \in Writing
  /\ Go(w, "unlink")
  /\ UNCHANGED <<files, count, open, unsaved, observed>>

\* The call is interrupted between mkstemp and the try statement.
InterruptBeforeTry(w) ==
  /\ pc[w] = "write"
  /\ Go(w, "ready")
  /\ abandoned' = abandoned \cup {open[w]}
  /\ UNCHANGED <<files, count, open, unsaved, stored, overlap, powerLost>>

\* Variant: the temporary file is left.
UnlinkForgotten(w) ==
  /\ pc[w] = "unlink"
  /\ Go(w, "ready")
  /\ UNCHANGED <<files, count, open, unsaved, observed>>

\* unlink(missing_ok=True); the exception goes on to the caller, who keeps the
\* registry.
Unlink(w) ==
  /\ pc[w] = "unlink"
  /\ temps' = temps \ {open[w]}
  /\ Go(w, "ready")
  /\ UNCHANGED <<jobs, written, synced, used, target, onDisk, count, open, unsaved, observed>>

\* unlink() raises, or a second interrupt stops it: what has not moved stays.
UnlinkFails(w) ==
  /\ pc[w] = "unlink"
  /\ Go(w, "ready")
  /\ abandoned' = abandoned \cup {open[w]}
  /\ UNCHANGED <<files, count, open, unsaved, stored, overlap, powerLost>>

-----------------------------------------------------------------------------
(***************************************************************************)
(* What the system does.                                                   *)
(***************************************************************************)
Crash(w) ==
  /\ pc[w] # "idle"
  /\ Leave(w)
  /\ abandoned' = abandoned \cup {open[v] : v \in {w} \cap Savers}
  /\ UNCHANGED <<files, stored, overlap, powerLost>>

DirectoryReachesDisk ==
  /\ onDisk # {target}
  /\ onDisk' = {target}
  /\ UNCHANGED <<jobs, written, synced, used, temps, target, process, observed>>

\* Every process dies; what was not synced is lost, at worst, and the entries of
\* temporary files may be gone, or back.
PowerLoss ==
  /\ \E entry \in onDisk : target' = entry /\ onDisk' = {entry}
  /\ temps' \in SUBSET ((1 .. used) \ {target'})
  /\ abandoned' = temps'
  /\ written' = written \cap synced
  /\ pc' = [w \in Worker |-> "idle"]
  /\ count' = [w \in Worker |-> 0]
  /\ open' = [w \in Worker |-> None]
  /\ unsaved' = [w \in Worker |-> 0]
  /\ powerLost' = TRUE
  /\ UNCHANGED <<jobs, synced, used, stored, overlap>>

-----------------------------------------------------------------------------
Run(w) ==
  \/ Start(w) \/ Read(w) \/ Work(w) \/ Exit(w)
  \/ MakeTemporary(w) \/ Write(w) \/ Sync(w) \/ Replace(w)
  \/ ReplaceInterrupted(w) \/ Fail(w) \/ InterruptBeforeTry(w)
  \/ Unlink(w) \/ UnlinkFails(w) \/ Crash(w)

Next == (\E w \in Worker : Run(w)) \/ DirectoryReachesDisk \/ PowerLoss

Spec == Init /\ [][Next]_vars

-----------------------------------------------------------------------------
TypeOK ==
  /\ jobs \in [Inode -> 0 .. MaxJobs]
  /\ written \subseteq Inode /\ synced \subseteq Inode /\ temps \subseteq Inode
  /\ used \in 0 .. MaxInode
  /\ target \in Inode \cup {None}
  /\ onDisk \subseteq Inode \cup {None}
  /\ pc \in [Worker -> Location]
  /\ count \in [Worker -> 0 .. MaxJobs]
  /\ open \in [Worker -> Inode \cup {None}]
  /\ unsaved \in [Worker -> 0 .. MaxJobs]
  /\ stored \in Nat
  /\ overlap \in BOOLEAN
  /\ abandoned \subseteq Inode
  /\ powerLost \in BOOLEAN

\* No process ever finds an incomplete checkpoint: not while another saves, not
\* after a crash at any step, not after a loss of power (README.md:190,
\* "flush it, atomically replace the target").
CheckpointsComplete == \A w \in Worker : pc[w] # "refused"

\* A process that reads the checkpoint reads one that was complete when it was
\* put in place, though the entry may have moved on since; a file that is being
\* written is no one else's.
FilesArePrivate ==
  \A v, w \in Worker :
    v # w /\ pc[w] \in Writing /\ pc[v] \in Saving \cup {"read"} => open[v] # open[w]

\* Every temporary file is being written, or belongs to a save that was stopped
\* before its try statement, whose unlink() failed, or whose process died: not
\* one more is left, by a failure or an interrupt at any other step.
TemporariesCleaned == temps \subseteq abandoned \cup {open[w] : w \in Savers}

\* As long as processes run one after the other, the checkpoint counts every
\* job of a save that reached it once, through failed saves, saves that were
\* interrupted after the rename, retries and crashes.
StoredJobsCountedOnce ==
  ~overlap /\ ~powerLost =>
    stored = IF target = None THEN 0 ELSE jobs[target]
=============================================================================
