------------------------ MODULE CheckpointFileProofs ------------------------
(***************************************************************************)
(* The invariants of CheckpointFile, for any number of processes, saves    *)
(* and jobs.                                                               *)
(***************************************************************************)
EXTENDS CheckpointFile, TLAPS

-----------------------------------------------------------------------------
(***************************************************************************)
(* The inductive invariant.                                                *)
(***************************************************************************)
\* A process has nothing to lose before it works.
NothingBeforeWork ==
  \A w \in Worker :
    /\ unsaved[w] <= count[w]
    /\ pc[w] \in {"idle", "read"} => count[w] = 0

\* What is at the target, or may be there after a loss of power, is complete
\* and flushed.
TargetComplete == onDisk \cup {target} \subseteq (written \cap synced) \cup {None}

\* What each step of a save, and the reader, may assume of the inode.
StepsDone ==
  \A w \in Worker :
    /\ pc[w] \in {"read", "sync", "replace"} => open[w] \in written
    /\ pc[w] = "replace" => open[w] \in synced
    /\ pc[w] \in Saving => open[w] # None

\* A new temporary file is no inode that anybody knows.
OlderThanNext ==
  /\ \A i \in onDisk \cup temps \cup {target} : i <= used
  /\ \A w \in Worker : open[w] <= used

\* A file that is being written is not the checkpoint yet.
SavedApart == \A w \in Worker : pc[w] \in Writing => open[w] # target

\* Processes that never overlapped do not overlap.
OneAtATime ==
  ~overlap => \A v, w \in Worker : v # w => pc[v] = "idle" \/ pc[w] = "idle"

\* What one process after the other knows of the checkpoint: it reads the
\* target, its registry is the acknowledged jobs and its own, and its temporary
\* file holds that registry.
CountsAccounted ==
  ~overlap /\ ~powerLost =>
    \A w \in Worker :
      /\ pc[w] = "read" => open[w] = target
      /\ pc[w] \in {"ready"} \cup Saving => count[w] = stored + unsaved[w]
      /\ pc[w] \in Writing => jobs[open[w]] = count[w]

FileInv ==
  /\ NothingBeforeWork
  /\ TargetComplete
  /\ StepsDone
  /\ OlderThanNext
  /\ SavedApart
  /\ FilesArePrivate

JobsInv == OneAtATime /\ CountsAccounted /\ StoredJobsCountedOnce

IInv ==
  /\ TypeOK
  /\ FileInv
  /\ CheckpointsComplete
  /\ TemporariesCleaned
  /\ JobsInv

-----------------------------------------------------------------------------
(***************************************************************************)
(* What the steps preserve: one lemma per part of the invariant.           *)
(***************************************************************************)
\* The initial state has an empty directory and no process.
LEMMA Initially == Init => IInv
<1> SUFFICES ASSUME Init PROVE IInv
  OBVIOUS
<1> USE BoundsAssumption DEF Init, Inode, None, Location, Writing, Saving
<1>1. TypeOK
  <2>1. jobs \in [Inode -> 0 .. MaxJobs] /\ used \in 0 .. MaxInode
    OBVIOUS
  <2>2. written \subseteq Inode /\ synced \subseteq Inode /\ temps \subseteq Inode
    OBVIOUS
  <2>3. target \in Inode \cup {None} /\ onDisk \subseteq Inode \cup {None}
    OBVIOUS
  <2>4. pc \in [Worker -> Location] /\ open \in [Worker -> Inode \cup {None}]
    OBVIOUS
  <2>5. count \in [Worker -> 0 .. MaxJobs] /\ unsaved \in [Worker -> 0 .. MaxJobs]
    OBVIOUS
  <2>6. stored \in Nat /\ overlap \in BOOLEAN /\ abandoned \subseteq Inode /\ powerLost \in BOOLEAN
    OBVIOUS
  <2> QED
    BY <2>1, <2>2, <2>3, <2>4, <2>5, <2>6 DEF TypeOK
<1>2. FileInv
  BY DEF FileInv, NothingBeforeWork, TargetComplete, StepsDone, OlderThanNext,
         SavedApart, FilesArePrivate
<1>3. CheckpointsComplete
  BY DEF CheckpointsComplete
<1>4. TemporariesCleaned
  BY DEF TemporariesCleaned
<1>5. JobsInv
  BY DEF JobsInv, OneAtATime, CountsAccounted, StoredJobsCountedOnce
<1> QED
  BY <1>1, <1>2, <1>3, <1>4, <1>5 DEF IInv

\* Every step keeps the types; Replace and Read use what earlier steps did.
LEMMA TypeStep == TypeOK /\ FileInv /\ [Next]_vars => TypeOK'
<1> SUFFICES ASSUME TypeOK, FileInv, [Next]_vars
            PROVE  TypeOK'
  OBVIOUS
<1> USE BoundsAssumption DEF vars, files, process, observed, TypeOK, Inode, None, Location, Writing, Saving, Savers,
             FileInv, NothingBeforeWork, TargetComplete, StepsDone
<1>1. ASSUME NEW w \in Worker, Run(w)
      PROVE  TypeOK'
  <2>1. CASE Start(w)
    BY <2>1 DEF Start, Go
  <2>2. CASE Read(w)
    BY <2>2 DEF Read, Go
  <2>3. CASE Work(w)
    BY <2>3 DEF Work, Go
  <2>4. CASE Exit(w)
    BY <2>4 DEF Exit, Go, Leave
  <2>5. CASE MakeTemporary(w)
    BY <2>5 DEF MakeTemporary, Go, NewTemporary
  <2>6. CASE Write(w)
    BY <2>6 DEF Write, Go
  <2>7. CASE Sync(w)
    BY <2>7 DEF Sync, Go
  <2>8. CASE Replace(w) \/ ReplaceInterrupted(w)
    <3>1. open[w] \in Inode
      BY <2>8 DEF Replace, ReplaceInterrupted, MoveToTarget
    <3>2. unsaved[w] \in Nat
      BY <2>8
    <3>3. unsaved' \in [Worker -> 0 .. MaxJobs]
      <4>1. unsaved' = [unsaved EXCEPT ![w] = 0]
        BY <2>8, Zenon DEF Replace, ReplaceInterrupted, MoveToTarget
      <4>2. unsaved \in [Worker -> 0 .. MaxJobs] /\ 0 \in 0 .. MaxJobs
        OBVIOUS
      <4> QED
        BY <4>1, <4>2, Zenon
    <3>6. pc' \in [Worker -> Location]
      <4>1. PICK next \in {"ready", "unlink"} : pc' = [pc EXCEPT ![w] = next]
        BY <2>8 DEF Replace, ReplaceInterrupted, Go
      <4> QED
        BY <4>1
    <3>4. stored' \in Nat
      BY <2>8, <3>2 DEF Replace, ReplaceInterrupted, MoveToTarget
    <3>5. target' \in Inode \cup {None} /\ onDisk' \subseteq Inode \cup {None}
      BY <2>8, <3>1 DEF Replace, ReplaceInterrupted, MoveToTarget
    <3> QED
      BY <2>8, <3>3, <3>4, <3>5, <3>6 DEF Replace, ReplaceInterrupted, MoveToTarget
  <2>9. CASE Fail(w)
    BY <2>9 DEF Fail, Go
  <2>10. CASE Unlink(w)
    BY <2>10 DEF Unlink, Go
  <2>11. CASE Crash(w)
    <3>1. abandoned' \subseteq Inode
      BY <2>11 DEF Crash
    <3>2. pc' \in [Worker -> Location] /\ open' \in [Worker -> Inode \cup {None}]
      BY <2>11 DEF Crash, Go, Leave
    <3>3. /\ count' \in [Worker -> 0 .. MaxJobs]
          /\ unsaved' \in [Worker -> 0 .. MaxJobs]
      BY <2>11 DEF Crash, Go, Leave
    <3> QED
      BY <2>11, <3>1, <3>2, <3>3 DEF Crash
  <2>12. CASE InterruptBeforeTry(w)
    BY <2>12 DEF InterruptBeforeTry, Go
  <2>13. CASE UnlinkFails(w)
    BY <2>13 DEF UnlinkFails, Go
  <2> QED
    BY <1>1, <2>1, <2>2, <2>3, <2>4, <2>5, <2>6, <2>7, <2>8, <2>9, <2>10, <2>11, <2>12, <2>13
       DEF Run
<1>2. CASE DirectoryReachesDisk
  BY <1>2 DEF DirectoryReachesDisk
<1>3. CASE PowerLoss
  BY <1>3 DEF PowerLoss
<1>4. CASE UNCHANGED vars
  BY <1>4
<1> QED
  BY <1>1, <1>2, <1>3, <1>4 DEF Next

\* Only Work and Read make a count grow, and only Read from nothing.
LEMMA WorkStep == TypeOK /\ NothingBeforeWork /\ [Next]_vars => NothingBeforeWork'
<1> SUFFICES ASSUME TypeOK, NothingBeforeWork, [Next]_vars
            PROVE  NothingBeforeWork'
  OBVIOUS
<1> USE BoundsAssumption DEF vars, files, process, observed, TypeOK, Inode, None, Location, Writing, Saving,
             NothingBeforeWork
<1>1. ASSUME NEW w \in Worker, Run(w)
      PROVE  NothingBeforeWork'
  <2>1. CASE Start(w)
    BY <2>1 DEF Start, Go
  <2>2. CASE Read(w)
    <3>1. CASE open[w] \in written
      BY <2>2, <3>1 DEF Read, Go
    <3>2. CASE open[w] \notin written
      BY <2>2, <3>2 DEF Read, Go
    <3> QED
      BY <3>1, <3>2
  <2>3. CASE Work(w)
    BY <2>3 DEF Work, Go
  <2>4. CASE Exit(w)
    BY <2>4 DEF Exit, Go, Leave
  <2>5. CASE MakeTemporary(w)
    BY <2>5 DEF MakeTemporary, Go, NewTemporary
  <2>6. CASE Write(w)
    BY <2>6 DEF Write, Go
  <2>7. CASE Sync(w)
    BY <2>7 DEF Sync, Go
  <2>8. CASE Replace(w) \/ ReplaceInterrupted(w)
    BY <2>8 DEF Replace, ReplaceInterrupted, MoveToTarget, Go
  <2>9. CASE Fail(w)
    BY <2>9 DEF Fail, Go
  <2>10. CASE Unlink(w)
    BY <2>10 DEF Unlink, Go
  <2>11. CASE Crash(w)
    BY <2>11 DEF Crash, Go, Leave
  <2>12. CASE InterruptBeforeTry(w)
    BY <2>12 DEF InterruptBeforeTry, Go
  <2>13. CASE UnlinkFails(w)
    BY <2>13 DEF UnlinkFails, Go
  <2> QED
    BY <1>1, <2>1, <2>2, <2>3, <2>4, <2>5, <2>6, <2>7, <2>8, <2>9, <2>10, <2>11, <2>12, <2>13
       DEF Run
<1>2. CASE DirectoryReachesDisk
  BY <1>2 DEF DirectoryReachesDisk
<1>3. CASE PowerLoss
  BY <1>3 DEF PowerLoss
<1>4. CASE UNCHANGED vars
  BY <1>4
<1> QED
  BY <1>1, <1>2, <1>3, <1>4 DEF Next

\* Only Replace moves the target, to an inode that is written and flushed.
LEMMA TargetStep ==
  TypeOK /\ StepsDone /\ TargetComplete /\ [Next]_vars => TargetComplete'
<1> SUFFICES ASSUME TypeOK, StepsDone, TargetComplete, [Next]_vars
            PROVE  TargetComplete'
  OBVIOUS
<1> USE BoundsAssumption DEF vars, files, process, observed, TypeOK, Inode, None, Location, Writing, Saving,
             TargetComplete, StepsDone
<1>1. ASSUME NEW w \in Worker, Run(w)
      PROVE  TargetComplete'
  <2>1. CASE Start(w)
    BY <2>1 DEF Start, Go
  <2>2. CASE Read(w)
    BY <2>2 DEF Read, Go
  <2>3. CASE Work(w)
    BY <2>3 DEF Work, Go
  <2>4. CASE Exit(w)
    BY <2>4 DEF Exit, Go, Leave
  <2>5. CASE MakeTemporary(w)
    BY <2>5 DEF MakeTemporary, Go, NewTemporary
  <2>6. CASE Write(w)
    BY <2>6 DEF Write, Go
  <2>7. CASE Sync(w)
    BY <2>7 DEF Sync, Go
  <2>8. CASE Replace(w) \/ ReplaceInterrupted(w)
    <3>1. open[w] \in written /\ open[w] \in synced
      BY <2>8 DEF Replace, ReplaceInterrupted, MoveToTarget
    <3>2. target' = open[w] /\ onDisk' = onDisk \cup {open[w]}
      BY <2>8 DEF Replace, ReplaceInterrupted, MoveToTarget
    <3> QED
      BY <2>8, <3>1, <3>2 DEF Replace, ReplaceInterrupted, MoveToTarget
  <2>9. CASE Fail(w)
    BY <2>9 DEF Fail, Go
  <2>10. CASE Unlink(w)
    BY <2>10 DEF Unlink, Go
  <2>11. CASE Crash(w)
    BY <2>11 DEF Crash, Go, Leave
  <2>12. CASE InterruptBeforeTry(w)
    BY <2>12 DEF InterruptBeforeTry, Go
  <2>13. CASE UnlinkFails(w)
    BY <2>13 DEF UnlinkFails, Go
  <2> QED
    BY <1>1, <2>1, <2>2, <2>3, <2>4, <2>5, <2>6, <2>7, <2>8, <2>9, <2>10, <2>11, <2>12, <2>13
       DEF Run
<1>2. CASE DirectoryReachesDisk
  BY <1>2 DEF DirectoryReachesDisk
<1>3. CASE PowerLoss
  BY <1>3 DEF PowerLoss
<1>4. CASE UNCHANGED vars
  BY <1>4
<1> QED
  BY <1>1, <1>2, <1>3, <1>4 DEF Next

\* A save passes its steps in order, and a reader opens the target.
LEMMA DoneStep ==
  TypeOK /\ StepsDone /\ TargetComplete /\ [Next]_vars => StepsDone'
<1> SUFFICES ASSUME TypeOK, StepsDone, TargetComplete, [Next]_vars
            PROVE  StepsDone'
  OBVIOUS
<1> USE BoundsAssumption DEF vars, files, process, observed, TypeOK, Inode, None, Location, Writing, Saving,
             TargetComplete, StepsDone
<1>1. ASSUME NEW w \in Worker, Run(w)
      PROVE  StepsDone'
  <2>1. CASE Start(w)
    BY <2>1 DEF Start, Go
  <2>2. CASE Read(w)
    BY <2>2 DEF Read, Go
  <2>3. CASE Work(w)
    BY <2>3 DEF Work, Go
  <2>4. CASE Exit(w)
    BY <2>4 DEF Exit, Go, Leave
  <2>5. CASE MakeTemporary(w)
    BY <2>5 DEF MakeTemporary, Go, NewTemporary
  <2>6. CASE Write(w)
    BY <2>6 DEF Write, Go
  <2>7. CASE Sync(w)
    BY <2>7 DEF Sync, Go
  <2>8. CASE Replace(w) \/ ReplaceInterrupted(w)
    BY <2>8 DEF Replace, ReplaceInterrupted, MoveToTarget, Go
  <2>9. CASE Fail(w)
    BY <2>9 DEF Fail, Go
  <2>10. CASE Unlink(w)
    BY <2>10 DEF Unlink, Go
  <2>11. CASE Crash(w)
    BY <2>11 DEF Crash, Go, Leave
  <2>12. CASE InterruptBeforeTry(w)
    BY <2>12 DEF InterruptBeforeTry, Go
  <2>13. CASE UnlinkFails(w)
    BY <2>13 DEF UnlinkFails, Go
  <2> QED
    BY <1>1, <2>1, <2>2, <2>3, <2>4, <2>5, <2>6, <2>7, <2>8, <2>9, <2>10, <2>11, <2>12, <2>13
       DEF Run
<1>2. CASE DirectoryReachesDisk
  BY <1>2 DEF DirectoryReachesDisk
<1>3. CASE PowerLoss
  BY <1>3 DEF PowerLoss
<1>4. CASE UNCHANGED vars
  BY <1>4
<1> QED
  BY <1>1, <1>2, <1>3, <1>4 DEF Next

\* Only MakeTemporary makes an inode.
LEMMA OlderStep == TypeOK /\ OlderThanNext /\ [Next]_vars => OlderThanNext'
<1> SUFFICES ASSUME TypeOK, OlderThanNext, [Next]_vars
            PROVE  OlderThanNext'
  OBVIOUS
<1> USE BoundsAssumption DEF vars, files, process, observed, TypeOK, Inode, None, Location, Writing, Saving,
             OlderThanNext
<1>1. ASSUME NEW w \in Worker, Run(w)
      PROVE  OlderThanNext'
  <2>1. CASE Start(w)
    BY <2>1 DEF Start, Go
  <2>2. CASE Read(w)
    BY <2>2 DEF Read, Go
  <2>3. CASE Work(w)
    BY <2>3 DEF Work, Go
  <2>4. CASE Exit(w)
    BY <2>4 DEF Exit, Go, Leave
  <2>5. CASE MakeTemporary(w)
    <3>1. used' = used + 1 /\ used \in Nat
      BY <2>5 DEF MakeTemporary
    <3>2. \A i \in onDisk' \cup temps' \cup {target'} : i <= used'
      BY <2>5, <3>1 DEF MakeTemporary, NewTemporary
    <3>3. \A v \in Worker : open'[v] <= used'
      <4> SUFFICES ASSUME NEW v \in Worker PROVE open'[v] <= used'
        OBVIOUS
      <4>1. open'[v] = IF v = w THEN used + 1 ELSE open[v]
        BY <2>5 DEF MakeTemporary, NewTemporary
      <4>2. open[v] \in Int /\ open[v] <= used
        OBVIOUS
      <4> QED
        BY <3>1, <4>1, <4>2
    <3> QED
      BY <3>2, <3>3
  <2>6. CASE Write(w)
    BY <2>6 DEF Write, Go
  <2>7. CASE Sync(w)
    BY <2>7 DEF Sync, Go
  <2>8. CASE Replace(w) \/ ReplaceInterrupted(w)
    <3>1. used' = used /\ open' = open
      BY <2>8 DEF Replace, ReplaceInterrupted, MoveToTarget
    <3>2. onDisk' \cup temps' \cup {target'}
            \subseteq onDisk \cup temps \cup {target} \cup {open[w]}
      BY <2>8 DEF Replace, ReplaceInterrupted, MoveToTarget
    <3> QED
      BY <3>1, <3>2
  <2>9. CASE Fail(w)
    BY <2>9 DEF Fail, Go
  <2>10. CASE Unlink(w)
    BY <2>10 DEF Unlink, Go
  <2>11. CASE Crash(w)
    BY <2>11 DEF Crash, Go, Leave
  <2>12. CASE InterruptBeforeTry(w)
    BY <2>12 DEF InterruptBeforeTry, Go
  <2>13. CASE UnlinkFails(w)
    BY <2>13 DEF UnlinkFails, Go
  <2> QED
    BY <1>1, <2>1, <2>2, <2>3, <2>4, <2>5, <2>6, <2>7, <2>8, <2>9, <2>10, <2>11, <2>12, <2>13
       DEF Run
<1>2. CASE DirectoryReachesDisk
  BY <1>2 DEF DirectoryReachesDisk
<1>3. CASE PowerLoss
  BY <1>3 DEF PowerLoss
<1>4. CASE UNCHANGED vars
  BY <1>4
<1> QED
  BY <1>1, <1>2, <1>3, <1>4 DEF Next

\* A new temporary file is nobody's; Replace gives up its own.
LEMMA ApartStep ==
  TypeOK /\ OlderThanNext /\ SavedApart /\ FilesArePrivate /\ [Next]_vars
    => SavedApart' /\ FilesArePrivate'
<1> SUFFICES ASSUME TypeOK, OlderThanNext, SavedApart, FilesArePrivate, [Next]_vars
            PROVE  SavedApart' /\ FilesArePrivate'
  OBVIOUS
<1> USE BoundsAssumption DEF vars, files, process, observed, TypeOK, Inode, None, Location, Writing, Saving,
             OlderThanNext, SavedApart, FilesArePrivate
<1>1. ASSUME NEW w \in Worker, Run(w)
      PROVE  SavedApart' /\ FilesArePrivate'
  <2>1. CASE Start(w)
    BY <2>1 DEF Start, Go
  <2>2. CASE Read(w)
    BY <2>2 DEF Read, Go
  <2>3. CASE Work(w)
    BY <2>3 DEF Work, Go
  <2>4. CASE Exit(w)
    BY <2>4 DEF Exit, Go, Leave
  <2>5. CASE MakeTemporary(w)
    BY <2>5 DEF MakeTemporary, Go, NewTemporary
  <2>6. CASE Write(w)
    BY <2>6 DEF Write, Go
  <2>7. CASE Sync(w)
    BY <2>7 DEF Sync, Go
  <2>8. CASE Replace(w) \/ ReplaceInterrupted(w)
    <3>1. CASE Replace(w)
      BY <3>1 DEF Replace, MoveToTarget, Go
    <3>2. CASE ReplaceInterrupted(w)
      BY <3>2 DEF ReplaceInterrupted, MoveToTarget, Go
    <3> QED
      BY <2>8, <3>1, <3>2
  <2>9. CASE Fail(w)
    BY <2>9 DEF Fail, Go
  <2>10. CASE Unlink(w)
    BY <2>10 DEF Unlink, Go
  <2>11. CASE Crash(w)
    BY <2>11 DEF Crash, Go, Leave
  <2>12. CASE InterruptBeforeTry(w)
    BY <2>12 DEF InterruptBeforeTry, Go
  <2>13. CASE UnlinkFails(w)
    BY <2>13 DEF UnlinkFails, Go
  <2> QED
    BY <1>1, <2>1, <2>2, <2>3, <2>4, <2>5, <2>6, <2>7, <2>8, <2>9, <2>10, <2>11, <2>12, <2>13
       DEF Run
<1>2. CASE DirectoryReachesDisk
  BY <1>2 DEF DirectoryReachesDisk
<1>3. CASE PowerLoss
  BY <1>3 DEF PowerLoss
<1>4. CASE UNCHANGED vars
  BY <1>4
<1> QED
  BY <1>1, <1>2, <1>3, <1>4 DEF Next

\* A reader finds its inode complete.
LEMMA CompleteStep ==
  TypeOK /\ StepsDone /\ CheckpointsComplete /\ [Next]_vars => CheckpointsComplete'
<1> SUFFICES ASSUME TypeOK, StepsDone, CheckpointsComplete, [Next]_vars
            PROVE  CheckpointsComplete'
  OBVIOUS
<1> USE BoundsAssumption DEF vars, files, process, observed, TypeOK, Inode, None, Location, Writing, Saving,
             StepsDone, CheckpointsComplete
<1>1. ASSUME NEW w \in Worker, Run(w)
      PROVE  CheckpointsComplete'
  <2>1. CASE Start(w)
    BY <2>1 DEF Start, Go
  <2>2. CASE Read(w)
    BY <2>2 DEF Read, Go
  <2>3. CASE Work(w)
    BY <2>3 DEF Work, Go
  <2>4. CASE Exit(w)
    BY <2>4 DEF Exit, Go, Leave
  <2>5. CASE MakeTemporary(w)
    BY <2>5 DEF MakeTemporary, Go, NewTemporary
  <2>6. CASE Write(w)
    BY <2>6 DEF Write, Go
  <2>7. CASE Sync(w)
    BY <2>7 DEF Sync, Go
  <2>8. CASE Replace(w) \/ ReplaceInterrupted(w)
    <3>1. CASE Replace(w)
      BY <3>1 DEF Replace, MoveToTarget, Go
    <3>2. CASE ReplaceInterrupted(w)
      BY <3>2 DEF ReplaceInterrupted, MoveToTarget, Go
    <3> QED
      BY <2>8, <3>1, <3>2
  <2>9. CASE Fail(w)
    BY <2>9 DEF Fail, Go
  <2>10. CASE Unlink(w)
    BY <2>10 DEF Unlink, Go
  <2>11. CASE Crash(w)
    BY <2>11 DEF Crash, Go, Leave
  <2>12. CASE InterruptBeforeTry(w)
    BY <2>12 DEF InterruptBeforeTry, Go
  <2>13. CASE UnlinkFails(w)
    BY <2>13 DEF UnlinkFails, Go
  <2> QED
    BY <1>1, <2>1, <2>2, <2>3, <2>4, <2>5, <2>6, <2>7, <2>8, <2>9, <2>10, <2>11, <2>12, <2>13
       DEF Run
<1>2. CASE DirectoryReachesDisk
  BY <1>2 DEF DirectoryReachesDisk
<1>3. CASE PowerLoss
  BY <1>3 DEF PowerLoss
<1>4. CASE UNCHANGED vars
  BY <1>4
<1> QED
  BY <1>1, <1>2, <1>3, <1>4 DEF Next

-----------------------------------------------------------------------------
(***************************************************************************)
(* The accounts: temporary files, and jobs when processes take turns.      *)
(***************************************************************************)
\* An entry comes and goes with the save that owns it.
LEMMA TemporariesStep ==
  TypeOK /\ OlderThanNext /\ FilesArePrivate /\ TemporariesCleaned /\ [Next]_vars
    => TemporariesCleaned'
<1> SUFFICES ASSUME TypeOK, OlderThanNext, FilesArePrivate, TemporariesCleaned, [Next]_vars
            PROVE  TemporariesCleaned'
  OBVIOUS
<1> USE BoundsAssumption DEF vars, files, process, observed, TypeOK, Inode, None, Location, Writing, Saving,
             OlderThanNext, FilesArePrivate, TemporariesCleaned, Savers
<1>1. ASSUME NEW w \in Worker, Run(w)
      PROVE  TemporariesCleaned'
  <2>1. CASE Start(w)
    <3>1. Savers' = Savers /\ \A v \in Savers : open'[v] = open[v]
      BY <2>1 DEF Start, Go
    <3>2. temps' = temps /\ abandoned' = abandoned
      BY <2>1 DEF Start
    <3> HIDE DEF Savers, TypeOK
    <3> QED
      BY <3>1, <3>2
  <2>2. CASE Read(w)
    <3>1. Savers' = Savers /\ \A v \in Savers : open'[v] = open[v]
      <4>1. open' = open /\ \A v \in Worker : pc'[v] \in Saving <=> pc[v] \in Saving
        BY <2>2 DEF Read, Go
      <4> QED
        BY <4>1
    <3>2. temps' = temps /\ abandoned' = abandoned
      BY <2>2 DEF Read
    <3> HIDE DEF Savers, TypeOK
    <3> QED
      BY <3>1, <3>2
  <2>3. CASE Work(w)
    <3>1. Savers' = Savers /\ \A v \in Savers : open'[v] = open[v]
      <4>1. open' = open /\ \A v \in Worker : pc'[v] \in Saving <=> pc[v] \in Saving
        BY <2>3 DEF Work, Go
      <4> QED
        BY <4>1
    <3>2. temps' = temps /\ abandoned' = abandoned
      BY <2>3 DEF Work
    <3> HIDE DEF Savers, TypeOK
    <3> QED
      BY <3>1, <3>2
  <2>4. CASE Exit(w)
    <3>1. Savers' = Savers /\ \A v \in Savers : open'[v] = open[v]
      BY <2>4 DEF Exit, Go, Leave
    <3>2. temps' = temps /\ abandoned' = abandoned
      BY <2>4 DEF Exit
    <3> HIDE DEF Savers, TypeOK
    <3> QED
      BY <3>1, <3>2
  <2>5. CASE MakeTemporary(w)
    <3>1. temps' = temps \cup {used + 1} /\ abandoned' = abandoned
      BY <2>5 DEF MakeTemporary, NewTemporary
    <3>2. open'[w] = used + 1 /\ pc'[w] = "write" /\ w \notin Savers
      BY <2>5 DEF MakeTemporary, NewTemporary, Go
    <3>3. \A v \in Worker \ {w} : pc'[v] = pc[v] /\ open'[v] = open[v]
      BY <2>5 DEF MakeTemporary, Go
    <3> HIDE DEF TypeOK, OlderThanNext, FilesArePrivate
    <3> QED
      BY <3>1, <3>2, <3>3
  <2>6. CASE Write(w)
    BY <2>6 DEF Write, Go
  <2>7. CASE Sync(w)
    BY <2>7 DEF Sync, Go
  <2>8. CASE Replace(w) \/ ReplaceInterrupted(w)
    <3>0. temps' = temps \ {open[w]} /\ abandoned' = abandoned
      BY <2>8 DEF Replace, ReplaceInterrupted, MoveToTarget
    <3>1. ASSUME NEW i \in temps \ abandoned, i # open[w]
          PROVE  \E v \in Worker : pc'[v] \in Saving /\ open'[v] = i
      <4>1. PICK v \in Worker : pc[v] \in Saving /\ open[v] = i
        BY <3>1
      <4>2. pc'[v] = pc[v] /\ open' = open
        BY <2>8, <3>1, <4>1 DEF Replace, ReplaceInterrupted, MoveToTarget, Go
      <4> QED
        BY <4>1, <4>2
    <3> HIDE DEF TypeOK, OlderThanNext, FilesArePrivate
    <3> QED
      BY <3>0, <3>1
  <2>9. CASE Fail(w)
    BY <2>9 DEF Fail, Go
  <2>10. CASE Unlink(w)
    <3> SUFFICES ASSUME NEW i \in temps \ abandoned, i # open[w]
                 PROVE  \E v \in Worker : pc'[v] \in Saving /\ open'[v] = i
      <4>1. temps' = temps \ {open[w]} /\ abandoned' = abandoned
        BY <2>10 DEF Unlink
      <4> HIDE DEF TypeOK, FilesArePrivate, OlderThanNext
      <4> QED
        BY <4>1
    <3>1. PICK v \in Worker : pc[v] \in Saving /\ open[v] = i
      OBVIOUS
    <3>2. pc'[v] = pc[v] /\ open' = open
      BY <2>10, <3>1 DEF Unlink, Go
    <3> QED
      BY <3>1, <3>2
  <2>11. CASE Crash(w)
    <3>1. temps' = temps /\ abandoned' = abandoned \cup {open[v] : v \in {w} \cap Savers}
      BY <2>11 DEF Crash
    <3>2. \A v \in Worker \ {w} : pc'[v] = pc[v] /\ open'[v] = open[v]
      BY <2>11 DEF Crash, Go, Leave
    <3> HIDE DEF TypeOK
    <3> QED
      BY <3>1, <3>2
  <2>12. CASE InterruptBeforeTry(w)
    <3>1. temps' = temps /\ abandoned' = abandoned \cup {open[w]} /\ open' = open
      BY <2>12 DEF InterruptBeforeTry
    <3>2. \A v \in Worker \ {w} : pc'[v] = pc[v]
      BY <2>12 DEF InterruptBeforeTry, Go
    <3> HIDE DEF TypeOK
    <3> QED
      BY <3>1, <3>2
  <2>13. CASE UnlinkFails(w)
    <3>1. temps' = temps /\ abandoned' = abandoned \cup {open[w]} /\ open' = open
      BY <2>13 DEF UnlinkFails
    <3>2. \A v \in Worker \ {w} : pc'[v] = pc[v]
      BY <2>13 DEF UnlinkFails, Go
    <3> HIDE DEF TypeOK
    <3> QED
      BY <3>1, <3>2
  <2> QED
    BY <1>1, <2>1, <2>2, <2>3, <2>4, <2>5, <2>6, <2>7, <2>8, <2>9, <2>10, <2>11, <2>12, <2>13
       DEF Run
<1>2. CASE DirectoryReachesDisk
  BY <1>2 DEF DirectoryReachesDisk
<1>3. CASE PowerLoss
  BY <1>3 DEF PowerLoss
<1>4. CASE UNCHANGED vars
  BY <1>4
<1> QED
  BY <1>1, <1>2, <1>3, <1>4 DEF Next

\* Two processes meet only in a Start, which records it.
LEMMA AloneStep == TypeOK /\ OneAtATime /\ [Next]_vars => OneAtATime'
<1> SUFFICES ASSUME TypeOK, OneAtATime, [Next]_vars
            PROVE  OneAtATime'
  OBVIOUS
<1> USE BoundsAssumption DEF vars, files, process, observed, TypeOK, Inode, None, Location, Writing, Saving,
             OneAtATime
<1>1. ASSUME NEW w \in Worker, Run(w)
      PROVE  OneAtATime'
  <2>1. CASE Start(w)
    BY <2>1 DEF Start, Go
  <2>2. CASE Read(w)
    BY <2>2 DEF Read, Go
  <2>3. CASE Work(w)
    BY <2>3 DEF Work, Go
  <2>4. CASE Exit(w)
    BY <2>4 DEF Exit, Go, Leave
  <2>5. CASE MakeTemporary(w)
    BY <2>5 DEF MakeTemporary, Go, NewTemporary
  <2>6. CASE Write(w)
    BY <2>6 DEF Write, Go
  <2>7. CASE Sync(w)
    BY <2>7 DEF Sync, Go
  <2>8. CASE Replace(w) \/ ReplaceInterrupted(w)
    BY <2>8 DEF Replace, ReplaceInterrupted, MoveToTarget, Go
  <2>9. CASE Fail(w)
    BY <2>9 DEF Fail, Go
  <2>10. CASE Unlink(w)
    BY <2>10 DEF Unlink, Go
  <2>11. CASE Crash(w)
    BY <2>11 DEF Crash, Go, Leave
  <2>12. CASE InterruptBeforeTry(w)
    BY <2>12 DEF InterruptBeforeTry, Go
  <2>13. CASE UnlinkFails(w)
    BY <2>13 DEF UnlinkFails, Go
  <2> QED
    BY <1>1, <2>1, <2>2, <2>3, <2>4, <2>5, <2>6, <2>7, <2>8, <2>9, <2>10, <2>11, <2>12, <2>13
       DEF Run
<1>2. CASE DirectoryReachesDisk
  BY <1>2 DEF DirectoryReachesDisk
<1>3. CASE PowerLoss
  BY <1>3 DEF PowerLoss
<1>4. CASE UNCHANGED vars
  BY <1>4
<1> QED
  BY <1>1, <1>2, <1>3, <1>4 DEF Next

\* A single process counts on from the acknowledged jobs.
LEMMA AccountStep == TypeOK /\ FileInv /\ JobsInv /\ [Next]_vars => CountsAccounted'
<1> SUFFICES ASSUME TypeOK, FileInv, JobsInv, [Next]_vars
            PROVE  CountsAccounted'
  OBVIOUS
<1> USE BoundsAssumption DEF vars, files, process, observed, TypeOK, Inode, None, Location, Writing, Saving,
             FileInv, NothingBeforeWork, StepsDone, OlderThanNext, SavedApart,
             JobsInv, OneAtATime, CountsAccounted, StoredJobsCountedOnce
<1>1. ASSUME NEW w \in Worker, Run(w)
      PROVE  CountsAccounted'
  <2>1. CASE Start(w)
    BY <2>1 DEF Start, Go
  <2>2. CASE Read(w)
    <3>1. CASE open[w] \in written
      BY <2>2, <3>1 DEF Read, Go
    <3>2. CASE open[w] \notin written
      BY <2>2, <3>2 DEF Read, Go
    <3> QED
      BY <3>1, <3>2
  <2>3. CASE Work(w)
    BY <2>3 DEF Work, Go
  <2>4. CASE Exit(w)
    BY <2>4 DEF Exit, Go, Leave
  <2>5. CASE MakeTemporary(w)
    BY <2>5 DEF MakeTemporary, Go, NewTemporary
  <2>6. CASE Write(w)
    BY <2>6 DEF Write, Go
  <2>7. CASE Sync(w)
    BY <2>7 DEF Sync, Go
  <2>8. CASE Replace(w) \/ ReplaceInterrupted(w)
    <3> SUFFICES ASSUME ~overlap, ~powerLost, NEW v \in Worker
                 PROVE  /\ pc'[v] = "read" => open'[v] = target'
                        /\ pc'[v] \in {"ready"} \cup Saving
                             => count'[v] = stored' + unsaved'[v]
                        /\ pc'[v] \in Writing
                             => jobs'[open'[v]] = count'[v]
      BY <2>8 DEF Replace, ReplaceInterrupted, MoveToTarget
    <3>1. CASE v # w
      <4>1. pc[v] = "idle"
        BY <2>8, <3>1 DEF Replace, ReplaceInterrupted, MoveToTarget
      <4> QED
        BY <2>8, <3>1, <4>1 DEF Replace, ReplaceInterrupted, MoveToTarget, Go
    <3>2. CASE v = w
      <4>1. pc'[w] \in {"ready", "unlink"} /\ count' = count
        BY <2>8 DEF Replace, ReplaceInterrupted, MoveToTarget, Go
      <4>2. stored' = stored + unsaved[w] /\ unsaved'[w] = 0
        BY <2>8 DEF Replace, ReplaceInterrupted, MoveToTarget
      <4>3. count[w] = stored + unsaved[w] /\ count[w] \in Nat
        BY <2>8 DEF Replace, ReplaceInterrupted, MoveToTarget
      <4> HIDE DEF TypeOK, JobsInv, FileInv, CountsAccounted
      <4> QED
        BY <3>2, <4>1, <4>2, <4>3
    <3> QED
      BY <3>1, <3>2
  <2>9. CASE Fail(w)
    BY <2>9 DEF Fail, Go
  <2>10. CASE Unlink(w)
    BY <2>10 DEF Unlink, Go
  <2>11. CASE Crash(w)
    BY <2>11 DEF Crash, Go, Leave
  <2>12. CASE InterruptBeforeTry(w)
    BY <2>12 DEF InterruptBeforeTry, Go
  <2>13. CASE UnlinkFails(w)
    BY <2>13 DEF UnlinkFails, Go
  <2> QED
    BY <1>1, <2>1, <2>2, <2>3, <2>4, <2>5, <2>6, <2>7, <2>8, <2>9, <2>10, <2>11, <2>12, <2>13
       DEF Run
<1>2. CASE DirectoryReachesDisk
  BY <1>2 DEF DirectoryReachesDisk
<1>3. CASE PowerLoss
  BY <1>3 DEF PowerLoss
<1>4. CASE UNCHANGED vars
  BY <1>4
<1> QED
  BY <1>1, <1>2, <1>3, <1>4 DEF Next

\* Replace acknowledges the jobs of the registry it puts in place.
LEMMA CountedStep == TypeOK /\ FileInv /\ JobsInv /\ [Next]_vars => StoredJobsCountedOnce'
<1> SUFFICES ASSUME TypeOK, FileInv, JobsInv, [Next]_vars
            PROVE  StoredJobsCountedOnce'
  OBVIOUS
<1> USE BoundsAssumption DEF vars, files, process, observed, TypeOK, Inode, None, Location, Writing, Saving,
             FileInv, NothingBeforeWork, StepsDone, OlderThanNext, SavedApart,
             JobsInv, OneAtATime, CountsAccounted, StoredJobsCountedOnce
<1>1. ASSUME NEW w \in Worker, Run(w)
      PROVE  StoredJobsCountedOnce'
  <2>1. CASE Start(w)
    BY <2>1 DEF Start, Go
  <2>2. CASE Read(w)
    BY <2>2 DEF Read, Go
  <2>3. CASE Work(w)
    BY <2>3 DEF Work, Go
  <2>4. CASE Exit(w)
    BY <2>4 DEF Exit, Go, Leave
  <2>5. CASE MakeTemporary(w)
    BY <2>5 DEF MakeTemporary, Go, NewTemporary
  <2>6. CASE Write(w)
    BY <2>6 DEF Write, Go
  <2>7. CASE Sync(w)
    BY <2>7 DEF Sync, Go
  <2>8. CASE Replace(w) \/ ReplaceInterrupted(w)
    BY <2>8 DEF Replace, ReplaceInterrupted, MoveToTarget, Go
  <2>9. CASE Fail(w)
    BY <2>9 DEF Fail, Go
  <2>10. CASE Unlink(w)
    BY <2>10 DEF Unlink, Go
  <2>11. CASE Crash(w)
    BY <2>11 DEF Crash, Go, Leave
  <2>12. CASE InterruptBeforeTry(w)
    BY <2>12 DEF InterruptBeforeTry, Go
  <2>13. CASE UnlinkFails(w)
    BY <2>13 DEF UnlinkFails, Go
  <2> QED
    BY <1>1, <2>1, <2>2, <2>3, <2>4, <2>5, <2>6, <2>7, <2>8, <2>9, <2>10, <2>11, <2>12, <2>13
       DEF Run
<1>2. CASE DirectoryReachesDisk
  BY <1>2 DEF DirectoryReachesDisk
<1>3. CASE PowerLoss
  BY <1>3 DEF PowerLoss
<1>4. CASE UNCHANGED vars
  BY <1>4
<1> QED
  BY <1>1, <1>2, <1>3, <1>4 DEF Next

-----------------------------------------------------------------------------
(***************************************************************************)
(* The theorems.                                                           *)
(***************************************************************************)
\* IInv is an invariant.
THEOREM FileInvariance == Spec => []IInv
<1>1. IInv /\ [Next]_vars => IInv'
  BY TypeStep, WorkStep, TargetStep, DoneStep, OlderStep, ApartStep, CompleteStep,
     TemporariesStep, AloneStep, AccountStep, CountedStep
     DEF IInv, FileInv, JobsInv
<1> QED
  BY Initially, <1>1, PTL DEF Spec

\* Types, for every instance.
THEOREM FilesTyped == Spec => []TypeOK
BY FileInvariance, PTL DEF IInv

\* load_checkpoint never finds an incomplete file at the target, whatever
\* other processes do, and whatever dies when.
THEOREM CheckpointsAlwaysComplete == Spec => []CheckpointsComplete
BY FileInvariance, PTL DEF IInv

\* A file that save_checkpoint writes is no other saver's and no reader's.
THEOREM FilesAlwaysPrivate == Spec => []FilesArePrivate
<1>1. IInv => FilesArePrivate
  BY DEF IInv, FileInv
<1> QED
  BY FileInvariance, <1>1, PTL

\* Through every failure and interrupt, the temporary files are those being
\* written and those of saves that were stopped before the try statement or in
\* its handler, or whose process died.
THEOREM TemporariesAlwaysCleaned == Spec => []TemporariesCleaned
BY FileInvariance, PTL DEF IInv

\* When processes take turns, the checkpoint counts each job of a successful
\* save once, through failed saves, retries and crashes.
THEOREM JobsAlwaysCountedOnce == Spec => []StoredJobsCountedOnce
<1>1. IInv => StoredJobsCountedOnce
  BY DEF IInv, JobsInv
<1> QED
  BY FileInvariance, <1>1, PTL
=============================================================================
