\* Two processes resume from, and save to, one checkpoint.
SPECIFICATION Spec
CONSTANTS
  w1 = w1
  w2 = w2
  Worker   <- MCWorker
  MaxInode = 3
  MaxJobs  = 2
SYMMETRY Workers
INVARIANTS
  TypeOK
  CheckpointsComplete
  FilesArePrivate
  TemporariesCleaned
  StoredJobsCountedOnce
