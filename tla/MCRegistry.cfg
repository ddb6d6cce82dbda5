\* Two threads that register and record, checkpoints and restarts.
SPECIFICATION Spec
CONSTANTS
  t1 = t1
  t2 = t2
  x = x
  y = y
  Thread     <- MCThread
  Label      <- MCLabel
  Call       <- MCCall
  Configured <- MCConfigured
  Policy     <- MCPolicy
  Name       = {1, 2}
  Amount     <- MCAmount
  MaxFinite  = 1
  MaxBytes   = 6
  MaxCount   = 1
SYMMETRY Same
INVARIANTS
  TypeOK
  UpdatesAddUp
  RegistrationsLast
  
\* A crash is the end where no policy accepts the checkpoint.
CHECK_DEADLOCK FALSE
