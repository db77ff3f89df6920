SPECIFICATION FairSpec
CONSTANTS
  n1 = n1
  n2 = n2
  Names = {n1, n2}
  MaxBoots = 3
INVARIANTS
  RegisteredExists
  InstallRecovers
PROPERTIES
  LiveCachesUntouched
  WorkerStarts
CHECK_DEADLOCK FALSE
