SPECIFICATION Spec
CONSTANTS
  r1 = r1
  r2 = r2
  r3 = r3
  d1 = d1
  n1 = n1
  n2 = n2
  n3 = n3
  n4 = n4
  none = none
  NoBuildOf = NoBuildOf
  Pools = {"ref", "debug"}
  Tasks = {r1, r2, r3, d1}
  PoolOf <- Of
  Platform <- PlatformOf
  Nodes <- NodesOf
  Listings <- AllListings
  Blobs <- PlainBlobs
  NoValue = none
  Series <- AllSeries
  Stats <- AllStats
  Treeherder = {"browsertime", "newbench"}
  Builtin = {"browsertime"}
  NoBuild = NoBuildOf
  Modes = {"perfherder", "counterpart", "none"}
  MinPoints = 10
  Sigmas = 3
CHECK_DEADLOCK FALSE
INVARIANTS
  EverySampleCounts
  WarnedIsSlower
  TickIsEarned
