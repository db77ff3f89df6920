SPECIFICATION Spec
CONSTANTS
  build = build
  tool = tool
  t1 = t1
  t2 = t2
  t3 = t3
  t4 = t4
  t5 = t5
  b1 = b1
  b2 = b2
  b3 = b3
  b4 = b4
  bc = bc
  old = old
  new = new
  Newest = 4
  Tests = {t1, t2, t3, t4, t5}
  Artifacts = {build, tool}
  Upstreams = {b1, b2, b3, b4, bc, old, new}
  Supplier <- Supplies
  Carries <- Carrying
  Fetches <- Fetching
  Mounts <- Mounting
  Ordered <- Ordering
  RepairGraphs <- Repairs
  DroppedKinds = {t3}
  Curated = {t1, t2, t3}
  Filter = {t1, t2, t3, t4}
  Walkback = 2
  ScanMultiplier = 2
  Margin = 1
  Life = 2
  LastHour = 2
  Worlds <- SomeWorlds
CHECK_DEADLOCK FALSE
INVARIANTS
  FetchesOutliveTheWait
  FirstThatWillDo
PROPERTIES
  NothingDoomed
