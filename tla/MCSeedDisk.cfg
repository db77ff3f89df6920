SPECIFICATION FairSpec
CONSTANTS
  r1 = r1
  r2 = r2
  r3 = r3
  Regions = {r1, r2, r3}
  SeedRegions = {r1, r2}
  MaxPolls = 2
  MaxBoots = 3
INVARIANTS
  KeptIsRead
PROPERTIES
  ImplementsOverlay
  SuspensionEnds
  HydrateEnds
CHECK_DEADLOCK FALSE
