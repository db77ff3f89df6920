SPECIFICATION Spec
CONSTANTS
  main = main
  wip = wip
  none = none
  unnamed = unnamed
  n1 = n1
  n2 = n2
  old = old
  new = new
  Names = {"hw", "hw-ref", "alpha", "ref-alpha", "a11y"}
  NoName = unnamed
  Counterpart <- Stages
  Branches = {wip}
  Checkout = main
  NoBranch = none
  Configs = {old, new}
  Nodes = {n1, n2}
  Texts <- AllTexts
  Worlds <- AllWorlds
  Requests <- AllRequests
  MinHealthy = 1
  MaxEdits = 2
CHECK_DEADLOCK FALSE
INVARIANTS
  AllOrNone
  RecordWasTrue
  DriftIsReal
  DriftIsNotMissed
