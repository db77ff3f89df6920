SPECIFICATION Spec
CONSTANTS
  main = main
  dev = dev
  none = none
  old = old
  new = new
  i1 = i1
  i2 = i2
  Node = "nuc-1"
  Within <- Names
  Branches = {main, dev}
  Main = main
  Revs = {old, new}
  Text <- Texts
  NoDev = none
  MaxMoves = 1
  MaxFaults = 1
  MaxLosses = 1
  MaxVisits = 1
CHECK_DEADLOCK FALSE
INVARIANTS
  OneBootstrap
  ConfiguredAsListed
PROPERTIES
  SecretsGone
  UndisturbedCompletes
  NoImageLoop
