SPECIFICATION Spec
CONSTANTS
  p1 = p1
  p2 = p2
  t1 = t1
  t2 = t2
  u1 = u1
  u2 = u2
  root = root
  Pools = {p1, p2}
  Tasks = {t1}
  Root = root
  Upstreams = {u1}
  Deps <- OneUpstream
  UpDeps <- NoChain
  UpstreamReruns = FALSE
  Cancels = FALSE
  PageLimit = 2
  RestFailures = FALSE
  ConnectionErrors = TRUE
  Setup = 0
  DecisionPoll = 1
  DiscoveryTimeout = 1
  GroupPoll = 2
  Timeout = 2
  WaitCeiling = 4
  JobLimit = 3
  InActions = TRUE
  StampKnown = TRUE
INVARIANTS
  BlockedNeverRuns
  SettledIsNotTimedOut
PROPERTIES
  ImplementsVerdict
