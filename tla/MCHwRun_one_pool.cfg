SPECIFICATION FairSpec
CONSTANTS
  p1 = p1
  p2 = p2
  t1 = t1
  t2 = t2
  u1 = u1
  u2 = u2
  root = root
  Pools = {p1}
  Tasks = {t1, t2}
  Root = root
  Upstreams = {u1, u2}
  Deps <- OneUpstream
  UpDeps <- Chain
  UpstreamReruns = TRUE
  Cancels = TRUE
  PageLimit = 3
  RestFailures = TRUE
  ConnectionErrors = FALSE
  Setup = 3
  DecisionPoll = 2
  DiscoveryTimeout = 5
  GroupPoll = 3
  Timeout = 14
  WaitCeiling = 10
  JobLimit = 13
  InActions = TRUE
  StampKnown = TRUE
INVARIANTS
  PassIsSound
  NoFailureIsLost
  WaitEndsInTime
  NeverCancelled
PROPERTIES
  Terminates
