SPECIFICATION FairSpec
CONSTANTS
  p1 = p1
  t1 = t1
  t2 = t2
  u1 = u1
  root = root
  Pools = {p1}
  Image = p1
  Tasks = {t1, t2}
  Root = root
  Upstreams = {u1}
  Deps <- OneUpstream
  UpDeps <- NoChain
  UpstreamReruns = FALSE
  Cancels = TRUE
  LastPage = 2
  RestFailures = TRUE
  OtherErrors = TRUE
  Tries = 2
  DecisionPoll = 1
  GroupPoll = 2
  Timeout = 4
INVARIANTS
  PassedIsTrue
  PassedIsWhole
PROPERTIES
  Terminates
