SPECIFICATION CopySpec
CONSTANTS
  base = base
  gpu = gpu
  builder = builder
  linux = linux
  win25 = win25
  hyphened = hyphened
  win24 = win24
  win2022 = win2022
  win2025 = win2025
  unmatched = unmatched
  hg = hg
  git = git
  rev1 = rev1
  rev2 = rev2
  rev3 = rev3
  none = none
  Answers <- AllAnswers
  Rank <- RankOf
  Images = {win25, hyphened, win24, win2022, win2025}
  Normal <- NormalOf
  Unmatched = unmatched
  Requests <- AllRequests
  Tests = {base, gpu, builder, linux}
  Pool <- PoolOf
  Repository <- RepositoryOf
  Decisions = 2
  Replicable <- Copied
  Revision <- Revisions
  NoRevision = none
  MaxMoves = 1
CHECK_DEADLOCK FALSE
INVARIANTS
  TestedIffItCan
  OneRevision
