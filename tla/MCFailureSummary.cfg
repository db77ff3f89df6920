SPECIFICATION SummarySpec
CONSTANTS
  a = a
  b = b
  b2 = b2
  c = c
  d = d
  x = x
  y = y
  z = z
  heading = heading
  gap = gap
  cut = cut
  g1 = g1
  g2 = g2
  Callers = {"hw", "alpha"}
  Worlds <- AllWorlds
  Logs <- AllLogs
  Primary = {a, b, b2, c, d}
  Secondary = {x, y}
  Size <- SizeOf
  Key <- KeyOf
  Heading = heading
  Omitted = gap
  Truncated = cut
  MaxQuoted = 2
  MaxPrimary = 2
  MaxSecondary = 1
  HeadChars = 2
  TailChars = 3
  MaxExcerpt = 8
CHECK_DEADLOCK FALSE
INVARIANTS
  EveryFailureIsListed
  QuotedOrCounted
  FirstAndLastAreQuoted
PROPERTIES
  ListStands
