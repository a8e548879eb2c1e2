SPECIFICATION Spec
CONSTANTS
  Files = {2}
  Root = 3
  d1 = d1
  d2 = d2
  a = a
  b = b
  x = x
  Dirs = {d1}
  Names = {b, x}
  Base <- MCPair
  SameEpisode <- MCSame
  NoPath = NoPath
  NoDir = NoDir
  Nothing = Nothing
  Others = {old}
  Requests <- MCPlan
  Events = {"crash", "replace"}
PROPERTIES OnlyAgreedLosses
CHECK_DEADLOCK FALSE
