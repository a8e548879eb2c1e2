SPECIFICATION FairSpec
CONSTANTS
  Files = {2}
  Root = 3
  d1 = d1
  d2 = d2
  a = a
  b = b
  x = x
  Dirs = {d1}
  Names = {b, x}
  Base <- MCPair
  SameEpisode <- MCSame
  NoPath = NoPath
  NoDir = NoDir
  Nothing = Nothing
  Others = {old}
  Requests <- MCPlanFolder
  Events = {"auto", "arrival"}
PROPERTIES JobsEnd MovingEnds
CHECK_DEADLOCK FALSE
