SPECIFICATION Spec
CONSTANTS
  Files = {1, 2}
  Root = 3
  d1 = d1
  d2 = d2
  a = a
  b = b
  x = x
  Dirs = {d1, d2}
  Names = {a, b, x}
  Base <- MCBase
  SameEpisode <- MCSame
  NoPath = NoPath
  NoDir = NoDir
  Nothing = Nothing
  Others = {old}
  Requests <- MCPlanMove
  Events = {"replace", "give_way"}
INVARIANTS NoSelfConflict PlanFollowsTarget
PROPERTIES OnlyAgreedLosses
CHECK_DEADLOCK FALSE
