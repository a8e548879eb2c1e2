SPECIFICATION Spec
CONSTANTS
  Files = {1, 2}
  Root = 3
  d1 = d1
  d2 = d2
  a = a
  b = b
  x = x
  Dirs = {d1}
  Names = {b, x}
  Base <- MCPair
  SameEpisode <- MCSame
  NoPath = NoPath
  NoDir = NoDir
  Nothing = Nothing
  Others = {old}
  Requests <- MCRework
  Events = {"crash", "auto", "reject"}
INVARIANTS DoneIsTrue ConflictMatchesPlan
PROPERTIES OnlyAgreedLosses NoUnreviewedCollision
CHECK_DEADLOCK FALSE
