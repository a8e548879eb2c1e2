SPECIFICATION Spec
CONSTANTS
  Files = {1, 2}
  Root = 3
  d1 = d1
  d2 = d2
  a = a
  b = b
  x = x
  Dirs = {d1}
  Names = {b, x}
  Base <- MCPair
  SameEpisode <- MCSame
  NoPath = NoPath
  NoDir = NoDir
  Nothing = Nothing
  Others = {old}
  Requests <- MCPlanMove
  Events = {"hiccup", "blind", "auto", "unreadable"}
INVARIANTS JournalExact
PROPERTIES ImplementsWorkQueue
CHECK_DEADLOCK FALSE
