SPECIFICATION MCSpec
CONSTANTS
  Entries <- MCEntries
  SampleNames = {"sample"}
  NamedPaths <- MCPaths
  Folders <- MCFolders
  Root = Root
  NoDir = NoDir
  NoReply = NoReply
  MaxNamed = 2
  MaxAsked = 2
  MaxChanges = 1
  Keys = {ai_base_url, threshold}
  Values = {v1, v2}
  Unset = Unset
  Pages = {page1, page2}
  MaxSaves = 3
  BaseDelay = 2000
  MaxDelay = 300000
  Jitter <- MCJitter
  UnhealthyRetry = 30000
  MaxAttempts = 40
PROPERTIES FeatureKept NamedByPath IntoExisting KeyWithItsForm DelayBounded
CHECK_DEADLOCK FALSE
