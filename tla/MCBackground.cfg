SPECIFICATION MCSpec
CONSTANTS
  Threads = {t1, t2, t3}
  Keys = {k1, k2}
  Entries = {e1, e2, e3}
  NoKey = NoKey
  NoEntry = NoEntry
  NoOwner = NoOwner
  Sources = {films}
  Timers = {timer1}
  Loop = Loop
  Request = Request
  Handler = Handler
  Nobody = Nobody
  MaxChanges = 1
  MaxArrivals = 2
  MaxTasks = 2
  Activities = {scanner, worker}
  Scanning = scanner
  MaxFiles = 3
  Lists <- MCLists
  Plain = {"plain"}
  ReasoningOnes = {"reasoning"}
  Publisher <- MCPublisher
  End = "end"
  Elsewhere = "elsewhere"
  MaxPages = 2
  MaxDeployments = 2
INVARIANTS MutualExclusion RefsExact QuietIsShown NothingMissed
PROPERTIES ImplementsKeyedMutex Served Processed WatchesFollow EventsLeadToScan ChangesAreRead ListingEnds
CHECK_DEADLOCK FALSE
