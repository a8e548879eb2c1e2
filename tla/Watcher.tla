------------------------------- MODULE Watcher -------------------------------
(***************************************************************************)
(* internal/watcher and Engine.ProcessAll: when the source folders are     *)
(* scanned.  Run watches the configured sources, scans them at its start   *)
(* and at every tick, and lets file events start a debounced scan in a     *)
(* goroutine of its own; a request may start one too.  Scans take turns,   *)
(* source by source (scanMu).  A scan passes over an entry that was        *)
(* modified a moment ago.                                                  *)
(*                                                                         *)
(* Sources are added and removed by handlers, which then call Resync as    *)
(* Run does.  The folder of a source may be away for a while; the kernel   *)
(* then forgets the watch, and the program does not notice.  A scan        *)
(* abandons a source if something of it cannot be read: the settings, the  *)
(* jobs, the folder, or any of the items that were found there before.     *)
(***************************************************************************)
EXTENDS Naturals, FiniteSets

CONSTANTS
  Sources,
  Timers,      \* bound: scans by timers at a time
  Loop, Request, Handler, Nobody,
  MaxChanges,  \* bound: sources added or removed, becoming readable or not
  MaxArrivals  \* bound: downloads

Scans == Timers \cup {Loop, Request}
ASSUME WatcherAssumption ==
  /\ Cardinality({Loop, Request, Handler, Nobody}) = 4
  /\ Timers \cap {Loop, Request, Handler, Nobody} = {}
  /\ MaxChanges \in Nat /\ MaxArrivals \in Nat

VARIABLES
  sources, entry,           \* configured; what is in each
  away, broken,             \* folders that are gone; sources a scan cannot read
  watched, armed,           \* Watcher.watched, and what the kernel reports on
  events, timer,            \* an event waits to be read; the timer runs
  run,                      \* where Run is
  resync, want,             \* of Loop and Handler: Resync, the list it has read
  scan, todo, at, scanMu,   \* ProcessAll: stage, sources to do, the one listed
  ended,                    \* the context
  changes, arrivals

disk == <<sources, entry, away, broken, changes, arrivals>>
watch == <<watched, armed>>
sync == <<resync, want>>
scans == <<scan, todo, at, scanMu>>
watcherVars == <<disk, watch, events, timer, run, sync, scans, ended>>

WatcherInit ==
  /\ sources \in SUBSET Sources /\ away \in SUBSET Sources /\ broken \in SUBSET Sources
  /\ entry = [s \in Sources |-> "none"]
  /\ watched = {} /\ armed = {} /\ events = FALSE /\ timer = FALSE
  /\ run \in {"start", "ended"}  \* the demo has no watcher
  /\ resync = [r \in {Loop, Handler} |-> "off"] /\ want = [r \in {Loop, Handler} |-> {}]
  /\ scan = [x \in Scans |-> "off"] /\ todo = [x \in Scans |-> {}]
  /\ at = [x \in Scans |-> "none"] /\ scanMu = Nobody
  /\ ended = FALSE /\ changes = 0 /\ arrivals = 0

----------------------------------------------------------------------------
\* Run: NewWatcher, which may fail; then Resync and ProcessAll, then the loop.
Start ==
  /\ run = "start"
  /\ \/ run' = "resync" /\ resync' = [resync EXCEPT ![Loop] = "list"]
     \/ run' = "ended" /\ UNCHANGED resync
  /\ UNCHANGED <<disk, watch, events, timer, want, scans, ended>>

\* Mutant: a tick scans what is watched already.
TickOnlyScans ==
  /\ run = "select"
  /\ run' = "scan" /\ scan' = [scan EXCEPT ![Loop] = "list"]
  /\ UNCHANGED <<disk, watch, events, timer, sync, todo, at, scanMu, ended>>

Tick ==
  /\ run = "select"
  /\ run' = "resync" /\ resync' = [resync EXCEPT ![Loop] = "list"]
  /\ UNCHANGED <<disk, watch, events, timer, want, scans, ended>>

\* Mutant: a tick does not scan.
ResyncedOnly ==
  /\ run = "resync" /\ resync[Loop] = "off"
  /\ run' = "select"
  /\ UNCHANGED <<disk, watch, events, timer, sync, scans, ended>>

Resynced ==
  /\ run = "resync" /\ resync[Loop] = "off"
  /\ run' = "scan" /\ scan' = [scan EXCEPT ![Loop] = "list"]
  /\ UNCHANGED <<disk, watch, events, timer, sync, todo, at, scanMu, ended>>

Scanned ==
  /\ run = "scan" /\ scan[Loop] = "off"
  /\ run' = "select"
  /\ UNCHANGED <<disk, watch, events, timer, sync, scans, ended>>

\* Mutant: an event is dropped while a scan it might concern runs.
EventUnlessScanning ==
  /\ run = "select" /\ events
  /\ events' = FALSE /\ timer' = (timer \/ \A t \in Timers : scan[t] = "off")
  /\ UNCHANGED <<disk, watch, run, sync, scans, ended>>

\* schedule: the timer that runs is stopped, and a new one started.
Event ==
  /\ run = "select" /\ events
  /\ events' = FALSE /\ timer' = TRUE
  /\ UNCHANGED <<disk, watch, run, sync, scans, ended>>

\* Run returns, stops the timer and closes the kernel's watches.
Stop ==
  /\ run = "select" /\ ended
  /\ run' = "ended" /\ timer' = FALSE /\ armed' = {} /\ events' = FALSE
  /\ UNCHANGED <<disk, watched, sync, scans, ended>>

\* Resync reads the sources without the mutex ...
ListWanted(r) ==
  /\ resync[r] = "list"
  /\ want' = [want EXCEPT ![r] = sources]
  /\ resync' = [resync EXCEPT ![r] = "apply"]
  /\ UNCHANGED <<disk, watch, events, timer, run, scans, ended>>

\* ... and applies what it has read, also when that has changed since.  A folder
\* that is away is not added.
Apply(r) ==
  /\ resync[r] = "apply" /\ run \notin {"start", "ended"}
  /\ watched' = want[r] \ (away \ watched)
  /\ armed' = (armed \cap want[r]) \cup ((want[r] \ watched) \ away)
  /\ resync' = [resync EXCEPT ![r] = "off"] /\ want' = [want EXCEPT ![r] = {}]
  /\ UNCHANGED <<disk, events, timer, run, scans, ended>>

\* Without the kernel's watcher nothing is added: before Run has one, adding
\* panics within the request; after it has closed it, it fails.
ApplyNothing(r) ==
  /\ resync[r] = "apply" /\ run \in {"start", "ended"}
  /\ watched' \in {watched, watched \cap want[r]}
  /\ resync' = [resync EXCEPT ![r] = "off"] /\ want' = [want EXCEPT ![r] = {}]
  /\ UNCHANGED <<disk, armed, events, timer, run, scans, ended>>

----------------------------------------------------------------------------
\* The timer has run out; handleScan.
Fire(t) ==
  /\ timer /\ scan[t] = "off"
  /\ timer' = FALSE /\ scan' = [scan EXCEPT ![t] = "list"]
  /\ UNCHANGED <<disk, watch, events, run, sync, todo, at, scanMu, ended>>

ScanNow ==
  /\ scan[Request] = "off" /\ changes < MaxChanges /\ changes' = changes + 1
  /\ scan' = [scan EXCEPT ![Request] = "list"]
  /\ UNCHANGED <<sources, entry, away, broken, arrivals, watch, events, timer, run, sync,
                 todo, at, scanMu, ended>>

\* The request's scan has a context that does not end.
Ended(x) == ended /\ x # Request

\* ProcessAll, unless the context has ended.
ListSources(x) ==
  /\ scan[x] = "list"
  /\ todo' = [todo EXCEPT ![x] = IF Ended(x) THEN {} ELSE sources]
  /\ scan' = [scan EXCEPT ![x] = "next"]
  /\ UNCHANGED <<disk, watch, events, timer, run, sync, at, scanMu, ended>>

\* ProcessSource: the source is reconciled and listed.  What is away is passed
\* over, and what is still being written to; a source of which anything cannot be
\* read, with all that is in it.
EnterSource(x, s) ==
  /\ scan[x] = "next" /\ ~Ended(x) /\ s \in todo[x] /\ scanMu = Nobody
  /\ scanMu' = x /\ todo' = [todo EXCEPT ![x] = @ \ {s}]
  /\ at' = [at EXCEPT ![x] =
       IF s \notin away \cup broken /\ entry[s] = "stable" THEN s ELSE "none"]
  /\ scan' = [scan EXCEPT ![x] = "in"]
  /\ UNCHANGED <<disk, watch, events, timer, run, sync, ended>>

\* The context is looked at again; the candidate is processed as it is now, unless
\* it, or what is known of it, cannot be read any more.
LeaveSource(x) ==
  /\ scan[x] = "in"
  /\ entry' = [s \in Sources |->
       IF s = at[x] /\ ~Ended(x) /\ s \notin away \cup broken /\ entry[s] = "stable"
       THEN "done" ELSE entry[s]]
  /\ scanMu' = Nobody /\ at' = [at EXCEPT ![x] = "none"]
  /\ scan' = [scan EXCEPT ![x] = "next"]
  /\ UNCHANGED <<sources, away, broken, changes, arrivals, watch, events, timer, run, sync,
                 todo, ended>>

ScanEnds(x) ==
  /\ scan[x] = "next" /\ (todo[x] = {} \/ Ended(x))
  /\ scan' = [scan EXCEPT ![x] = "off"] /\ todo' = [todo EXCEPT ![x] = {}]
  /\ UNCHANGED <<disk, watch, events, timer, run, sync, at, scanMu, ended>>

----------------------------------------------------------------------------
\* A handler adds or removes a source and calls Resync.
Configure(s) ==
  /\ resync[Handler] = "off" /\ changes < MaxChanges /\ changes' = changes + 1
  /\ sources' = IF s \in sources THEN sources \ {s} ELSE sources \cup {s}
  /\ resync' = [resync EXCEPT ![Handler] = "list"]
  /\ UNCHANGED <<entry, away, broken, arrivals, watch, events, timer, run, want, scans, ended>>

\* A folder goes, with its watch, or comes back.
Mount(s) ==
  /\ changes < MaxChanges /\ changes' = changes + 1
  /\ away' = IF s \in away THEN away \ {s} ELSE away \cup {s}
  /\ armed' = armed \ away'
  /\ UNCHANGED <<sources, entry, broken, arrivals, watched, events, timer, run, sync, scans,
                 ended>>

\* Something of a source cannot be read any more, or can be again.
Break(s) ==
  /\ changes < MaxChanges /\ changes' = changes + 1
  /\ broken' = IF s \in broken THEN broken \ {s} ELSE broken \cup {s}
  /\ UNCHANGED <<sources, entry, away, arrivals, watch, events, timer, run, sync, scans, ended>>

\* A download begins or goes on, and is complete a while later.
Land(s) ==
  /\ s \notin away /\ arrivals < MaxArrivals /\ arrivals' = arrivals + 1
  /\ entry' = [entry EXCEPT ![s] = "fresh"]
  /\ events' = (events \/ s \in armed)
  /\ UNCHANGED <<sources, away, broken, changes, watch, timer, run, sync, scans, ended>>

Settle(s) ==
  /\ entry[s] = "fresh"
  /\ entry' = [entry EXCEPT ![s] = "stable"]
  /\ UNCHANGED <<sources, away, broken, changes, arrivals, watch, events, timer, run, sync,
                 scans, ended>>

Shutdown == ~ended /\ ended' = TRUE
  /\ UNCHANGED <<disk, watch, events, timer, run, sync, scans>>

RunStep == Start \/ Tick \/ Resynced \/ Scanned \/ Event \/ Stop
Resync(r) == ListWanted(r) \/ Apply(r) \/ ApplyNothing(r)
ProcessAll(x) ==
  ListSources(x) \/ (\E s \in Sources : EnterSource(x, s)) \/ LeaveSource(x) \/ ScanEnds(x)
Outside == ScanNow \/ Shutdown
  \/ \E s \in Sources : Configure(s) \/ Mount(s) \/ Break(s) \/ Land(s) \/ Settle(s)

WatcherNext ==
  \/ RunStep \/ (\E r \in {Loop, Handler} : Resync(r)) \/ (\E t \in Timers : Fire(t))
  \/ (\E x \in Scans : ProcessAll(x)) \/ Outside

\* The loop, the ticker and the timers run; scanMu is fair; time passes.
WatcherFairness ==
  /\ WF_watcherVars(Start \/ Resynced \/ Scanned) /\ SF_watcherVars(Tick)
  /\ SF_watcherVars(Event) /\ \A t \in Timers : WF_watcherVars(Fire(t))
  /\ \A r \in {Loop, Handler} : WF_watcherVars(Resync(r))
  /\ \A x \in Scans :
       /\ WF_watcherVars(ListSources(x) \/ LeaveSource(x) \/ ScanEnds(x))
       /\ \A s \in Sources : SF_watcherVars(EnterSource(x, s))
  /\ \A s \in Sources : WF_watcherVars(Settle(s))

WatcherSpec == WatcherInit /\ [][WatcherNext]_watcherVars /\ WatcherFairness

----------------------------------------------------------------------------
\* Whatever is downloaded to a source is processed in the end, though its events
\* come while it is not stable yet, or do not come at all, and though the folder or
\* something in it could not be read for a while: what comes back is found again.
Processed == \A s \in Sources :
  []<>(entry[s] \in {"none", "done"} \/ s \notin sources \/ s \in away \cup broken
       \/ ended \/ run = "ended")

\* The watches follow the configuration, though two Resyncs may apply what they
\* have read in the wrong order, and folders may be away when they are added.
WatchesFollow == []<>(ended \/ run = "ended" \/ watched \ away = sources \ away)

\* "A burst of events results in a single scan" (watcher.go), which begins after
\* the last of them, also when it comes while the scan of the one before runs.
EventsLeadToScan ==
  /\ events ~> timer \/ ended \/ run = "ended"
  /\ timer ~> (\E t \in Timers : scan[t] = "list") \/ ended \/ run = "ended"
=============================================================================
