---------------------------- MODULE SourceRefresh ----------------------------
(***************************************************************************)
(* internal/web/refresh.go: the refresh of the listings, which every poll  *)
(* of an open page asks for, and which clearing the queue insists on.  It  *)
(* runs in a goroutine; Engine.RefreshSources reads the sources once, and  *)
(* what changes after that is left to the next refresh.                    *)
(***************************************************************************)
EXTENDS Naturals

CONSTANT MaxTasks  \* bound: goroutines

VARIABLES
  running, cooling,  \* the status; less than ten seconds since FinishedAt
  tasks, unread,     \* goroutines, and those that have not read the sources yet
  pending, reading,  \* something has changed: nobody has read it; a task has
  open               \* a page is open

refreshVars == <<running, cooling, tasks, unread, pending, reading, open>>

RefreshInit ==
  /\ running = FALSE /\ cooling = FALSE /\ tasks = 0 /\ unread = 0
  /\ pending = FALSE /\ reading = FALSE /\ open \in BOOLEAN

BeginRefresh ==
  /\ tasks < MaxTasks
  /\ running' = TRUE /\ cooling' = FALSE
  /\ tasks' = tasks + 1 /\ unread' = unread + 1

\* scheduleSourceRefresh: nothing is started while one runs, nor (unless forced)
\* for ten seconds after it.
Schedule(force) ==
  IF running \/ (~force /\ cooling)
  THEN UNCHANGED <<running, cooling, tasks, unread>> ELSE BeginRefresh

Poll == open /\ Schedule(FALSE) /\ UNCHANGED <<pending, reading, open>>

\* handleClearQueue removes jobs, and insists.
ClearQueue == Schedule(TRUE) /\ pending' = TRUE /\ UNCHANGED <<reading, open>>

\* RefreshSources prunes the orphans and goes through the sources.
ReadSources ==
  /\ unread > 0 /\ unread' = unread - 1
  /\ reading' = (reading \/ pending) /\ pending' = FALSE
  /\ UNCHANGED <<running, cooling, tasks, open>>

\* Mutant: a refresh that failed is still running for the next request.
FinishStuck ==
  /\ tasks > unread /\ tasks' = tasks - 1
  /\ \E failed \in BOOLEAN :
       /\ running' = failed /\ pending' = (pending \/ (failed /\ reading))
  /\ cooling' = TRUE /\ reading' = FALSE
  /\ UNCHANGED <<unread, open>>

\* A source that could not be read is left to the next refresh.
Finish ==
  /\ tasks > unread /\ tasks' = tasks - 1
  /\ running' = FALSE /\ cooling' = TRUE
  /\ \E failed \in BOOLEAN : pending' = (pending \/ (failed /\ reading))
  /\ reading' = FALSE
  /\ UNCHANGED <<unread, open>>

Cool ==
  /\ cooling /\ cooling' = FALSE
  /\ UNCHANGED <<running, tasks, unread, pending, reading, open>>

\* Something changes on the storage or in the queue.
Change ==
  /\ pending' = TRUE
  /\ UNCHANGED <<running, cooling, tasks, unread, reading, open>>

OpenOrClose ==
  /\ open' = ~open
  /\ UNCHANGED <<running, cooling, tasks, unread, pending, reading>>

RefreshNext ==
  Poll \/ ClearQueue \/ ReadSources \/ Finish \/ Cool \/ Change \/ OpenOrClose

\* An open page polls; a refresh "runs to completion"; time passes.
RefreshFairness ==
  /\ WF_refreshVars(Poll) /\ WF_refreshVars(ReadSources) /\ WF_refreshVars(Finish)
  /\ WF_refreshVars(Cool)

RefreshSpec == RefreshInit /\ [][RefreshNext]_refreshVars /\ RefreshFairness

----------------------------------------------------------------------------
\* "Concurrent polls never start additional refresh tasks" (README.md): there is
\* one task while the status says that it runs, and none otherwise.
OneTask == tasks = (IF running THEN 1 ELSE 0)

\* A request that shares a refresh under way is not lost: what it was about is
\* read in the end, by the next one if need be, also when refreshes fail.
ChangesAreRead == pending ~> ~pending \/ ~open
=============================================================================
