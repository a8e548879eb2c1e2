------------------------------ MODULE JobQueue ------------------------------
(***************************************************************************)
(* The background queue: the jobs table (internal/store/jobs.go,           *)
(* internal/store/reconcile.go), the worker that runs it                   *)
(* (internal/queue/queue.go) and everybody who edits it while the worker   *)
(* runs: the HTTP handlers (internal/web/handlers.go), the scanner that    *)
(* reconciles items with the source folders (internal/engine/reconcile.go) *)
(* and the operating system, which stops and kills the process.            *)
(*                                                                         *)
(* One SQL statement or transaction is one step: the store has a single    *)
(* connection.  What the engine does while a job runs is left to ItemPlan; *)
(* here a job ends with one of the outcomes the worker tells apart.        *)
(*                                                                         *)
(* Time: a row's run_after is the moment it becomes due, so the order of   *)
(* two rows that are due is the order in which they became so.  A row in   *)
(* `delayed' is not due yet; `earlier' orders the others.                  *)
(***************************************************************************)
EXTENDS FiniteSets

CONSTANTS
  Items,      \* item ids
  Works,      \* kind and payload of a job
  FileWorks,  \* those of kind file_action
  JobIds,     \* row ids; a deleted id is used again when nothing refers to it
  NoJob, NoItem, NoWork

ASSUME WorksAssumption == FileWorks \subseteq Works
ASSUME NoneAssumption == NoJob \notin JobIds /\ NoItem \notin Items /\ NoWork \notin Works

VARIABLES
  items,      \* items.status, as far as the queue's SQL tells it apart
  status,     \* jobs.status; "none" when there is no such row
  item,       \* jobs.item_id
  work,       \* jobs.kind and jobs.payload_json
  delayed,    \* rows whose run_after lies ahead
  earlier,    \* <<a, b>>: the run_after of row a is before that of row b
  retrying,   \* rows of a RetryJob that is between its two statements
  wpc,        \* where the worker is
  cur,        \* the job it has claimed
  outcome,    \* what it is about to write about that job
  cancelled,  \* the process's context has ended
  writable,   \* the media root accepts writes
  healthy     \* Health.Writable: the last probe's result

rows == <<items, status, item, work, delayed, earlier>>
worker == <<wpc, cur, outcome>>
vars == <<rows, retrying, worker, cancelled, writable, healthy>>

----------------------------------------------------------------------------
(* The table.                                                               *)

Open == {"pending", "running"}
Rows == {j \in JobIds : status[j] # "none"}
JobsOf(i) == {j \in Rows : item[j] = i}
RunningJobs == {j \in JobIds : status[j] = "running"}
Exists(i) == items[i] # "absent"

\* Mutant: the index covers the pending rows only.
HasPending(i, w) == \E j \in JobIds : status[j] = "pending" /\ item[j] = i /\ work[j] = w

\* The partial unique index idx_jobs_open_unique refuses a second open row.
HasOpen(i, w) == \E j \in JobIds : status[j] \in Open /\ item[j] = i /\ work[j] = w

\* run_after is set to the present moment: after every open row that is due.
\* The order of the rows that are not open plays no part: a retry stamps anew.
Forget(S) == {p \in earlier : p[1] \notin S /\ p[2] \notin S}
Stamped(j) == Forget({j}) \cup
  {<<u, j>> : u \in {v \in JobIds \ delayed : v # j /\ status[v] \in Open}}

\* DELETE FROM jobs of the rows in S.
Remove(S) ==
  /\ status' = [j \in JobIds |-> IF j \in S THEN "none" ELSE status[j]]
  /\ item' = [j \in JobIds |-> IF j \in S THEN NoItem ELSE item[j]]
  /\ work' = [j \in JobIds |-> IF j \in S THEN NoWork ELSE work[j]]
  /\ delayed' = delayed \ S
  /\ earlier' = Forget(S)

Up == wpc # "off"

Init ==
  /\ items = [i \in Items |-> "absent"]
  /\ status = [j \in JobIds |-> "none"]
  /\ item = [j \in JobIds |-> NoItem]
  /\ work = [j \in JobIds |-> NoWork]
  /\ delayed = {} /\ earlier = {} /\ retrying = {}
  /\ wpc = "off" /\ cur = NoJob /\ outcome = "none"
  /\ cancelled = FALSE /\ writable = TRUE
  /\ healthy = FALSE

----------------------------------------------------------------------------
(* The web handlers.                                                        *)

\* EnqueueJob; a twin that is open makes it ErrJobExists and changes nothing.
EnqueueJob(i, w, j) ==
  /\ Up /\ Exists(i) /\ ~HasOpen(i, w)
  /\ status[j] = "none" /\ j # cur /\ j \notin retrying
  /\ status' = [status EXCEPT ![j] = "pending"]
  /\ item' = [item EXCEPT ![j] = i]
  /\ work' = [work EXCEPT ![j] = w]
  /\ earlier' = Stamped(j)
  /\ UNCHANGED <<items, delayed, retrying, worker, cancelled, writable, healthy>>

\* RetryJob, its UPDATE: due at once, unless the unique index refuses it.
RetryJob(j) ==
  /\ Up /\ status[j] = "failed"
  /\ \/ /\ ~HasOpen(item[j], work[j])
        /\ status' = [status EXCEPT ![j] = "pending"]
        /\ earlier' = Stamped(j)
        /\ UNCHANGED retrying
     \/ /\ HasOpen(item[j], work[j])
        /\ retrying' = retrying \cup {j}
        /\ UNCHANGED <<status, earlier>>
  /\ UNCHANGED <<items, item, work, delayed, worker, cancelled, writable, healthy>>

\* RetryJob, the DeleteJob it falls back to: a statement of its own.
RetryDrop(j) ==
  /\ Up /\ j \in retrying
  /\ Remove({j} \ RunningJobs)
  /\ retrying' = retrying \ {j}
  /\ UNCHANGED <<items, worker, cancelled, writable, healthy>>

\* Mutant: DeleteJob takes a running row too.
DeleteAnyJob(j) ==
  /\ Up /\ j \in Rows
  /\ Remove({j})
  /\ UNCHANGED <<items, retrying, worker, cancelled, writable, healthy>>

DeleteJob(j) ==
  /\ Up /\ j \in Rows \ RunningJobs
  /\ Remove({j})
  /\ UNCHANGED <<items, retrying, worker, cancelled, writable, healthy>>

ClearQueue ==
  /\ Up
  /\ Remove({j \in Rows : status[j] \in {"done", "failed"}
                       \/ (~Exists(item[j]) /\ status[j] # "running")})
  /\ UNCHANGED <<items, retrying, worker, cancelled, writable, healthy>>

\* Mutant: DeleteItem leaves the item's jobs alone.
DeleteItemOnly(i) ==
  /\ Up /\ Exists(i)
  /\ JobsOf(i) \cap RunningJobs = {}
  /\ items' = [items EXCEPT ![i] = "absent"]
  /\ UNCHANGED <<status, item, work, delayed, earlier, retrying, worker, cancelled,
                 writable, healthy>>

DeleteItem(i) ==
  /\ Up /\ Exists(i)
  /\ JobsOf(i) \cap RunningJobs = {}
  /\ Remove(JobsOf(i))
  /\ items' = [items EXCEPT ![i] = "absent"]
  /\ UNCHANGED <<retrying, worker, cancelled, writable, healthy>>

\* ClearHistory: terminal items without pending or running jobs, and their jobs.
ClearHistory ==
  LET eligible == {i \in Items : /\ items[i] = "history"
                                 /\ \A j \in JobsOf(i) : status[j] \notin Open}
  IN /\ Up
     /\ Remove(UNION {JobsOf(i) : i \in eligible})
     /\ items' = [i \in Items |-> IF i \in eligible THEN "absent" ELSE items[i]]
     /\ UNCHANGED <<retrying, worker, cancelled, writable, healthy>>

----------------------------------------------------------------------------
(* The scanner and the engine, as far as they touch the tables.             *)

\* UpsertItem of a new source path.
AddItem(i) ==
  /\ Up /\ ~Exists(i) /\ JobsOf(i) = {}
  /\ items' = [items EXCEPT ![i] = "open"]
  /\ UNCHANGED <<status, item, work, delayed, earlier, retrying, worker, cancelled, writable, healthy>>

\* UpsertItem and UpdateItemStatus of a known one (IsHistory of its status).
SetItemStatus(i, s) ==
  /\ Up /\ Exists(i) /\ s # items[i]
  /\ items' = [items EXCEPT ![i] = s]
  /\ UNCHANGED <<status, item, work, delayed, earlier, retrying, worker, cancelled, writable, healthy>>

\* RemoveMissingItem: its source is gone; a claimed job protects the item.
RemoveMissingItem(i) ==
  /\ Up /\ Exists(i)
  /\ JobsOf(i) \cap RunningJobs = {}
  /\ \/ /\ items[i] = "history"
        /\ Remove({j \in JobsOf(i) : status[j] # "done"})
        /\ UNCHANGED items
     \/ /\ items[i] # "history"
        /\ Remove(JobsOf(i))
        /\ items' = [items EXCEPT ![i] = "absent"]
  /\ UNCHANGED <<retrying, worker, cancelled, writable, healthy>>

\* RemoveObsoleteFileJobs: the files of `gone' changed on disk.
RemoveObsoleteFileJobs(i, gone) ==
  /\ Up /\ Exists(i)
  /\ Remove({j \in JobsOf(i) : work[j] \in gone /\ status[j] \in {"pending", "failed"}})
  /\ UNCHANGED <<items, retrying, worker, cancelled, writable, healthy>>

\* RefreshSources begins with PruneOrphanJobs.
PruneOrphanJobs ==
  /\ Up
  /\ Remove({j \in Rows : status[j] # "running" /\ ~Exists(item[j])})
  /\ UNCHANGED <<items, retrying, worker, cancelled, writable, healthy>>

----------------------------------------------------------------------------
(* The worker.                                                              *)

\* The process starts: nothing of the previous one is left but the tables.
Start ==
  /\ wpc = "off"
  /\ wpc' = "boot"
  /\ healthy' = FALSE
  /\ UNCHANGED <<rows, retrying, cur, outcome, cancelled, writable>>

\* Mutant: the rows a crash left behind stay as they are.
ResetNothing ==
  /\ wpc = "boot"
  /\ wpc' = "ready"
  /\ UNCHANGED <<rows, retrying, cur, outcome, cancelled, writable, healthy>>

\* Run: ResetRunningJobs keeps run_after.  Run's own probe is the first
\* RefreshHealth: the zero Health is not writable.
ResetRunningJobs ==
  /\ wpc = "boot"
  /\ wpc' = "ready"
  /\ status' = IF cancelled THEN status
               ELSE [j \in JobIds |-> IF status[j] = "running" THEN "pending" ELSE status[j]]
  /\ UNCHANGED <<items, item, work, delayed, earlier, retrying, cur, outcome,
                 cancelled, writable, healthy>>

\* probeHealth; with an ended context CheckWritable fails.
ProbeHealth == healthy' = (writable /\ ~cancelled)

\* step: refreshHealthIfDue probes when the last result is too old, which may
\* be now or later, and only a healthy storage lets the worker on.
RefreshHealth ==
  /\ wpc = "ready"
  /\ \/ ProbeHealth
     \/ healthy /\ UNCHANGED healthy
  /\ wpc' = IF healthy' THEN "claim" ELSE "ready"
  /\ UNCHANGED <<rows, retrying, cur, outcome, cancelled, writable>>

\* PruneDoneJobs: a row that finished a day ago.
PruneDoneJob(j) ==
  /\ wpc = "ready" /\ ~cancelled /\ status[j] = "done"
  /\ Remove({j})
  /\ UNCHANGED <<items, retrying, worker, cancelled, writable, healthy>>

Due == {j \in JobIds : status[j] = "pending" /\ j \notin delayed}

\* step: ClaimNextJob takes the due row with the earliest run_after.
ClaimNextJob(j) ==
  /\ wpc = "claim" /\ ~cancelled
  /\ j \in Due /\ \A u \in Due : <<u, j>> \notin earlier
  /\ status' = [status EXCEPT ![j] = "running"]
  /\ wpc' = "busy"
  /\ cur' = j
  /\ UNCHANGED <<items, item, work, delayed, earlier, retrying, outcome, cancelled,
                 writable, healthy>>

\* step: nothing is due, or the statement fails because the context has ended.
ClaimNothing ==
  /\ wpc = "claim" /\ (Due = {} \/ cancelled)
  /\ wpc' = "ready"
  /\ UNCHANGED <<rows, retrying, cur, outcome, cancelled, writable, healthy>>

\* execute: dispatch returned, and the error decides what is written.
Returned(o) ==
  /\ wpc = "busy"
  /\ outcome' = o
  /\ UNCHANGED <<rows, retrying, cur, cancelled, writable>>

\* nil, or an error of isNoOp.
Succeed == Returned("complete") /\ wpc' = "record" /\ UNCHANGED healthy

\* context.Canceled.
HandBack == cancelled /\ Returned("handback") /\ wpc' = "record" /\ UNCHANGED healthy

\* Mutant: the outcome of the probe is not looked at.
GiveUpAnyway ==
  /\ ProbeHealth
  /\ Returned("fail")
  /\ wpc' = "record"

\* isPermanent: the storage is probed before the job is given up.
GiveUp ==
  /\ ProbeHealth
  /\ Returned(IF healthy' THEN "fail" ELSE "defer")
  /\ wpc' = "record"

\* Any other error.
Transient == Returned("retry") /\ wpc' = "record" /\ UNCHANGED healthy

\* CompleteJob, FailJob or RescheduleJob; they all get the worker's context, so
\* once it has ended the statement fails and the error is only logged.
Record ==
  /\ wpc = "record"
  /\ IF cancelled THEN UNCHANGED <<status, delayed, earlier>>
     ELSE CASE outcome = "complete" ->
                 /\ status' = [status EXCEPT ![cur] = "done"]
                 /\ earlier' = Forget({cur})
                 /\ UNCHANGED delayed
            [] outcome = "fail" ->
                 /\ status' = [status EXCEPT ![cur] = "failed"]
                 /\ earlier' = Forget({cur})
                 /\ UNCHANGED delayed
            [] outcome \in {"defer", "retry"} ->
                 /\ status' = [status EXCEPT ![cur] = "pending"]
                 /\ delayed' = delayed \cup {cur}
                 /\ earlier' = Forget({cur})
            [] outcome = "handback" ->
                 /\ status' = [status EXCEPT ![cur] = "pending"]
                 /\ earlier' = Stamped(cur)
                 /\ UNCHANGED delayed
  /\ wpc' = "ready" /\ cur' = NoJob /\ outcome' = "none"
  /\ UNCHANGED <<items, item, work, retrying, cancelled, writable, healthy>>

\* Run's loop sees the ended context.
Exit ==
  /\ wpc = "ready" /\ cancelled
  /\ wpc' = "off" /\ retrying' = {} /\ cancelled' = FALSE
  /\ UNCHANGED <<rows, cur, outcome, writable, healthy>>

----------------------------------------------------------------------------
(* The environment.                                                         *)

\* SIGTERM: the context of the worker and the scanner ends.
Shutdown ==
  /\ Up /\ ~cancelled
  /\ cancelled' = TRUE
  /\ UNCHANGED <<rows, retrying, worker, writable, healthy>>

\* The process is killed, or does not get ready within its ten seconds.
Crash ==
  /\ Up
  /\ wpc' = "off" /\ cur' = NoJob /\ outcome' = "none"
  /\ retrying' = {} /\ cancelled' = FALSE
  /\ UNCHANGED <<rows, writable, healthy>>

\* The run_after of j has come.
BecomeDue(j) ==
  /\ j \in delayed
  /\ delayed' = delayed \ {j}
  /\ earlier' = Stamped(j)
  /\ UNCHANGED <<items, status, item, work, retrying, worker, cancelled, writable, healthy>>

StorageChanges ==
  /\ writable' = ~writable
  /\ UNCHANGED <<rows, retrying, worker, cancelled, healthy>>

----------------------------------------------------------------------------
Web ==
  \/ \E i \in Items, w \in Works, j \in JobIds : EnqueueJob(i, w, j)
  \/ \E j \in JobIds : RetryJob(j) \/ RetryDrop(j) \/ DeleteJob(j)
  \/ \E i \in Items : DeleteItem(i)
  \/ ClearQueue \/ ClearHistory

Scanner ==
  \/ \E i \in Items : AddItem(i) \/ RemoveMissingItem(i)
  \/ \E i \in Items, s \in {"open", "history"} : SetItemStatus(i, s)
  \/ \E i \in Items, gone \in SUBSET FileWorks : RemoveObsoleteFileJobs(i, gone)
  \/ PruneOrphanJobs

Worker ==
  \/ Start \/ ResetRunningJobs \/ RefreshHealth
  \/ \E j \in JobIds : PruneDoneJob(j) \/ ClaimNextJob(j)
  \/ ClaimNothing
  \/ Succeed \/ HandBack \/ GiveUp \/ Transient \/ Record \/ Exit

Environment ==
  \/ Shutdown \/ Crash \/ StorageChanges
  \/ \E j \in JobIds : BecomeDue(j)

Next == Web \/ Scanner \/ Worker \/ Environment

\* The worker's goroutine runs, its calls return, timers fire.  No call is
\* hit by transient errors for ever.
Fairness ==
  /\ WF_vars(ResetRunningJobs) /\ WF_vars(RefreshHealth) /\ WF_vars(Record)
  /\ WF_vars(ClaimNothing \/ \E j \in JobIds : ClaimNextJob(j))
  /\ WF_vars(Succeed \/ HandBack \/ GiveUp \/ Transient)
  /\ \A j \in JobIds :
       /\ WF_vars(BecomeDue(j))
       /\ SF_vars(cur = j /\ (Succeed \/ GiveUp))

Spec == Init /\ [][Next]_vars
FairSpec == Spec /\ Fairness

----------------------------------------------------------------------------
TypeOK ==
  /\ items \in [Items -> {"absent", "open", "history"}]
  /\ status \in [JobIds -> {"none", "pending", "running", "failed", "done"}]
  /\ item \in [JobIds -> Items \cup {NoItem}]
  /\ work \in [JobIds -> Works \cup {NoWork}]
  /\ delayed \subseteq JobIds /\ retrying \subseteq JobIds
  /\ earlier \subseteq JobIds \X JobIds
  /\ wpc \in {"off", "boot", "ready", "claim", "busy", "record"}
  /\ cur \in JobIds \cup {NoJob}
  /\ outcome \in {"none", "complete", "fail", "defer", "retry", "handback"}
  /\ cancelled \in BOOLEAN /\ writable \in BOOLEAN
  /\ healthy \in BOOLEAN

\* While the worker is inside a job, that row is the one running row: neither a
\* handler nor the scanner took it away, and the outcome is written to the job
\* it belongs to ("so the worker is never pulled out from under").
WorkerOwnsJob == wpc \in {"busy", "record"} => RunningJobs = {cur}

\* One worker, one running job: after any crash a claim finds no leftovers.
OneRunning == \A j, k \in RunningJobs : j = k

\* The same work is open at most once per item, whatever retries, reschedules
\* and restarts do to the rows that failed before.
OpenOnce == \A j, k \in JobIds :
  /\ status[j] \in Open /\ status[k] \in Open
  /\ item[j] = item[k] /\ work[j] = work[k]
  => j = k

\* Every job has its item: nobody deletes an item and leaves a row behind that
\* the worker would run into.
NoOrphans == \A j \in Rows : item[j] \in Items /\ Exists(item[j])

\* A claimed row leaves "running" only by the worker's hand or by the reset of
\* the next start.
OnlyWorkerEndsJobs == [][\A j \in JobIds :
  status[j] = "running" /\ status'[j] # "running" => wpc \in {"boot", "record"}]_vars

\* A job is given up for good only by a worker that has just seen the storage
\* work: an outage defers the job, it never fails it.
FailsOnlyWhenHealthy == [][\A j \in JobIds :
  status[j] # "failed" /\ status'[j] = "failed" => healthy]_vars

\* Once the process stays up and the storage stays writable, every pending job
\* gets its turn and ends, whatever is enqueued or retried meanwhile.
Calm == Up /\ ~cancelled /\ writable
JobsSettle == <>[]Calm => \A j \in JobIds :
  status[j] = "pending" ~> status[j] \notin Open
=============================================================================
