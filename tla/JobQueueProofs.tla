--------------------------- MODULE JobQueueProofs ---------------------------
(***************************************************************************)
(* The safety properties of the job queue, for any items, works and rows.  *)
(*                                                                         *)
(* The inductive invariant adds to the properties what the worker relies   *)
(* on between its statements: which rows are running in each of its states *)
(* and that an outcome "fail" was preceded by a successful probe.          *)
(*                                                                         *)
(* At the end, that the table implements WorkQueue.                        *)
(***************************************************************************)
EXTENDS JobQueueRefinement, TLAPS

Statuses == {"none", "pending", "running", "failed", "done"}

\* The job the worker holds is the one running row; before a claim there is
\* none, unless the process is on its way out; after a crash at most one.
WorkerState ==
  /\ wpc \in {"busy", "record"} =>
       cur \in JobIds /\ \A j \in JobIds : status[j] = "running" <=> j = cur
  /\ wpc \in {"ready", "claim"} /\ ~cancelled => \A j \in JobIds : status[j] # "running"
  /\ OneRunning
  /\ wpc = "record" => outcome # "none" /\ (outcome = "fail" => healthy)

IInv == TypeOK /\ NoOrphans /\ OpenOnce /\ WorkerState

----------------------------------------------------------------------------
(* What the two ways of writing rows do to the table.                       *)

\* The order of the rows stays an order of rows.
LEMMA StampedType ==
  ASSUME TypeOK, NEW j \in JobIds
  PROVE  Stamped(j) \subseteq JobIds \X JobIds /\ Forget({j}) \subseteq JobIds \X JobIds
  BY DEF TypeOK, Stamped, Forget

\* Removing rows that are not running, and no item of a row that stays, is safe
\* whoever does it: every DELETE of handlers and scanner is of this form.
LEMMA RemoveIsSafe ==
  ASSUME IInv, NEW S, Remove(S), S \cap RunningJobs = {},
         items' \in [Items -> {"absent", "open", "history"}],
         \A j \in Rows \ S : items'[item[j]] # "absent",
         retrying' \subseteq JobIds,
         UNCHANGED <<worker, cancelled, writable, healthy>>
  PROVE  IInv'
<1>1. /\ status' \in [JobIds -> Statuses]
      /\ \A j \in JobIds : status'[j] = IF j \in S THEN "none" ELSE status[j]
  BY DEF IInv, TypeOK, Remove, Statuses
<1>2. /\ item' \in [JobIds -> Items \cup {NoItem}]
      /\ work' \in [JobIds -> Works \cup {NoWork}]
      /\ \A j \in JobIds \ S : item'[j] = item[j] /\ work'[j] = work[j]
  BY DEF IInv, TypeOK, Remove
<1>3. delayed' \subseteq JobIds /\ earlier' \subseteq JobIds \X JobIds
  BY DEF IInv, TypeOK, Remove, Forget
<1>4. TypeOK'
  BY <1>1, <1>2, <1>3 DEF IInv, TypeOK, worker, Statuses
<1>5. NoOrphans'
  BY <1>1, <1>2 DEF IInv, NoOrphans, Rows, Exists
<1>6. OpenOnce'
  BY <1>1, <1>2 DEF IInv, OpenOnce, Open
<1>7. \A j \in JobIds : status'[j] = "running" <=> status[j] = "running"
  BY <1>1 DEF RunningJobs
<1>8. WorkerState'
  BY <1>7 DEF IInv, WorkerState, OneRunning, RunningJobs, worker
<1> QED
  BY <1>4, <1>5, <1>6, <1>8 DEF IInv

\* A step of the worker or of the environment that writes no row.
LEMMA RowsStay ==
  ASSUME IInv, UNCHANGED rows,
         TypeOK', WorkerState'
  PROVE  IInv'
  BY DEF IInv, rows, NoOrphans, OpenOnce, Rows, Exists, Open

----------------------------------------------------------------------------
(* The inductive invariant.                                                 *)

\* The first process finds an empty table.
LEMMA InitHolds == Init => IInv
<1> SUFFICES ASSUME Init PROVE IInv
  OBVIOUS
<1>1. \A j \in JobIds : status[j] = "none"
  BY DEF Init
<1>2. TypeOK
  BY DEF Init, TypeOK
<1>3. NoOrphans /\ OpenOnce
  BY <1>1 DEF NoOrphans, OpenOnce, Rows, Open
<1>4. WorkerState
  BY <1>1 DEF Init, WorkerState, OneRunning, RunningJobs
<1> QED
  BY <1>2, <1>3, <1>4 DEF IInv

\* The web handlers.
LEMMA WebStep == IInv /\ Web => IInv'
<1> SUFFICES ASSUME IInv, Web PROVE IInv'
  OBVIOUS
<1>1. ASSUME NEW i \in Items, NEW w \in Works, NEW j \in JobIds, EnqueueJob(i, w, j)
      PROVE  IInv'
  <2>1. /\ status' \in [JobIds -> Statuses]
        /\ \A k \in JobIds : status'[k] = IF k = j THEN "pending" ELSE status[k]
    BY <1>1 DEF IInv, TypeOK, EnqueueJob, Statuses
  <2>2. /\ item' \in [JobIds -> Items \cup {NoItem}]
        /\ work' \in [JobIds -> Works \cup {NoWork}]
        /\ item'[j] = i /\ work'[j] = w
        /\ \A k \in JobIds \ {j} : item'[k] = item[k] /\ work'[k] = work[k]
    BY <1>1 DEF IInv, TypeOK, EnqueueJob
  <2>3. TypeOK'
    BY <1>1, <2>1, <2>2, StampedType DEF IInv, TypeOK, EnqueueJob, worker, Statuses
  <2>4. NoOrphans'
    BY <1>1, <2>1, <2>2 DEF IInv, NoOrphans, Rows, Exists, EnqueueJob
  <2>5. OpenOnce'
    BY <1>1, <2>1, <2>2 DEF IInv, OpenOnce, Open, EnqueueJob, HasOpen
  <2>6. WorkerState'
    BY <1>1, <2>1 DEF IInv, WorkerState, OneRunning, RunningJobs, EnqueueJob, worker
  <2> QED
    BY <2>3, <2>4, <2>5, <2>6 DEF IInv
<1>2. ASSUME NEW j \in JobIds, RetryJob(j)
      PROVE  IInv'
  <2>1. /\ status' \in [JobIds -> Statuses]
        /\ \A k \in JobIds \ {j} : status'[k] = status[k]
        /\ status[j] = "failed" /\ status'[j] \in {"pending", "failed"}
        /\ status'[j] = "pending" => ~HasOpen(item[j], work[j])
    BY <1>2 DEF IInv, TypeOK, RetryJob, Statuses
  <2>2. UNCHANGED <<items, item, work, delayed, wpc, cur, outcome, cancelled, writable, healthy>>
    BY <1>2 DEF RetryJob, worker
  <2>3. TypeOK'
    <3>1. earlier' \subseteq JobIds \X JobIds
      BY <1>2, StampedType DEF IInv, TypeOK, RetryJob
    <3>2. retrying' \subseteq JobIds
      BY <1>2 DEF IInv, TypeOK, RetryJob
    <3> QED
      BY <2>1, <2>2, <3>1, <3>2 DEF IInv, TypeOK, Statuses
  <2>4. NoOrphans'
    BY <2>1, <2>2 DEF IInv, NoOrphans, Rows, Exists
  <2>5. OpenOnce'
    BY <2>1, <2>2 DEF IInv, OpenOnce, Open, HasOpen
  <2>6. WorkerState'
    BY <2>1, <2>2 DEF IInv, WorkerState, OneRunning, RunningJobs
  <2> QED
    BY <2>3, <2>4, <2>5, <2>6 DEF IInv
<1>3. ASSUME NEW j \in JobIds, RetryDrop(j)
      PROVE  IInv'
  <2>1. UNCHANGED <<items, worker, cancelled, writable, healthy>> /\ retrying' \subseteq JobIds
    BY <1>3 DEF RetryDrop, IInv, TypeOK
  <2> QED
    BY <1>3, <2>1, RemoveIsSafe DEF RetryDrop, IInv, TypeOK, NoOrphans, Exists
<1>4. ASSUME NEW j \in JobIds, DeleteJob(j)
      PROVE  IInv'
  <2>1. UNCHANGED <<items, retrying, worker, cancelled, writable, healthy>>
    BY <1>4 DEF DeleteJob
  <2> QED
    BY <1>4, <2>1, RemoveIsSafe DEF DeleteJob, IInv, TypeOK, NoOrphans, Exists
<1>5. ASSUME NEW i \in Items, DeleteItem(i)
      PROVE  IInv'
  <2>1. /\ UNCHANGED <<retrying, worker, cancelled, writable, healthy>>
        /\ items' \in [Items -> {"absent", "open", "history"}]
        /\ \A k \in Items \ {i} : items'[k] = items[k]
    BY <1>5 DEF DeleteItem, IInv, TypeOK
  <2>2. \A j \in Rows \ JobsOf(i) : items'[item[j]] # "absent"
    BY <2>1 DEF IInv, NoOrphans, Exists, JobsOf
  <2> QED
    BY <1>5, <2>1, <2>2, RemoveIsSafe DEF DeleteItem, IInv, TypeOK
<1>6. CASE ClearQueue
  <2> DEFINE S == {j \in Rows : status[j] \in {"done", "failed"}
                                \/ (~Exists(item[j]) /\ status[j] # "running")}
  <2>1. UNCHANGED <<items, retrying, worker, cancelled, writable, healthy>> /\ Remove(S)
    BY <1>6 DEF ClearQueue
  <2>2. S \cap RunningJobs = {}
    BY DEF RunningJobs
  <2> QED
    BY <2>1, <2>2, RemoveIsSafe DEF IInv, TypeOK, NoOrphans, Exists
<1>7. CASE ClearHistory
  <2> DEFINE E == {i \in Items : /\ items[i] = "history"
                                 /\ \A j \in JobsOf(i) : status[j] \notin Open}
             S == UNION {JobsOf(i) : i \in E}
  <2>1. /\ UNCHANGED <<retrying, worker, cancelled, writable, healthy>>
        /\ Remove(S)
        /\ items' = [i \in Items |-> IF i \in E THEN "absent" ELSE items[i]]
    BY <1>7 DEF ClearHistory
  <2>2. S \cap RunningJobs = {}
    BY DEF RunningJobs, Open
  <2>3. items' \in [Items -> {"absent", "open", "history"}]
    BY <2>1 DEF IInv, TypeOK
  <2>4. \A j \in Rows \ S : items'[item[j]] # "absent"
    BY <2>1 DEF IInv, NoOrphans, Exists, JobsOf
  <2> QED
    BY <2>1, <2>2, <2>3, <2>4, RemoveIsSafe DEF IInv, TypeOK
<1> QED
  BY <1>1, <1>2, <1>3, <1>4, <1>5, <1>6, <1>7 DEF Web

\* The scanner: it adds items, and removes rows the way the handlers do.
LEMMA ScannerStep == IInv /\ Scanner => IInv'
<1> SUFFICES ASSUME IInv, Scanner PROVE IInv'
  OBVIOUS
<1>1. ASSUME NEW i \in Items, NEW s \in {"open", "history"},
             items' = [items EXCEPT ![i] = s],
             UNCHANGED <<status, item, work, delayed, earlier, retrying, worker,
                         cancelled, writable, healthy>>
      PROVE  IInv'
  <2>1. TypeOK'
    BY <1>1 DEF IInv, TypeOK, worker
  <2>2. NoOrphans'
    BY <1>1 DEF IInv, TypeOK, NoOrphans, Rows, Exists
  <2>3. OpenOnce' /\ WorkerState'
    BY <1>1 DEF IInv, OpenOnce, Open, WorkerState, OneRunning, RunningJobs, worker
  <2> QED
    BY <2>1, <2>2, <2>3 DEF IInv
<1>2. ASSUME NEW i \in Items, AddItem(i)
      PROVE  IInv'
  BY <1>1, <1>2 DEF AddItem
<1>3. ASSUME NEW i \in Items, NEW s \in {"open", "history"}, SetItemStatus(i, s)
      PROVE  IInv'
  BY <1>1, <1>3 DEF SetItemStatus
<1>4. ASSUME NEW i \in Items, RemoveMissingItem(i)
      PROVE  IInv'
  <2>1. UNCHANGED <<retrying, worker, cancelled, writable, healthy>>
    BY <1>4 DEF RemoveMissingItem
  <2>2. ASSUME UNCHANGED items, Remove({j \in JobsOf(i) : status[j] # "done"}),
               JobsOf(i) \cap RunningJobs = {}
        PROVE  IInv'
    BY <2>1, <2>2, RemoveIsSafe DEF IInv, TypeOK, NoOrphans, Exists
  <2>3. ASSUME items' = [items EXCEPT ![i] = "absent"], Remove(JobsOf(i)),
               JobsOf(i) \cap RunningJobs = {}
        PROVE  IInv'
    <3>1. /\ items' \in [Items -> {"absent", "open", "history"}]
          /\ \A k \in Items \ {i} : items'[k] = items[k]
      BY <2>3 DEF IInv, TypeOK
    <3>2. \A j \in Rows \ JobsOf(i) : items'[item[j]] # "absent"
      BY <3>1 DEF IInv, NoOrphans, Exists, JobsOf
    <3> QED
      BY <2>1, <2>3, <3>1, <3>2, RemoveIsSafe DEF IInv, TypeOK
  <2> QED
    BY <1>4, <2>2, <2>3 DEF RemoveMissingItem
<1>5. ASSUME NEW i \in Items, NEW gone \in SUBSET FileWorks, RemoveObsoleteFileJobs(i, gone)
      PROVE  IInv'
  <2> DEFINE S == {j \in JobsOf(i) : work[j] \in gone /\ status[j] \in {"pending", "failed"}}
  <2>1. UNCHANGED <<items, retrying, worker, cancelled, writable, healthy>> /\ Remove(S)
    BY <1>5 DEF RemoveObsoleteFileJobs
  <2>2. S \cap RunningJobs = {}
    BY DEF RunningJobs
  <2> QED
    BY <2>1, <2>2, RemoveIsSafe DEF IInv, TypeOK, NoOrphans, Exists
<1>6. CASE PruneOrphanJobs
  <2> DEFINE S == {j \in Rows : status[j] # "running" /\ ~Exists(item[j])}
  <2>1. UNCHANGED <<items, retrying, worker, cancelled, writable, healthy>> /\ Remove(S)
    BY <1>6 DEF PruneOrphanJobs
  <2>2. S \cap RunningJobs = {}
    BY DEF RunningJobs
  <2> QED
    BY <2>1, <2>2, RemoveIsSafe DEF IInv, TypeOK, NoOrphans, Exists
<1> QED
  BY <1>2, <1>3, <1>4, <1>5, <1>6 DEF Scanner

\* A row of the worker's that keeps its item and work and stays, or stops to
\* be, open: what ClaimNextJob, ResetRunningJobs and Record do to the table.
LEMMA StatusWrites ==
  ASSUME IInv, UNCHANGED <<items, item, work>>,
         status' \in [JobIds -> Statuses],
         \A j \in JobIds : status[j] = "none" => status'[j] = "none",
         \A j \in JobIds : status'[j] \in Open => status[j] \in Open
  PROVE  NoOrphans' /\ OpenOnce'
  BY DEF IInv, NoOrphans, OpenOnce, Rows, Exists, Open, Statuses

\* The worker.
LEMMA WorkerStep == IInv /\ Worker => IInv'
<1> SUFFICES ASSUME IInv, Worker PROVE IInv'
  OBVIOUS
<1> USE DEF rows, worker
<1>1. CASE Start
  BY <1>1, RowsStay DEF Start, IInv, TypeOK, WorkerState, OneRunning, RunningJobs
<1>2. CASE ResetRunningJobs
  <2>1. /\ status' \in [JobIds -> Statuses]
        /\ \A j \in JobIds : \/ status'[j] = status[j]
                             \/ status[j] = "running" /\ status'[j] = "pending"
        /\ ~cancelled => \A j \in JobIds : status'[j] # "running"
    BY <1>2 DEF ResetRunningJobs, IInv, TypeOK, Statuses
  <2>2. NoOrphans' /\ OpenOnce'
    BY <1>2, <2>1, StatusWrites DEF ResetRunningJobs, Open
  <2>3. TypeOK'
    BY <1>2, <2>1 DEF ResetRunningJobs, IInv, TypeOK, Statuses
  <2>4. WorkerState'
    BY <1>2, <2>1 DEF ResetRunningJobs, IInv, WorkerState, OneRunning, RunningJobs
  <2> QED
    BY <2>2, <2>3, <2>4 DEF IInv
<1>3. CASE RefreshHealth
  BY <1>3, RowsStay DEF RefreshHealth, ProbeHealth, IInv, TypeOK, WorkerState, OneRunning, RunningJobs
<1>4. ASSUME NEW j \in JobIds, PruneDoneJob(j)
      PROVE  IInv'
  <2>1. UNCHANGED <<items, retrying, wpc, cur, outcome, cancelled, writable, healthy>>
        /\ {j} \cap RunningJobs = {}
    BY <1>4 DEF PruneDoneJob, RunningJobs
  <2> QED
    BY <1>4, <2>1, RemoveIsSafe DEF PruneDoneJob, IInv, TypeOK, NoOrphans, Exists
<1>5. ASSUME NEW j \in JobIds, ClaimNextJob(j)
      PROVE  IInv'
  <2>1. /\ status' \in [JobIds -> Statuses]
        /\ status[j] = "pending"
        /\ \A k \in JobIds : status'[k] = IF k = j THEN "running" ELSE status[k]
    BY <1>5 DEF ClaimNextJob, Due, IInv, TypeOK, Statuses
  <2>2. NoOrphans' /\ OpenOnce'
    BY <1>5, <2>1, StatusWrites DEF ClaimNextJob, Open
  <2>3. TypeOK'
    BY <1>5, <2>1 DEF ClaimNextJob, IInv, TypeOK, Statuses
  <2>4. WorkerState'
    BY <1>5, <2>1 DEF ClaimNextJob, IInv, WorkerState, OneRunning, RunningJobs
  <2> QED
    BY <2>2, <2>3, <2>4 DEF IInv
<1>6. CASE ClaimNothing
  BY <1>6, RowsStay DEF ClaimNothing, IInv, TypeOK, WorkerState, OneRunning, RunningJobs
<1>7. CASE Succeed \/ HandBack \/ GiveUp \/ Transient
  <2>1. TypeOK'
    BY <1>7 DEF Succeed, HandBack, GiveUp, Transient, Returned, ProbeHealth, IInv, TypeOK
  <2>2. WorkerState'
    BY <1>7 DEF Succeed, HandBack, GiveUp, Transient, Returned, ProbeHealth, IInv,
       WorkerState, OneRunning, RunningJobs
  <2>3. UNCHANGED rows
    BY <1>7 DEF Succeed, HandBack, GiveUp, Transient, Returned, ProbeHealth
  <2> QED
    BY <2>1, <2>2, <2>3, RowsStay
<1>8. CASE Record
  <2>1. /\ cur \in JobIds /\ status[cur] = "running"
        /\ outcome \in {"complete", "fail", "defer", "retry", "handback"}
        /\ \A j \in JobIds : status[j] = "running" => j = cur
    BY <1>8 DEF Record, IInv, TypeOK, WorkerState
  <2>2. /\ status' \in [JobIds -> Statuses]
        /\ \A k \in JobIds \ {cur} : status'[k] = status[k]
        /\ cancelled => status' = status
        /\ ~cancelled => status'[cur] \in {"done", "failed", "pending"}
    BY <1>8, <2>1 DEF Record, IInv, TypeOK, Statuses
  <2>3. delayed' \subseteq JobIds /\ earlier' \subseteq JobIds \X JobIds
    <3>1. /\ Stamped(cur) \subseteq JobIds \X JobIds
          /\ Forget({cur}) \subseteq JobIds \X JobIds
      BY <2>1, StampedType DEF IInv
    <3>2. delayed' \in {delayed, delayed \cup {cur}}
      BY <1>8, <2>1 DEF Record
    <3>3. earlier' \in {earlier, Stamped(cur), Forget({cur})}
      BY <1>8, <2>1 DEF Record
    <3> QED
      BY <2>1, <3>1, <3>2, <3>3 DEF IInv, TypeOK
  <2>4. NoOrphans' /\ OpenOnce'
    BY <1>8, <2>1, <2>2, StatusWrites DEF Record, Open
  <2>5. TypeOK'
    BY <1>8, <2>2, <2>3 DEF Record, IInv, TypeOK, Statuses
  <2>6. WorkerState'
    BY <1>8, <2>1, <2>2 DEF Record, IInv, WorkerState, OneRunning, RunningJobs
  <2> QED
    BY <2>4, <2>5, <2>6 DEF IInv
<1>9. CASE Exit
  BY <1>9, RowsStay DEF Exit, IInv, TypeOK, WorkerState, OneRunning, RunningJobs
<1> QED
  BY <1>1, <1>2, <1>3, <1>4, <1>5, <1>6, <1>7, <1>8, <1>9 DEF Worker

\* Signals, crashes, timers and the share.
LEMMA EnvironmentStep == IInv /\ Environment => IInv'
<1> SUFFICES ASSUME IInv, Environment PROVE IInv'
  OBVIOUS
<1> USE DEF rows, worker
<1>1. CASE Shutdown
  <2>1. TypeOK'
    BY <1>1 DEF Shutdown, IInv, TypeOK
  <2>2. WorkerState'
    BY <1>1 DEF Shutdown, IInv, WorkerState, OneRunning, RunningJobs
  <2> QED
    BY <1>1, <2>1, <2>2, RowsStay DEF Shutdown
<1>4. CASE Crash
  <2>1. TypeOK'
    BY <1>4 DEF Crash, IInv, TypeOK
  <2>2. WorkerState'
    BY <1>4 DEF Crash, IInv, WorkerState, OneRunning, RunningJobs
  <2> QED
    BY <1>4, <2>1, <2>2, RowsStay DEF Crash
<1>3. CASE StorageChanges
  <2>1. TypeOK'
    BY <1>3 DEF StorageChanges, IInv, TypeOK
  <2>2. WorkerState'
    BY <1>3 DEF StorageChanges, IInv, WorkerState, OneRunning, RunningJobs
  <2> QED
    BY <1>3, <2>1, <2>2, RowsStay DEF StorageChanges
<1>2. ASSUME NEW j \in JobIds, BecomeDue(j)
      PROVE  IInv'
  <2>1. TypeOK'
    BY <1>2, StampedType DEF BecomeDue, IInv, TypeOK
  <2>2. NoOrphans' /\ OpenOnce' /\ WorkerState'
    BY <1>2 DEF BecomeDue, IInv, NoOrphans, OpenOnce, Rows, Exists, Open, WorkerState,
       OneRunning, RunningJobs
  <2> QED
    BY <2>1, <2>2 DEF IInv
<1> QED
  BY <1>1, <1>2, <1>3, <1>4 DEF Environment

\* Nothing reads a variable that a stuttering step changes.
LEMMA StutterStep == IInv /\ UNCHANGED vars => IInv'
  BY DEF vars, rows, worker, IInv, TypeOK, NoOrphans, OpenOnce, WorkerState, OneRunning,
     RunningJobs, Rows, Exists, Open

\* The inductive invariant holds in every state the queue reaches.
THEOREM Invariance == Spec => []IInv
<1>1. IInv /\ [Next]_vars => IInv'
  BY WebStep, ScannerStep, WorkerStep, EnvironmentStep, StutterStep DEF Next
<1> QED
  BY <1>1, InitHolds, PTL DEF Spec

----------------------------------------------------------------------------
(* The properties.                                                          *)

\* The tables and the worker's variables keep their types (jobs.go, queue.go).
THEOREM TypeCorrect == Spec => []TypeOK
<1>1. IInv => TypeOK
  BY DEF IInv
<1> QED
  BY <1>1, Invariance, PTL

\* No handler, scan or restart takes the running row from the worker, which
\* runs one job at a time.
THEOREM WorkerKeepsJob == Spec => [](WorkerOwnsJob /\ OneRunning)
<1>1. IInv => WorkerOwnsJob /\ OneRunning
  BY DEF IInv, WorkerState, WorkerOwnsJob, RunningJobs
<1> QED
  BY <1>1, Invariance, PTL

\* After any crash there is at most one running row (ResetRunningJobs).
THEOREM OneJobRuns == Spec => []OneRunning
<1>1. WorkerOwnsJob /\ OneRunning => OneRunning
  OBVIOUS
<1> QED BY <1>1, WorkerKeepsJob, PTL

\* The same work is open at most once per item, through retries, deferrals and
\* restarts (idx_jobs_open_unique).
THEOREM WorkIsOpenOnce == Spec => []OpenOnce
<1>1. IInv => OpenOnce
  BY DEF IInv
<1> QED
  BY <1>1, Invariance, PTL

\* The statements that delete items leave no job behind.
THEOREM JobsHaveItems == Spec => []NoOrphans
<1>1. IInv => NoOrphans
  BY DEF IInv
<1> QED
  BY <1>1, Invariance, PTL

\* Rows stop running by the worker's hand or by the reset at the start only.
THEOREM WorkerEndsJobs == Spec => OnlyWorkerEndsJobs
<1> DEFINE Ends == \A j \in JobIds :
      status[j] = "running" /\ status'[j] # "running" => wpc \in {"boot", "record"}
<1>1. IInv /\ [Next]_vars => Ends
  <2> SUFFICES ASSUME IInv, [Next]_vars, NEW j \in JobIds, status[j] = "running",
                      wpc \notin {"boot", "record"}
               PROVE  status'[j] = "running"
    OBVIOUS
  <2> USE DEF IInv, TypeOK
  <2>0. ASSUME NEW S, Remove(S), j \notin S PROVE status'[j] = "running"
    BY <2>0 DEF Remove
  <2>1. CASE Web
    <3>1. ASSUME NEW k \in JobIds, \/ RetryJob(k)
                                  \/ \E i \in Items, w \in Works : EnqueueJob(i, w, k)
          PROVE  status'[j] = "running"
      BY <3>1 DEF EnqueueJob, RetryJob
    <3>2. ASSUME NEW k \in JobIds, RetryDrop(k) \/ DeleteJob(k)
          PROVE  status'[j] = "running"
      BY <2>0, <3>2 DEF RetryDrop, DeleteJob, RunningJobs
    <3>3. ASSUME NEW i \in Items, DeleteItem(i)
          PROVE  status'[j] = "running"
      BY <2>0, <3>3 DEF DeleteItem, RunningJobs
    <3>4. CASE ClearQueue
      BY <2>0, <3>4 DEF ClearQueue
    <3>5. CASE ClearHistory
      <4> DEFINE S == UNION {JobsOf(i) : i \in {k \in Items :
                        /\ items[k] = "history"
                        /\ \A u \in JobsOf(k) : status[u] \notin Open}}
      <4>1. j \notin S
        BY DEF Open
      <4> QED
        BY <2>0, <3>5, <4>1 DEF ClearHistory
    <3> QED
      BY <2>1, <3>1, <3>2, <3>3, <3>4, <3>5 DEF Web
  <2>2. CASE Scanner
    BY <2>0, <2>2 DEF Scanner, AddItem, SetItemStatus, RemoveMissingItem,
       RemoveObsoleteFileJobs, PruneOrphanJobs, RunningJobs, JobsOf, Rows
  <2>3. CASE Worker
    BY <2>0, <2>3 DEF Worker, Start, ResetRunningJobs, RefreshHealth, PruneDoneJob,
       ClaimNextJob, ClaimNothing, Succeed, HandBack, GiveUp, Transient, Returned, Record,
       Exit, rows
  <2>4. CASE Environment
    BY <2>4 DEF Environment, Shutdown, Crash, StorageChanges, BecomeDue, rows
  <2>5. CASE UNCHANGED vars
    BY <2>5 DEF vars, rows
  <2> QED
    BY <2>1, <2>2, <2>3, <2>4, <2>5 DEF Next
<1>2. IInv /\ [Next]_vars => [Ends]_vars
  BY <1>1
<1> QED
  BY <1>2, Invariance, PTL DEF Spec, OnlyWorkerEndsJobs

\* A job is given up only after a probe that found the storage writable.
THEOREM OutagesFailNothing == Spec => FailsOnlyWhenHealthy
<1> DEFINE Fails == \A j \in JobIds : status[j] # "failed" /\ status'[j] = "failed" => healthy
<1>1. IInv /\ [Next]_vars => Fails
  <2> SUFFICES ASSUME IInv, [Next]_vars, NEW j \in JobIds, status[j] # "failed", ~healthy
               PROVE  status'[j] # "failed"
    BY DEF IInv, TypeOK
  <2> USE DEF IInv, TypeOK
  <2>0. ASSUME NEW S, Remove(S) PROVE status'[j] # "failed"
    BY <2>0 DEF Remove
  <2>1. CASE Web
    BY <2>0, <2>1 DEF Web, EnqueueJob, RetryJob, RetryDrop, DeleteJob, DeleteItem,
       ClearQueue, ClearHistory
  <2>2. CASE Scanner
    BY <2>0, <2>2 DEF Scanner, AddItem, SetItemStatus, RemoveMissingItem,
       RemoveObsoleteFileJobs, PruneOrphanJobs
  <2>3. CASE Record
    BY <2>3 DEF Record, WorkerState
  <2>4. CASE Worker /\ ~Record
    BY <2>0, <2>4 DEF Worker, Start, ResetRunningJobs, RefreshHealth, PruneDoneJob,
       ClaimNextJob, ClaimNothing, Succeed, HandBack, GiveUp, Transient, Returned, Exit, rows
  <2>5. CASE Environment
    BY <2>5 DEF Environment, Shutdown, Crash, StorageChanges, BecomeDue, rows
  <2>6. CASE UNCHANGED vars
    BY <2>6 DEF vars, rows
  <2> QED
    BY <2>1, <2>2, <2>3, <2>4, <2>5, <2>6 DEF Next
<1>2. IInv /\ [Next]_vars => [Fails]_vars
  BY <1>1
<1> QED
  BY <1>2, Invariance, PTL DEF Spec, FailsOnlyWhenHealthy

----------------------------------------------------------------------------
(* The table implements WorkQueue.  That a work ends with its row needs     *)
(* OpenOnce: no second row keeps it open.  That a row can be retried needs  *)
(* NoOrphans, and that rows have works.                                     *)

HasWork == \A j \in Rows : work[j] \in Works

LEMMA HasWorkKeeps == ASSUME IInv, HasWork, [Next]_vars PROVE HasWork'
<1>1. ASSUME NEW S, Remove(S) PROVE HasWork'
  BY <1>1 DEF HasWork, Rows, Remove
<1>2. ASSUME UNCHANGED work, \A j \in JobIds : status[j] = "none" => status'[j] = "none"
      PROVE  HasWork'
  BY <1>2 DEF HasWork, Rows
<1>3. ASSUME NEW i \in Items, NEW w \in Works, NEW j \in JobIds, EnqueueJob(i, w, j)
      PROVE  HasWork'
  <2>1. work'[j] = w /\ \A k \in JobIds \ {j} : status'[k] = status[k] /\ work'[k] = work[k]
    BY <1>3 DEF EnqueueJob, IInv, TypeOK
  <2> QED
    BY <2>1 DEF HasWork, Rows
<1>4. CASE Web
  <2>1. ASSUME NEW j \in JobIds, RetryJob(j) PROVE HasWork'
    BY <1>2, <2>1 DEF RetryJob, IInv, TypeOK
  <2> QED
    BY <1>1, <1>3, <1>4, <2>1 DEF Web, RetryDrop, DeleteJob, DeleteItem, ClearQueue,
       ClearHistory
<1>5. CASE Scanner
  BY <1>1, <1>2, <1>5 DEF Scanner, AddItem, SetItemStatus, RemoveMissingItem,
     RemoveObsoleteFileJobs, PruneOrphanJobs
<1>6. CASE Worker
  <2>1. CASE ResetRunningJobs \/ \E j \in JobIds : ClaimNextJob(j)
    BY <1>2, <2>1 DEF ResetRunningJobs, ClaimNextJob, Due, IInv, TypeOK
  <2>2. CASE Record
    BY <1>2, <2>2 DEF Record, IInv, TypeOK, WorkerState
  <2>3. CASE Worker /\ ~(ResetRunningJobs \/ Record \/ \E j \in JobIds : ClaimNextJob(j))
    BY <1>1, <1>2, <2>3 DEF Worker, Start, RefreshHealth, PruneDoneJob, ClaimNothing,
       Succeed, HandBack, GiveUp, Transient, Returned, Exit, rows
  <2> QED
    BY <1>6, <2>1, <2>2, <2>3
<1>7. CASE Environment \/ UNCHANGED vars
  BY <1>2, <1>7 DEF Environment, Shutdown, Crash, StorageChanges, BecomeDue, vars, rows
<1> QED
  BY <1>4, <1>5, <1>6, <1>7 DEF Next

\* Deleting rows that are not running takes works back.
LEMMA RemovalWithdraws ==
  ASSUME IInv, IInv', NEW S, Remove(S), S \cap RunningJobs = {}, UNCHANGED worker,
         \A i \in Items : Exists(i)' => Exists(i)
  PROVE  Abs!Withdraw
<1>1. \A j \in JobIds : status'[j] = IF j \in S THEN "none" ELSE status[j]
  BY DEF Remove
<1>2. \A j \in JobIds \ S : WorkOf(j)' = WorkOf(j)
  BY DEF Remove, WorkOf
<1>3. openBar' \subseteq openBar
  BY <1>1, <1>2 DEF openBar, OpenRows, Open
<1>4. wpc \in {"busy", "record"} => cur \in OpenRows' /\ WorkOf(cur)' = WorkOf(cur)
  BY <1>1, <1>2 DEF IInv, WorkerState, RunningJobs, OpenRows, Open, worker, WorkOf
<1>5. runningBar' = runningBar /\ runningBar \subseteq openBar'
  BY <1>4 DEF runningBar, openBar, worker
<1>6. \A p \in openBar' : p[1] \in knownBar'
  BY DEF IInv, NoOrphans, openBar, OpenRows, WorkOf, knownBar, Rows, Open
<1>7. knownBar' \subseteq knownBar
  BY DEF knownBar
<1> QED
  BY <1>3, <1>5, <1>6, <1>7 DEF Abs!Withdraw

\* Which of the rows is open is all that counts.
LEMMA NothingSeen ==
  ASSUME UNCHANGED <<item, work>>, \A i \in Items : Exists(i)' <=> Exists(i),
         OpenRows' = OpenRows,
         \/ wpc \in {"busy", "record"} /\ wpc' \in {"busy", "record"} /\ cur' = cur
         \/ wpc \notin {"busy", "record"} /\ wpc' \notin {"busy", "record"}
  PROVE  UNCHANGED <<knownBar, openBar, runningBar>>
<1>1. openBar' = openBar
  BY DEF openBar, WorkOf
<1>2. knownBar' = knownBar
  BY DEF knownBar
<1>3. runningBar' = runningBar
  BY DEF runningBar, WorkOf
<1> QED
  BY <1>1, <1>2, <1>3

LEMMA QueueStep ==
  ASSUME IInv, IInv', HasWork, [Next]_vars
  PROVE  Abs!QueueNext \/ UNCHANGED <<knownBar, openBar, runningBar>>
<1> USE DEF Abs!QueueNext
<1>1. CASE Web
  <2>1. ASSUME NEW i \in Items, NEW w \in Works, NEW j \in JobIds, EnqueueJob(i, w, j)
        PROVE  Abs!Accept(i, w)
    <3>1. /\ \A k \in JobIds : status'[k] = IF k = j THEN "pending" ELSE status[k]
          /\ WorkOf(j)' = <<i, w>>
          /\ \A k \in JobIds \ {j} : WorkOf(k)' = WorkOf(k)
          /\ status[j] = "none" /\ j # cur
      BY <2>1 DEF EnqueueJob, IInv, TypeOK, WorkOf
    <3>2. OpenRows' = OpenRows \cup {j} /\ j \notin OpenRows
      BY <3>1 DEF OpenRows, Open
    <3>3. openBar' = openBar \cup {<<i, w>>}
      BY <3>1, <3>2 DEF openBar, OpenRows
    <3>4. runningBar' = runningBar
      BY <2>1, <3>1 DEF EnqueueJob, runningBar, worker, IInv, WorkerState, WorkOf
    <3>5. i \in knownBar /\ knownBar' = knownBar
      BY <2>1 DEF EnqueueJob, knownBar, Exists
    <3> QED
      BY <3>3, <3>4, <3>5 DEF Abs!Accept
  <2>2. ASSUME NEW j \in JobIds, RetryJob(j), ~HasOpen(item[j], work[j])
        PROVE  Abs!Accept(item[j], work[j]) /\ item[j] \in Items /\ work[j] \in Works
    <3>1. /\ \A k \in JobIds : status'[k] = IF k = j THEN "pending" ELSE status[k]
          /\ UNCHANGED <<items, item, work, wpc, cur>>
      BY <2>2 DEF RetryJob, IInv, TypeOK, worker
    <3>2. OpenRows' = OpenRows \cup {j} /\ \A k \in JobIds : WorkOf(k)' = WorkOf(k)
      BY <3>1 DEF OpenRows, Open, WorkOf
    <3>3. openBar' = openBar \cup {<<item[j], work[j]>>}
      BY <3>2 DEF openBar, OpenRows, WorkOf
    <3>4. runningBar' = runningBar /\ knownBar' = knownBar
      BY <3>1 DEF runningBar, knownBar, Exists, WorkOf
    <3>5. item[j] \in knownBar /\ work[j] \in Works
      BY <2>2 DEF IInv, NoOrphans, HasWork, Rows, RetryJob, knownBar
    <3> QED
      BY <3>3, <3>4, <3>5 DEF Abs!Accept, knownBar
  <2>3. ASSUME NEW j \in JobIds, RetryJob(j), HasOpen(item[j], work[j])
        PROVE  UNCHANGED <<knownBar, openBar, runningBar>>
    <3>1. UNCHANGED <<items, status, item, work, wpc, cur>>
      BY <2>3 DEF RetryJob, worker
    <3> QED
      BY <3>1, NothingSeen DEF Exists, OpenRows
  <2>4. ASSUME NEW j \in JobIds, RetryDrop(j) \/ DeleteJob(j)
        PROVE  Abs!Withdraw
    BY <2>4, RemovalWithdraws DEF RetryDrop, DeleteJob, RunningJobs, Exists
  <2>5. ASSUME NEW i \in Items, DeleteItem(i)
        PROVE  Abs!Withdraw
    <3>1. \A k \in Items : Exists(k)' => Exists(k)
      BY <2>5 DEF DeleteItem, Exists, IInv, TypeOK
    <3> QED
      BY <2>5, <3>1, RemovalWithdraws DEF DeleteItem
  <2>6. CASE ClearQueue
    <3> DEFINE S == {j \in Rows : status[j] \in {"done", "failed"}
                                  \/ (~Exists(item[j]) /\ status[j] # "running")}
    <3>1. S \cap RunningJobs = {} /\ Remove(S) /\ UNCHANGED <<items, worker>>
      BY <2>6 DEF ClearQueue, RunningJobs
    <3> QED
      BY <3>1, RemovalWithdraws DEF Exists
  <2>7. CASE ClearHistory
    <3> DEFINE E == {i \in Items : /\ items[i] = "history"
                                   /\ \A j \in JobsOf(i) : status[j] \notin Open}
               S == UNION {JobsOf(i) : i \in E}
    <3>1. /\ Remove(S) /\ UNCHANGED worker
          /\ items' = [i \in Items |-> IF i \in E THEN "absent" ELSE items[i]]
      BY <2>7 DEF ClearHistory
    <3>2. S \cap RunningJobs = {}
      BY DEF RunningJobs, Open
    <3>3. \A k \in Items : Exists(k)' => Exists(k)
      BY <3>1 DEF Exists
    <3> QED
      BY <3>1, <3>2, <3>3, RemovalWithdraws
  <2> QED
    BY <1>1, <2>1, <2>2, <2>3, <2>4, <2>5, <2>6, <2>7 DEF Web
<1>2. CASE Scanner
  <2>1. ASSUME NEW i \in Items, AddItem(i)
        PROVE  Abs!Register(i)
    <3>1. i \notin knownBar /\ knownBar' = knownBar \cup {i}
      BY <2>1 DEF AddItem, knownBar, Exists, IInv, TypeOK
    <3>2. openBar' = openBar /\ runningBar' = runningBar
      BY <2>1 DEF AddItem, openBar, runningBar, OpenRows, WorkOf, worker
    <3> QED
      BY <3>1, <3>2 DEF Abs!Register
  <2>2. ASSUME NEW i \in Items, NEW s \in {"open", "history"}, SetItemStatus(i, s)
        PROVE  UNCHANGED <<knownBar, openBar, runningBar>>
    <3>1. \A k \in Items : Exists(k)' <=> Exists(k)
      BY <2>2 DEF SetItemStatus, Exists, IInv, TypeOK
    <3> QED
      BY <2>2, <3>1, NothingSeen DEF SetItemStatus, OpenRows, worker
  <2>3. ASSUME NEW i \in Items, RemoveMissingItem(i)
        PROVE  Abs!Withdraw
    <3>1. \A k \in Items : Exists(k)' => Exists(k)
      BY <2>3 DEF RemoveMissingItem, Exists, IInv, TypeOK
    <3>2. ASSUME NEW T, Remove({j \in JobsOf(i) : j \in T}), JobsOf(i) \cap RunningJobs = {}
          PROVE  {j \in JobsOf(i) : j \in T} \cap RunningJobs = {}
      BY <3>2
    <3> QED
      BY <2>3, <3>1, RemovalWithdraws DEF RemoveMissingItem
  <2>4. ASSUME NEW i \in Items, NEW gone \in SUBSET FileWorks, RemoveObsoleteFileJobs(i, gone)
        PROVE  Abs!Withdraw
    <3> DEFINE S == {j \in JobsOf(i) : work[j] \in gone /\ status[j] \in {"pending", "failed"}}
    <3>1. S \cap RunningJobs = {} /\ Remove(S) /\ UNCHANGED <<items, worker>>
      BY <2>4 DEF RemoveObsoleteFileJobs, RunningJobs
    <3> QED
      BY <3>1, RemovalWithdraws DEF Exists
  <2>5. CASE PruneOrphanJobs
    <3> DEFINE S == {j \in Rows : status[j] # "running" /\ ~Exists(item[j])}
    <3>1. S \cap RunningJobs = {} /\ Remove(S) /\ UNCHANGED <<items, worker>>
      BY <2>5 DEF PruneOrphanJobs, RunningJobs
    <3> QED
      BY <3>1, RemovalWithdraws DEF Exists
  <2> QED
    BY <1>2, <2>1, <2>2, <2>3, <2>4, <2>5 DEF Scanner
<1>3. CASE Worker
  <2> DEFINE Same == UNCHANGED <<knownBar, openBar, runningBar>>
  <2>1. CASE Start \/ RefreshHealth \/ ClaimNothing \/ Exit
             \/ Succeed \/ HandBack \/ GiveUp \/ Transient
    <3>1. UNCHANGED <<items, status, item, work>>
      BY <2>1 DEF Start, RefreshHealth, ClaimNothing, Exit, Succeed, HandBack, GiveUp,
         Transient, Returned, rows
    <3>2. \/ wpc \in {"busy", "record"} /\ wpc' \in {"busy", "record"} /\ cur' = cur
          \/ wpc \notin {"busy", "record"} /\ wpc' \notin {"busy", "record"}
      BY <2>1 DEF Start, RefreshHealth, ClaimNothing, Exit, Succeed, HandBack, GiveUp,
         Transient, Returned
    <3> QED
      BY <3>1, <3>2, NothingSeen DEF Exists, OpenRows
  <2>2. CASE ResetRunningJobs
    <3>1. OpenRows' = OpenRows
      BY <2>2 DEF ResetRunningJobs, OpenRows, Open
    <3> QED
      BY <2>2, <3>1, NothingSeen DEF ResetRunningJobs, Exists
  <2>3. ASSUME NEW j \in JobIds, PruneDoneJob(j)
        PROVE  Abs!Withdraw
    BY <2>3, RemovalWithdraws DEF PruneDoneJob, RunningJobs, Exists
  <2>4. ASSUME NEW j \in JobIds, ClaimNextJob(j)
        PROVE  WorkOf(j) \in openBar /\ Abs!Begin(WorkOf(j))
    <3>1. OpenRows' = OpenRows /\ j \in OpenRows
      BY <2>4 DEF ClaimNextJob, Due, OpenRows, Open, IInv, TypeOK
    <3>2. openBar' = openBar /\ WorkOf(j) \in openBar
      BY <2>4, <3>1 DEF ClaimNextJob, openBar, WorkOf
    <3>3. runningBar = {} /\ runningBar' = {WorkOf(j)}
      BY <2>4 DEF ClaimNextJob, runningBar, WorkOf
    <3>4. knownBar' = knownBar
      BY <2>4 DEF ClaimNextJob, knownBar, Exists
    <3> QED
      BY <3>2, <3>3, <3>4 DEF Abs!Begin
  <2>5. CASE Record
    <3>1. /\ cur \in JobIds /\ cur \in OpenRows
          /\ outcome \in {"complete", "fail", "defer", "retry", "handback"}
      BY <2>5 DEF Record, IInv, TypeOK, WorkerState, OpenRows, Open
    <3>2. /\ runningBar = {WorkOf(cur)} /\ runningBar' = {} /\ knownBar' = knownBar
          /\ \A j \in JobIds : WorkOf(j)' = WorkOf(j)
      BY <2>5 DEF Record, runningBar, knownBar, Exists, WorkOf
    <3>3. CASE cancelled \/ outcome \in {"defer", "retry", "handback"}
      <4>1. OpenRows' = OpenRows
        BY <2>5, <3>1, <3>3 DEF Record, OpenRows, Open, IInv, TypeOK
      <4>2. openBar' = openBar
        BY <3>2, <4>1 DEF openBar, OpenRows
      <4> QED
        BY <3>2, <4>2 DEF Abs!Return
    <3>4. CASE ~cancelled /\ outcome \in {"complete", "fail"}
      <4>1. OpenRows' = OpenRows \ {cur}
        BY <2>5, <3>1, <3>4 DEF Record, OpenRows, Open, IInv, TypeOK
      <4>2. \A j \in OpenRows \ {cur} : WorkOf(j) # WorkOf(cur)
        BY <3>1 DEF IInv, OpenOnce, OpenRows, WorkOf
      <4>3. openBar' = openBar \ {WorkOf(cur)}
        BY <3>1, <3>2, <4>1, <4>2 DEF openBar, OpenRows
      <4> QED
        BY <3>2, <4>3 DEF Abs!Finish
    <3> QED
      BY <3>1, <3>3, <3>4
  <2> QED
    BY <1>3, <2>1, <2>2, <2>3, <2>4, <2>5 DEF Worker
<1>4. CASE Environment
  <2>1. CASE Crash
    <3>1. UNCHANGED <<items, status, item, work>> /\ wpc' = "off"
      BY <2>1 DEF Crash, rows
    <3>2. UNCHANGED <<knownBar, openBar>> /\ runningBar' = {}
      BY <3>1 DEF knownBar, Exists, openBar, OpenRows, WorkOf, runningBar
    <3>3. runningBar = {} \/ Abs!Return
      BY <3>2 DEF Abs!Return
    <3> QED
      BY <3>2, <3>3
  <2>2. CASE Shutdown \/ StorageChanges \/ \E j \in JobIds : BecomeDue(j)
    <3>1. UNCHANGED <<items, status, item, work, wpc, cur>>
      BY <2>2 DEF Shutdown, StorageChanges, BecomeDue, rows, worker
    <3> QED
      BY <3>1, NothingSeen DEF Exists, OpenRows
  <2> QED
    BY <1>4, <2>1, <2>2 DEF Environment
<1>5. CASE UNCHANGED vars
  <2>1. UNCHANGED <<items, status, item, work, wpc, cur>>
    BY <1>5 DEF vars, rows, worker
  <2> QED
    BY <2>1, NothingSeen DEF Exists, OpenRows
<1> QED
  BY <1>1, <1>2, <1>3, <1>4, <1>5 DEF Next

\* Handlers, scanner, worker, crashes and restarts together do to the table only
\* what WorkQueue allows (jobs.go, queue.go, reconcile.go).
THEOREM QueueKeepsWorks == Spec => ImplementsWorkQueue
<1>1. Init => HasWork /\ Abs!QueueInit
  BY DEF Init, HasWork, Rows, Abs!QueueInit, knownBar, Exists, openBar, OpenRows, Open,
     runningBar
<1>2. IInv /\ HasWork /\ [Next]_vars => HasWork'
  BY HasWorkKeeps
<1>3. IInv /\ IInv' /\ HasWork /\ [Next]_vars => [Abs!QueueNext]_(Abs!queueVars)
  BY QueueStep DEF Abs!queueVars
<1> QED
  BY <1>1, <1>2, <1>3, Invariance, PTL DEF Spec, ImplementsWorkQueue, Abs!QueueSpec
=============================================================================
