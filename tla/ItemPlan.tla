------------------------------ MODULE ItemPlan ------------------------------
(***************************************************************************)
(* The life of one item (internal/engine): a source entry is found, a plan *)
(* is made for its files by the AI and the user, collisions are detected,  *)
(* and the plan is executed - by the queue's worker or, for a confident    *)
(* classification, by the scanner - while the user goes on deciding, the   *)
(* list is refreshed and the process may die.                              *)
(*                                                                         *)
(* A step is what no other actor can observe the inside of: a handler that *)
(* only touches the database runs under the item lock and is one step; the *)
(* execution of a plan is one step per call of the mover and per row       *)
(* written, because the files and the row are two stores and the process   *)
(* may stop between them.  The whole row is written each time (UpsertItem) *)
(* from the copy loaded when the lock was taken.                           *)
(*                                                                         *)
(* The jobs table is the set of the item's open works; JobQueue has the    *)
(* rows, their order and their retries.                                    *)
(***************************************************************************)
EXTENDS FilePlan, FiniteSets

CONSTANTS
  Others,    \* what is in the library at first
  Requests,  \* the works the user may queue
  Events     \* what a run lets happen beside the ordinary course

FileJobs == {"file"} \X Entry \X {"move", "delete"}
ASSUME RequestsAssumption ==
  Requests \subseteq {<<"plan">>, <<"reclassify">>, <<"folder">>} \cup FileJobs
ASSUME OthersAssumption == Nothing \notin Files \cup Others /\ Others \cap Files = {}

VARIABLES
  status,    \* items.status; "absent" when there is no row
  target,    \* items.target_path
  typed,     \* items.detected_type is set
  files,     \* items.files
  src,       \* the files in the source folder
  folder,    \* the source folder exists
  lib,       \* the library
  jobs,      \* open works of this item
  wpc, job,  \* the worker: where it is, and which work it has claimed
  snap,      \* the plan a conflict scan has read, with what it found
  attempt,   \* of the conflict scan
  epc, mem,  \* the execution of a plan, and the copy of the row it works on
  agreed     \* history: what the user agreed that each file may replace

row == <<status, target, typed, files>>
disk == <<src, folder, lib>>
scan == <<snap, attempt>>
exec == <<epc, mem>>
vars == <<row, disk, jobs, wpc, job, scan, exec, agreed>>

Actions == {"move", "delete", "keep"}
Unlisted == Listed({})
NoCopy == [files |-> Unlisted, status |-> "absent"]

Locked == epc # "idle"          \* somebody holds the item lock
ByWorker == wpc = "hold"        \* and it is the worker
OneFile == ByWorker /\ job[1] = "file"
History == {"confirmed", "auto_moved", "rejected"}

Init ==
  /\ status = "absent" /\ target = NoDir /\ typed = FALSE /\ files = Unlisted
  /\ src \in SUBSET Files /\ folder = TRUE
  /\ lib \in {l \in [Paths -> Others \cup {Nothing}] :
                \A p, q \in Paths : l[p] = l[q] /\ l[p] # Nothing => p = q}
  /\ jobs = {} /\ wpc = "idle" /\ job = <<"none">>
  /\ snap = Unlisted /\ attempt = 0
  /\ epc = "idle" /\ mem = NoCopy
  /\ agreed = [f \in Entry |-> Nothing]

----------------------------------------------------------------------------
(* The user.  The handlers wait for the lock for a moment and give up.      *)

Reviewed == IF status = "error" THEN "pending_review" ELSE status

PlanFileAction(f, a) ==
  /\ ~Locked /\ f \in DOMAIN files /\ ~files[f].done
  /\ files' = PlanOne(files, f, a, target)
  /\ status' = Reviewed
  /\ jobs' = jobs \cup {<<"detect">>}
  /\ UNCHANGED <<target, typed, disk, wpc, job, scan, exec, agreed>>

SetItemTarget(d) ==
  /\ ~Locked /\ status # "absent"
  /\ target' = d
  /\ files' = RouteTo(files, d)
  /\ status' = Reviewed
  /\ jobs' = jobs \cup {<<"detect">>}
  /\ UNCHANGED <<typed, disk, wpc, job, scan, exec, agreed>>

\* "replace" and "keep"; no scan follows.
ResolveConflict(f) ==
  /\ ~Locked /\ f \in DOMAIN files /\ files[f].conflict # NoPath
  /\ \/ /\ "replace" \in Events
        /\ files' = Replace(files, f)
        /\ agreed' = [agreed EXCEPT ![f] = lib[files[f].conflict]]
     \/ /\ "give_way" \in Events
        /\ files' = GiveWay(files, f)
        /\ UNCHANGED agreed
  /\ UNCHANGED <<status, target, typed, disk, jobs, wpc, job, scan, exec>>

\* handleConfirmItem, handleFileAction, handleReclassifyItem and
\* handleCreateItemFolder only queue the work, whatever the item's state is.
Enqueue(w) ==
  /\ status # "absent"
  /\ jobs' = jobs \cup {w}
  /\ UNCHANGED <<row, disk, wpc, job, scan, exec, agreed>>

\* RejectItem takes no lock.
RejectItem ==
  /\ "reject" \in Events /\ status # "absent"
  /\ status' = "rejected"
  /\ UNCHANGED <<target, typed, files, disk, jobs, wpc, job, scan, exec, agreed>>

----------------------------------------------------------------------------
(* The execution of a plan, by the holder of the lock.                      *)

\* What comes next: the file's turn begins with what it replaces.
Stage(f, a, plan) == IF a = "move" /\ plan[f].over THEN "replace" ELSE "act"
Turn(plan) ==
  IF Pending(plan) = {} THEN "cleanup"
  ELSE LET f == First(Pending(plan)) IN Stage(f, plan[f].action, plan)

Current == IF OneFile THEN job[2] ELSE First(Pending(mem.files))
Doing == IF OneFile THEN job[3] ELSE mem.files[Current].action
Destination == IF mem.files[Current].dest = NoPath THEN DestIn(Current, target)
               ELSE mem.files[Current].dest

Unlock == epc' = "idle" /\ mem' = NoCopy
WorkerEnds(how) == wpc' = IF ByWorker THEN how ELSE wpc

\* execFile failed: what has been done is kept, the row says "error", and the
\* error decides whether the job comes back.
Abort(how) ==
  /\ files' = mem.files /\ status' = "error"
  /\ Unlock /\ WorkerEnds(how)
  /\ UNCHANGED <<target, typed, folder, jobs, job, scan, agreed>>

\* execFile: the colliding file goes first.
RemoveExisting ==
  /\ epc = "replace"
  /\ LET gone == IF mem.files[Current].overPath = NoPath THEN Destination
                 ELSE mem.files[Current].overPath
     IN lib' = IF gone = NoPath THEN lib ELSE [lib EXCEPT ![gone] = Nothing]
  /\ epc' = "act"
  /\ UNCHANGED <<row, src, folder, jobs, wpc, job, scan, mem, agreed>>

\* The file is done; only the copy knows it yet.
Did(a, d) ==
  /\ mem' = [mem EXCEPT !.files[Current] =
       IF a = "move" THEN [Planned("move", d) EXCEPT !.done = TRUE]
       ELSE [@ EXCEPT !.action = a, !.done = TRUE]]
  /\ epc' = IF OneFile THEN "cleanup" ELSE "persist"

\* Mutant: Move reports success although the source could not be removed.
MoveKeepsSource ==
  /\ epc = "act" /\ Doing = "move"
  /\ Destination # NoPath /\ lib[Destination] = Nothing /\ Current \in src
  /\ lib' = [lib EXCEPT ![Destination] = Current]
  /\ Did("move", Destination)
  /\ UNCHANGED <<row, src, folder, jobs, wpc, job, scan, agreed>>

\* Mutant: Move renames over what exists.
MoveOverwrites ==
  /\ epc = "act" /\ Doing = "move"
  /\ Destination # NoPath /\ Current \in src
  /\ src' = src \ {Current}
  /\ lib' = [lib EXCEPT ![Destination] = Current]
  /\ Did("move", Destination)
  /\ UNCHANGED <<row, folder, jobs, wpc, job, scan, agreed>>

\* mover.Move: whatever error Lstat returns, the destination counts as free.
Blind == "blind" \in Events
SeemsFree == Destination # NoPath /\ (lib[Destination] = Nothing \/ Blind)

MoveFile ==
  /\ epc = "act" /\ Doing = "move" /\ SeemsFree /\ Current \in src
  /\ src' = src \ {Current}
  /\ lib' = [lib EXCEPT ![Destination] = Current]
  /\ Did("move", Destination)
  /\ UNCHANGED <<row, folder, jobs, wpc, job, scan, agreed>>

\* Move finds nothing to move, or there is no destination: permanent errors.
\* It finds the destination taken: an error like any other.  When it tries a copy
\* of what is not there, it removes what is at the destination.
MoveRefused ==
  /\ epc = "act" /\ Doing = "move"
  /\ \/ Destination = NoPath /\ Abort("ended") /\ UNCHANGED lib
     \/ /\ Destination # NoPath /\ lib[Destination] # Nothing
        /\ Abort("again") /\ UNCHANGED lib
     \/ /\ SeemsFree /\ Current \notin src
        /\ Abort("ended") /\ lib' \in {lib, [lib EXCEPT ![Destination] = Nothing]}
  /\ UNCHANGED src

\* Mutant: the source path of the item is taken for that of the file.
DeleteWhole ==
  /\ epc = "act" /\ Doing = "delete"
  /\ src' = {} /\ folder' = FALSE
  /\ Did("delete", NoPath)
  /\ UNCHANGED <<row, lib, jobs, wpc, job, scan, agreed>>

\* Deleting what is gone succeeds; the empty path is the folder itself.
DeleteFile ==
  /\ epc = "act" /\ Doing = "delete"
  /\ src' = IF Current = Root THEN {} ELSE src \ {Current}
  /\ folder' = (folder /\ Current # Root)
  /\ Did("delete", NoPath)
  /\ UNCHANGED <<row, lib, jobs, wpc, job, scan, agreed>>

\* The storage fails: nothing happens, or a copy whose source could not be
\* removed stays behind.  A copy onto what Lstat did not see fails, and Move
\* removes what is there.
StorageFails ==
  /\ epc \in {"replace", "act"}
  /\ \/ "hiccup" \in Events /\ UNCHANGED lib
     \/ /\ "hiccup" \in Events /\ epc = "act" /\ Doing = "move" /\ Current \in src
        /\ Destination # NoPath /\ lib[Destination] = Nothing
        /\ lib' = [lib EXCEPT ![Destination] = Current]
     \/ /\ Blind /\ epc = "act" /\ Doing = "move" /\ Current \in src
        /\ Destination # NoPath
        /\ lib' = [lib EXCEPT ![Destination] = Nothing]
  /\ Abort("again")
  /\ UNCHANGED src

\* executePlan: every completed file is persisted.
Persist ==
  /\ epc = "persist"
  /\ files' = mem.files /\ status' = mem.status
  /\ epc' = Turn(mem.files)
  /\ UNCHANGED <<target, typed, disk, jobs, wpc, job, scan, mem, agreed>>

\* finalize: an emptied folder is removed once nothing is left to do.
Cleanup ==
  /\ epc = "cleanup"
  /\ folder' = (folder /\ (src # {} \/ Pending(mem.files) # {}))
  /\ epc' = "confirm"
  /\ UNCHANGED <<row, src, lib, jobs, wpc, job, scan, mem, agreed>>

\* Mutant: the status that was loaded is written back.
ConfirmUnchanged ==
  /\ epc = "confirm"
  /\ files' = mem.files /\ status' = mem.status
  /\ Unlock /\ WorkerEnds("ended")
  /\ UNCHANGED <<target, typed, disk, jobs, job, scan, agreed>>

\* The last write, and the lock is free again.
Confirm ==
  /\ epc = "confirm"
  /\ files' = mem.files
  /\ status' = IF ~ByWorker THEN "auto_moved"
               ELSE IF Pending(mem.files) = {} THEN "confirmed" ELSE mem.status
  /\ Unlock /\ WorkerEnds("ended")
  /\ UNCHANGED <<target, typed, disk, jobs, job, scan, agreed>>

Execution ==
  \/ RemoveExisting \/ MoveFile \/ MoveRefused \/ DeleteFile
  \/ Persist \/ Cleanup \/ Confirm

----------------------------------------------------------------------------
(* The worker.                                                              *)

Claim(w) ==
  /\ wpc = "idle" /\ w \in jobs
  /\ job' = w /\ wpc' = "start"
  /\ UNCHANGED <<row, disk, jobs, scan, exec, agreed>>

Starts(kind) == wpc = "start" /\ job[1] = kind

\* The engine refuses for a reason outside this model (What-If is on, a target
\* folder is gone, the AI or the storage is not available) or the item is gone.
Refused ==
  /\ wpc = "start"
  /\ status = "absent" \/ (~Locked /\ "hiccup" \in Events)
  /\ wpc' \in IF status = "absent" THEN {"ended"} ELSE {"ended", "again"}
  /\ attempt' = 0
  /\ UNCHANGED <<row, disk, jobs, job, snap, exec, agreed>>

\* listDestEntries: a folder that cannot be read looks empty.
Nowhere == [p \in Paths |-> Nothing]
Listings == {lib} \cup IF "unreadable" \in Events THEN {Nowhere} ELSE {}

\* ApplyPlan up to the first file: the checks, the authoritative re-scan.
ApplyPlan(listing) ==
  LET found == DetectConflicts(files, listing)
  IN /\ Starts("plan") /\ ~Locked /\ status # "absent"
     /\ \/ /\ Pending(files) = {} \/ Homeless(files) # {}
           /\ wpc' = "ended"
           /\ UNCHANGED <<status, files, exec>>
        \/ /\ Pending(files) # {} /\ Homeless(files) = {} /\ Conflicted(found) # {}
           /\ files' = found
           /\ wpc' = "ended"
           /\ UNCHANGED <<status, exec>>
        \/ /\ Pending(files) # {} /\ Homeless(files) = {} /\ Conflicted(found) = {}
           /\ status' = "moving"
           /\ mem' = [files |-> found, status |-> status]
           /\ epc' = Turn(found)
           /\ wpc' = "hold"
           /\ UNCHANGED files
     /\ UNCHANGED <<target, typed, disk, jobs, job, scan, agreed>>

\* ApplyFileAction up to the file: there is no check but that it is listed.
ApplyFileAction ==
  /\ Starts("file") /\ ~Locked /\ status # "absent"
  /\ IF job[2] \notin DOMAIN files
     THEN wpc' = "ended" /\ UNCHANGED exec
     ELSE /\ mem' = [files |-> files, status |-> status]
          /\ epc' = Stage(job[2], job[3], files)
          /\ wpc' = "hold"
  /\ UNCHANGED <<row, disk, jobs, job, scan, agreed>>

\* DetectItemConflicts reads the item and the folders without the lock.
ScanConflicts(listing) ==
  /\ Starts("detect") /\ status # "absent"
  /\ snap' = DetectConflicts(files, listing)
  /\ attempt' = attempt + 1
  /\ wpc' = "merge"
  /\ UNCHANGED <<row, disk, jobs, job, exec, agreed>>

\* Mutant: the scan is repeated as long as the plan changes.
MergeForever ==
  /\ wpc = "merge" /\ ~Locked
  /\ IF status # "absent" /\ SamePlan(files, snap)
     THEN /\ files' = [f \in DOMAIN files |->
                         [files[f] EXCEPT !.conflict = snap[f].conflict]]
          /\ wpc' = "ended"
     ELSE /\ wpc' = IF status = "absent" THEN "ended" ELSE "start"
          /\ UNCHANGED files
  /\ snap' = Unlisted /\ attempt' = 0
  /\ UNCHANGED <<status, target, typed, disk, jobs, job, exec, agreed>>

\* mergeConflicts, under the lock; conflictScanAttempts is 3.
MergeConflicts ==
  /\ wpc = "merge" /\ ~Locked
  /\ IF status # "absent" /\ SamePlan(files, snap)
     THEN /\ files' = [f \in DOMAIN files |->
                         [files[f] EXCEPT !.conflict = snap[f].conflict]]
          /\ wpc' = "ended"
     ELSE /\ wpc' = IF status = "absent" \/ attempt = 3 THEN "ended" ELSE "start"
          /\ UNCHANGED files
  /\ snap' = Unlisted
  /\ attempt' = IF wpc' = "ended" THEN 0 ELSE attempt
  /\ UNCHANGED <<status, target, typed, disk, jobs, job, exec, agreed>>

\* ReclassifyItem: only the AI's answer for what is not done counts.
ReclassifyItem(decisions, d) ==
  LET listed == Reconcile(files, src)
  IN /\ Starts("reclassify") /\ ~Locked /\ status # "absent"
     /\ IF folder /\ src # {}
        THEN /\ files' = DetectConflicts(Decided(listed, decisions, d), lib)
             /\ target' = d /\ typed' = TRUE /\ status' = "pending_review"
        ELSE UNCHANGED row
     /\ wpc' = "ended"
     /\ UNCHANGED <<disk, jobs, job, scan, exec, agreed>>

\* CreateTargetFolder, CreateNamedTargetFolder: applyNewFolder.
CreateTargetFolder(d) ==
  /\ Starts("folder") /\ ~Locked /\ status # "absent"
  /\ target' = d
  /\ files' = DetectConflicts(RouteTo(files, d), lib)
  /\ status' = Reviewed
  /\ wpc' = "ended"
  /\ UNCHANGED <<typed, disk, jobs, job, scan, exec, agreed>>

\* The worker writes the outcome into the jobs table.
Record ==
  /\ wpc \in {"ended", "again"}
  /\ jobs' = IF wpc = "ended" THEN jobs \ {job} ELSE jobs
  /\ wpc' = "idle" /\ job' = <<"none">>
  /\ UNCHANGED <<row, disk, scan, exec, agreed>>

----------------------------------------------------------------------------
(* The scanner.                                                             *)

\* processCandidate on an entry that is new, or was found before an AI endpoint
\* was configured.
Candidate ==
  /\ ~Locked /\ folder
  /\ status = "absent" \/ (status = "pending_review" /\ ~typed)

NewRow(s, t, plan, d) == status' = s /\ typed' = t /\ files' = plan /\ target' = d

FindWithoutAI ==
  /\ Candidate
  /\ IF src = {} THEN NewRow("pending_review", TRUE, EmptyFolder, NoDir)
     ELSE /\ status = "absent"
          /\ NewRow("pending_review", FALSE, Listed(src), NoDir)
  /\ UNCHANGED <<disk, jobs, wpc, job, scan, exec, agreed>>

ClassifyFails ==
  /\ Candidate /\ src # {} /\ "hiccup" \in Events
  /\ NewRow("error", FALSE, Listed(src), NoDir)
  /\ UNCHANGED <<disk, jobs, wpc, job, scan, exec, agreed>>

\* A confident answer without collisions is executed at once.
Classify(decisions, d) ==
  LET plan == DetectConflicts(Decided(Listed(src), decisions, d), lib)
  IN /\ Candidate /\ src # {}
     /\ \/ /\ NewRow("pending_review", TRUE, plan, d)
           /\ UNCHANGED exec
        \/ /\ "auto" \in Events /\ d # NoDir
           /\ Movable(plan) # {} /\ Conflicted(plan) = {}
           /\ NewRow("moving", TRUE, plan, d)
           /\ mem' = [files |-> plan, status |-> "moving"]
           /\ epc' = Turn(plan)
     /\ UNCHANGED <<disk, jobs, wpc, job, scan, agreed>>

\* ... and leftovers of what is no longer in review.
SweepLeftover ==
  /\ ~Locked /\ folder /\ src = {}
  /\ status \in History \cup {"moving"}
  /\ folder' = FALSE
  /\ UNCHANGED <<row, src, lib, jobs, wpc, job, scan, exec, agreed>>

\* refreshItem, when the lock is free: RemoveMissingItem, or
\* RemoveObsoleteFileJobs and reconcileFiles.
Running == IF wpc = "idle" THEN {} ELSE {job}
StillThere(w) ==  \* the file of job w is listed and unchanged
  w \in FileJobs => \/ w[2] \in src /\ w[2] \in DOMAIN files /\ ~files[w[2]].done
                    \/ w[2] = Root /\ src = {}
\* Mutant: the works of an item whose folder is gone are dropped, and the jobs of
\* its changed files, whatever the worker has claimed.
RefreshUnderWorker ==
  /\ ~Locked /\ status # "absent"
  /\ \/ /\ ~folder
        /\ jobs' = {}
        /\ IF status \in History THEN UNCHANGED row
           ELSE NewRow("absent", FALSE, Unlisted, NoDir)
     \/ /\ folder /\ status \notin History
        /\ jobs' = {w \in jobs : StillThere(w)}
        /\ files' = Reconcile(files, src)
        /\ UNCHANGED <<status, target, typed>>
  /\ UNCHANGED <<disk, wpc, job, scan, exec, agreed>>

RefreshItem ==
  /\ ~Locked /\ status # "absent"
  /\ \/ /\ ~folder /\ Running = {}
        /\ jobs' = {}
        /\ IF status \in History THEN UNCHANGED row
           ELSE NewRow("absent", FALSE, Unlisted, NoDir)
     \/ /\ folder /\ status \notin History
        /\ jobs' = {w \in jobs : StillThere(w) \/ w \in Running}
        /\ files' = Reconcile(files, src)
        /\ UNCHANGED <<status, target, typed>>
  /\ UNCHANGED <<disk, wpc, job, scan, exec, agreed>>

----------------------------------------------------------------------------
(* The environment.                                                         *)

\* The process dies, or its context ends and every later write fails; after
\* the restart the running job is pending again.
Crash ==
  /\ "crash" \in Events /\ (Locked \/ wpc # "idle")
  /\ wpc' = "idle" /\ job' = <<"none">>
  /\ snap' = Unlisted /\ attempt' = 0 /\ Unlock
  /\ UNCHANGED <<row, disk, jobs, agreed>>

\* A further file is downloaded into the folder.
Present == src \cup {lib[p] : p \in Paths}
Arrive(f) ==
  /\ "arrival" \in Events /\ folder
  /\ f \notin Present \cup DOMAIN files
  /\ src' = src \cup {f}
  /\ UNCHANGED <<row, folder, lib, jobs, wpc, job, scan, exec, agreed>>

----------------------------------------------------------------------------
User ==
  \/ \E f \in DOMAIN files, a \in Actions : PlanFileAction(f, a)
  \/ \E d \in Dirs : SetItemTarget(d)
  \/ \E f \in DOMAIN files : ResolveConflict(f)
  \/ \E w \in Requests : Enqueue(w)
  \/ RejectItem

Work ==
  \/ \E w \in jobs : Claim(w)
  \/ Refused \/ ApplyFileAction \/ MergeConflicts
  \/ \E listing \in Listings : ApplyPlan(listing) \/ ScanConflicts(listing)
  \/ \E c \in [Files -> Actions], d \in Dirs \cup {NoDir} : ReclassifyItem(c, d)
  \/ \E d \in Dirs : CreateTargetFolder(d)
  \/ Record

Scanner ==
  \/ FindWithoutAI \/ ClassifyFails \/ SweepLeftover \/ RefreshItem
  \/ \E c \in [Files -> Actions], d \in Dirs \cup {NoDir} : Classify(c, d)

Environment == Crash \/ StorageFails \/ \E f \in Files : Arrive(f)

Next == User \/ Execution \/ Work \/ Scanner \/ Environment

\* The worker's goroutine and the scanner's run on; calls return.  A user who
\* changes the plan for ever can starve nobody: the lock queue is fair
\* (ItemLocks), and a handler holds it for one step.
Fairness ==
  /\ WF_vars(Execution)
  /\ \A w \in Requests \cup {<<"detect">>} : SF_vars(Claim(w))
  /\ SF_vars(wpc # "idle" /\ Work)

Spec == Init /\ [][Next]_vars
FairSpec == Spec /\ Fairness

----------------------------------------------------------------------------
TypeOK ==
  /\ status \in History \cup {"absent", "pending_review", "moving", "error"}
  /\ target \in Dirs \cup {NoDir} /\ typed \in BOOLEAN
  /\ \A plan \in {files, snap, mem.files} :
       DOMAIN plan \subseteq Entry /\ plan \in [DOMAIN plan -> FileRec]
  /\ src \subseteq Files /\ folder \in BOOLEAN
  /\ lib \in [Paths -> Files \cup Others \cup {Nothing}]
  /\ jobs \subseteq Requests \cup {<<"detect">>}
  /\ wpc \in {"idle", "start", "merge", "hold", "ended", "again"}
  /\ job \in jobs \cup {<<"none">>} /\ attempt \in 0..3
  /\ epc \in {"idle", "replace", "act", "persist", "cleanup", "confirm"}
  /\ mem.status \in History \cup {"absent", "pending_review", "moving", "error"}
  /\ agreed \in [Entry -> Files \cup Others \cup {Nothing}]

\* Nothing is destroyed without a decision that stands in the database at that
\* moment: a file of the item is to be deleted, or the user agreed that this
\* very content be replaced.
OnlyAgreedLosses == [][\A c \in Present \ (Present' \cup {Nothing}) :
  \/ c \in src /\ (\/ c \in DOMAIN files /\ files[c].action = "delete"
                   \/ <<"file", c, "delete">> \in jobs)
  \/ \E f \in DOMAIN files : agreed[f] = c /\ files[f].over]_vars

\* The journal is true: a file recorded as done has left the source, however
\* the execution was interrupted.
DoneIsTrue == \A f \in DOMAIN files : files[f].done /\ f # Root => f \notin src

\* "Persist regardless so a partially applied change is never lost" (plan.go):
\* however an execution ends, the row tells exactly which files have left.
JournalExact == ~Locked =>
  \A f \in DOMAIN files \ {Root} : files[f].done <=> f \notin src

\* A recorded collision belongs to the plan it stands in, until the file is done
\* (deleting a single file leaves it on the record).
ConflictMatchesPlan == \A f \in DOMAIN files :
  files[f].conflict # NoPath /\ ~files[f].done =>
    /\ files[f].action = "move" /\ ~files[f].over
    /\ files[f].dest # NoPath /\ files[f].conflict[1] = files[f].dest[1]

\* "Nothing is moved past an unreviewed collision" (README): when a file enters
\* the library, be it that the step fails after that, no other content is at its
\* path or in its folder with the same episode, unless the user reviewed it or it
\* is the item's own.
NoUnreviewedCollision == [][\A f \in Files : \A p \in Paths :
  lib[p] # f /\ lib'[p] = f =>
    \A q \in Paths : lib[q] \in Others /\ q[1] = p[1]
                     /\ (q = p \/ <<q[2], p[2]>> \in SameEpisode)
                     => f \in DOMAIN files /\ files[f].over]_vars

\* A collision is with what was there before, never with the item's own file:
\* nobody is asked to choose between a file and itself.
NoSelfConflict == \A f \in DOMAIN files :
  ~Locked /\ files[f].conflict # NoPath => lib[files[f].conflict] # f

\* A file moves only to a folder that is the item's target.
PlanFollowsTarget == \A f \in DOMAIN files :
  files[f].action = "move" /\ ~files[f].done /\ files[f].dest # NoPath
    => files[f].dest[1] = target

\* Whatever is queued is dealt with: no job comes back for ever.
JobsEnd == \A w \in Requests \cup {<<"detect">>} : w \in jobs ~> w \notin jobs

\* An item does not stay "moving": some operation ends and says how.
MovingEnds == status = "moving" ~> status # "moving"
=============================================================================
