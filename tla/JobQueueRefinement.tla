------------------------- MODULE JobQueueRefinement -------------------------
(***************************************************************************)
(* The jobs table and its worker implement WorkQueue.  A work is open when *)
(* it has a pending or running row, whichever: a retry takes another row,  *)
(* a restart turns running into pending, and neither can be seen.  It runs *)
(* from the claim until its outcome is written, or the process is gone.    *)
(***************************************************************************)
EXTENDS JobQueue

WorkOf(j) == <<item[j], work[j]>>
OpenRows == {j \in JobIds : status[j] \in Open}

knownBar == {i \in Items : Exists(i)}
openBar == {WorkOf(j) : j \in OpenRows}
runningBar == IF wpc \in {"busy", "record"} THEN {WorkOf(cur)} ELSE {}

Abs == INSTANCE WorkQueue WITH known <- knownBar, open <- openBar, running <- runningBar

\* Whatever handlers, scanner, worker and restarts do to the table, they do no
\* more than WorkQueue allows: nothing accepted gets lost but by the hand of the
\* worker that ran it or of someone who may take it back (jobs.go, queue.go).
ImplementsWorkQueue == Abs!QueueSpec
=============================================================================
