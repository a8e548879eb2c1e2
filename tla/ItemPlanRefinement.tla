------------------------- MODULE ItemPlanRefinement -------------------------
(***************************************************************************)
(* The queue as ItemPlan sees it - the set of the item's open works and    *)
(* the one the worker has claimed - is a WorkQueue as well: what ItemPlan  *)
(* takes for granted of the queue is what JobQueue has been shown to keep. *)
(***************************************************************************)
EXTENDS ItemPlan

TheItem == "item"

knownBar == IF status = "absent" THEN {} ELSE {TheItem}
openBar == {TheItem} \X jobs
runningBar == IF wpc = "idle" THEN {} ELSE {<<TheItem, job>>}

Abs == INSTANCE WorkQueue WITH
  Items <- {TheItem}, Works <- Requests \cup {<<"detect">>},
  known <- knownBar, open <- openBar, running <- runningBar

\* User, scanner and worker treat the works of the item as WorkQueue allows: a
\* refresh takes back only what is not being run, the item disappears only with
\* its works, and a crash loses none (handlers.go, reconcile.go, queue.go).
ImplementsWorkQueue == Abs!QueueSpec
=============================================================================
