------------------------------ MODULE MCMover ------------------------------
(***************************************************************************)
(* An execution moves the files of its item, and then removes the folders  *)
(* they leave behind (finalize): EmptyDirs runs when the moves are done.   *)
(***************************************************************************)
EXTENDS MoverRefinement, EmptyDirs, TLC
CONSTANTS file1, file2, folder, a, b, d1, d2, d3

MCEntry == [m \in Movers |-> IF m = folder THEN {a, b} ELSE {Top}]
MCAbove == (d1 :> {}) @@ (d2 :> {d1}) @@ (d3 :> {d1, d2})

\* One item is finished; the other one never gets past its collision.
MovesDone == {pc[m] : m \in Movers} = {"done", "exists"}

MCInit == Init /\ DirsInit
MCNext ==
  \/ stage = "idle" /\ Next /\ UNCHANGED dirVars
  \/ MovesDone /\ ~ended /\ (Sweep \/ Download) /\ UNCHANGED vars
MCSpec == MCInit /\ [][MCNext]_<<vars, dirVars>>
=============================================================================
