-------------------------- MODULE MoverRefinement --------------------------
(***************************************************************************)
(* Move implements Transfer when no other call goes to the same path at    *)
(* the time, until an Lstat fails where something is: a copy counts once   *)
(* its call has returned or has been interrupted.                          *)
(***************************************************************************)
EXTENDS Mover

Copying(m) == pc[m] \in {"copy", "write", "flush", "undo", "remove"}

there == [n \in Names |->
  IF dest[n] # Nothing /\ Copying(dest[n]) THEN Nothing ELSE dest[n]]
complete == {c \in whole : there[c[2]] = c[1]}
outcome == [m \in Movers |-> IF pc[m] \in Results THEN pc[m] ELSE "none"]

Contract == INSTANCE Transfer WITH home <- src

\* An error of Move has changed nothing, an interruption has left at most a
\* copy, and an entry that has left its source is complete at its destination
\* (Rivals = FALSE).  The promise ends when Lstat fails where something is: what
\* Move does then is no step of Transfer (see NothingOverwritten).
ImplementsTransfer ==
  Contract!Init /\ [][Contract!Next \/ misled']_(Contract!vars)
=============================================================================
