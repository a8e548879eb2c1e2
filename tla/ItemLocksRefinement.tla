------------------------ MODULE ItemLocksRefinement ------------------------
(***************************************************************************)
(* The lock table of internal/engine/locks.go implements KeyedMutex: the   *)
(* owner of a path is the goroutine that holds the entry of that path, and *)
(* a goroutine wants a path from the moment it is counted in until it is   *)
(* served or withdraws.  Dropping the reference afterwards is invisible.   *)
(***************************************************************************)
EXTENDS ItemLocks

CONSTANT NoOwner

ASSUME NoOwnerAssumption == NoOwner \notin Threads

Holder(k) == {t \in Threads : pc[t] = "holding" /\ key[t] = k}

OneOf(S) == IF S = {} THEN NoOwner ELSE CHOOSE t \in S : TRUE

ownerBar == [k \in Keys |-> OneOf(Holder(k))]

wantsBar == [t \in Threads |->
  IF pc[t] \in {"arrived", "blocked"} THEN key[t] ELSE NoKey]

Abs == INSTANCE KeyedMutex WITH owner <- ownerBar, wants <- wantsBar

\* Every behaviour of the lock table is one of the keyed mutex.
ImplementsKeyedMutex == Abs!AbsSpec
=============================================================================
