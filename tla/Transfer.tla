------------------------------ MODULE Transfer ------------------------------
(***************************************************************************)
(* What Move promises to its callers, and keeps as long as Lstat tells     *)
(* what is at the destination, whatever else happens on the way.  When     *)
(* it succeeds, the entry has changed its place at once.  When it fails,   *)
(* nothing has changed, but in two cases: a complete copy whose source     *)
(* could not be removed, and the remains of a copy that could not be       *)
(* removed.  When it is interrupted, it may have left part of a copy.      *)
(* Nothing that was at the destination is ever replaced or removed.        *)
(***************************************************************************)
CONSTANTS Movers, Names, Entry, Nothing

VARIABLES
  home,      \* what is at the source
  there,     \* whose content is at the destination
  complete,  \* which of the contents <<m, n>> there are complete
  outcome    \* of each call that has returned, else "none"

vars == <<home, there, complete, outcome>>

Free == \A n \in Names : there[n] = Nothing
All(m) == {<<m, n>> : n \in Entry[m]}
Returns(m, how) == outcome' = [outcome EXCEPT ![m] = how]

Init ==
  /\ home = Entry /\ there = [n \in Names |-> Nothing] /\ complete = {}
  /\ outcome = [m \in Movers |-> "none"]

Start(m) == Returns(m, "none") /\ UNCHANGED <<home, there, complete>>

Arrive(m) ==
  /\ Free
  /\ there' = [n \in Names |-> IF n \in Entry[m] THEN m ELSE Nothing]
  /\ complete' = All(m)

Succeed(m) == Arrive(m) /\ home' = [home EXCEPT ![m] = {}] /\ Returns(m, "done")

SourceStays(m) ==
  /\ Arrive(m) /\ Returns(m, "left")
  /\ \E rest \in SUBSET home[m] : home' = [home EXCEPT ![m] = rest]

Fail(m) == Returns(m, "failed") /\ UNCHANGED <<home, there, complete>>

Collide(m) == Returns(m, "exists") /\ UNCHANGED <<home, there, complete>>

\* A copy of m, or part of one.
Remains(m) ==
  /\ Free /\ home[m] = Entry[m] /\ home' = home
  /\ \E part \in SUBSET Entry[m] : \E good \in SUBSET part :
       /\ there' = [n \in Names |-> IF n \in part THEN m ELSE Nothing]
       /\ complete' = {<<m, n>> : n \in good}

Dirty(m) == Remains(m) /\ Returns(m, "dirty")

\* Whoever has something complete at the destination that is not at home any
\* more keeps it through a power cut.
Truncated ==
  /\ complete' \subseteq complete
  /\ \A m \in Movers : home[m] # Entry[m] => complete \cap All(m) \subseteq complete'
  /\ UNCHANGED <<home, there>>

Crash ==
  /\ outcome' = [m \in Movers |-> IF outcome[m] = "done" THEN "done" ELSE "none"]
  /\ Truncated \/ \E m \in Movers : Remains(m)

Call(m) == Start(m) \/ Succeed(m) \/ SourceStays(m) \/ Fail(m) \/ Collide(m) \/ Dirty(m)

Next == Crash \/ \E m \in Movers : Call(m)

Spec == Init /\ [][Next]_vars
=============================================================================
