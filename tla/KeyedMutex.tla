----------------------------- MODULE KeyedMutex -----------------------------
(***************************************************************************)
(* What the engine's lock table promises its callers, with neither entries *)
(* nor channels nor reference counts: per key one owner, and a goroutine   *)
(* that asked waits until it owns the key or gives up.                     *)
(***************************************************************************)
CONSTANTS Threads, Keys, NoKey, NoOwner

VARIABLES
  owner,   \* per key the goroutine that may mutate the item, or NoOwner
  wants    \* per goroutine the key it is waiting for, or NoKey

absVars == <<owner, wants>>

AbsInit ==
  /\ owner = [k \in Keys |-> NoOwner]
  /\ wants = [t \in Threads |-> NoKey]

Owns(t) == \E k \in Keys : owner[k] = t
Quiet(t) == wants[t] = NoKey /\ ~Owns(t)

Ask(t, k) ==
  /\ Quiet(t)
  /\ wants' = [wants EXCEPT ![t] = k]
  /\ UNCHANGED owner

Take(t, k) ==
  /\ wants[t] = k
  /\ owner[k] = NoOwner
  /\ owner' = [owner EXCEPT ![k] = t]
  /\ wants' = [wants EXCEPT ![t] = NoKey]

\* The non-blocking way in: succeeds at once or changes nothing.
TryTake(t, k) ==
  /\ Quiet(t)
  /\ owner[k] = NoOwner
  /\ owner' = [owner EXCEPT ![k] = t]
  /\ UNCHANGED wants

GiveUp(t) ==
  /\ wants[t] # NoKey
  /\ wants' = [wants EXCEPT ![t] = NoKey]
  /\ UNCHANGED owner

\* The owner leaves the key free or to somebody who waits for it.
Leave(t, k) ==
  /\ owner[k] = t
  /\ \/ /\ owner' = [owner EXCEPT ![k] = NoOwner]
        /\ UNCHANGED wants
     \/ \E u \in Threads :
          /\ wants[u] = k
          /\ owner' = [owner EXCEPT ![k] = u]
          /\ wants' = [wants EXCEPT ![u] = NoKey]

AbsNext == \E t \in Threads :
  \/ GiveUp(t)
  \/ \E k \in Keys : Ask(t, k) \/ Take(t, k) \/ TryTake(t, k) \/ Leave(t, k)

AbsSpec == AbsInit /\ [][AbsNext]_absVars
=============================================================================
