----------------------------- MODULE ItemLocks -----------------------------
(***************************************************************************)
(* The per-item lock table of the engine, internal/engine/locks.go.        *)
(*                                                                         *)
(* A lock entry is a heap object: a channel of capacity one and a count of *)
(* the goroutines that refer to it.  The table maps an item's source path  *)
(* to its entry and drops the entry when nobody refers to it any more, so  *)
(* a key may own several entries over time, and the code is right only if  *)
(* no two of them are ever alive together.                                 *)
(*                                                                         *)
(* What runs between l.mu.Lock and l.mu.Unlock is one step.  The channel   *)
(* follows the Go runtime: a send on a full channel queues the goroutine,  *)
(* and a receive while somebody is queued hands the slot to the goroutine  *)
(* that has waited longest, so the channel never looks empty in between.   *)
(***************************************************************************)
EXTENDS Integers, FiniteSets

CONSTANTS
  Threads,   \* goroutines: HTTP handlers, the queue worker, the scanner
  Keys,      \* source paths
  Entries,   \* addresses of itemLock objects
  NoKey, NoEntry

ASSUME ThreadsAssumption == IsFiniteSet(Threads)
ASSUME NoneAssumption == NoKey \notin Keys /\ NoEntry \notin Entries

VARIABLES
  m,      \* itemLocks.m: the entry of each key, or NoEntry
  refs,   \* itemLock.refs
  full,   \* itemLock.ch holds its one element
  pc,     \* where each goroutine is
  key,    \* the key it asked for
  ent,    \* the entry it refers to
  ahead   \* <<t, u>>: t was queued on its channel before u

vars == <<m, refs, full, pc, key, ent, ahead>>

----------------------------------------------------------------------------
Users(e) == {t \in Threads : ent[t] = e}
Blocked(e) == {t \in Users(e) : pc[t] = "blocked"}
Longest(e) == {t \in Blocked(e) : \A u \in Blocked(e) : <<u, t>> \notin ahead}

\* A fresh allocation: no reachable object has this address.
Fresh(e) == Users(e) = {} /\ \A k \in Keys : m[k] # e

\* The queue once t has left it.
Without(t) == {p \in ahead : p[1] # t /\ p[2] # t}

Init ==
  /\ m = [k \in Keys |-> NoEntry]
  /\ refs = [e \in Entries |-> 0]
  /\ full = [e \in Entries |-> FALSE]
  /\ pc = [t \in Threads |-> "idle"]
  /\ key = [t \in Threads |-> NoKey]
  /\ ent = [t \in Threads |-> NoEntry]
  /\ ahead = {}

----------------------------------------------------------------------------
\* The get-or-create at the head of acquire and tryAcquire: the entry the
\* caller works with, its references and whether its channel is empty.
EntryFor(k) == IF m[k] = NoEntry THEN {e \in Entries : Fresh(e)} ELSE {m[k]}
RefsFor(k, e) == IF m[k] = NoEntry THEN 0 ELSE refs[e]
Vacant(k, e) == m[k] = NoEntry \/ ~full[e]

Enter(t, k, e, where) ==
  /\ pc' = [pc EXCEPT ![t] = where]
  /\ key' = [key EXCEPT ![t] = k]
  /\ ent' = [ent EXCEPT ![t] = e]

\* acquire, up to l.mu.Unlock: the caller counts itself in.
Arrive(t, k) ==
  /\ pc[t] = "idle"
  /\ \E e \in EntryFor(k) :
       /\ m' = [m EXCEPT ![k] = e]
       /\ refs' = [refs EXCEPT ![e] = RefsFor(k, e) + 1]
       /\ full' = [full EXCEPT ![e] = ~Vacant(k, e)]
       /\ Enter(t, k, e, "arrived")
  /\ UNCHANGED ahead

\* Mutant: a send that does not look at the channel.
SendAnyway(t) ==
  /\ pc[t] = "arrived"
  /\ full' = [full EXCEPT ![ent[t]] = TRUE]
  /\ pc' = [pc EXCEPT ![t] = "holding"]
  /\ UNCHANGED <<m, refs, key, ent, ahead>>

\* acquire's select finds the channel empty: the send goes through.
Send(t) ==
  /\ pc[t] = "arrived"
  /\ ~full[ent[t]]
  /\ full' = [full EXCEPT ![ent[t]] = TRUE]
  /\ pc' = [pc EXCEPT ![t] = "holding"]
  /\ UNCHANGED <<m, refs, key, ent, ahead>>

\* acquire's select finds the channel full: the goroutine is queued.
Block(t) ==
  /\ pc[t] = "arrived"
  /\ full[ent[t]]
  /\ pc' = [pc EXCEPT ![t] = "blocked"]
  /\ ahead' = ahead \cup {<<u, t>> : u \in Blocked(ent[t])}
  /\ UNCHANGED <<m, refs, full, key, ent>>

\* acquire's select takes ctx.Done(): the request is withdrawn.
Cancel(t) ==
  /\ pc[t] \in {"arrived", "blocked"}
  /\ pc' = [pc EXCEPT ![t] = "dropping"]
  /\ ahead' = Without(t)
  /\ UNCHANGED <<m, refs, full, key, ent>>

\* tryAcquire, all of it under l.mu; when it returns false nothing changed.
TryAcquire(t, k) ==
  /\ pc[t] = "idle"
  /\ \E e \in EntryFor(k) :
       /\ Vacant(k, e)
       /\ m' = [m EXCEPT ![k] = e]
       /\ refs' = [refs EXCEPT ![e] = RefsFor(k, e) + 1]
       /\ full' = [full EXCEPT ![e] = TRUE]
       /\ Enter(t, k, e, "holding")
  /\ UNCHANGED ahead

\* release: <-entry.ch.  sync.Once makes a second call a no-op.
ReleaseTo(t, u) ==
  /\ pc[t] = "holding"
  /\ u \in Longest(ent[t])
  /\ pc' = [pc EXCEPT ![t] = "dropping", ![u] = "holding"]
  /\ ahead' = Without(u)
  /\ UNCHANGED <<m, refs, full, key, ent>>

\* Mutant: a release that empties the channel and wakes nobody.
ReleaseSilently(t) ==
  /\ pc[t] = "holding"
  /\ full' = [full EXCEPT ![ent[t]] = FALSE]
  /\ pc' = [pc EXCEPT ![t] = "dropping"]
  /\ UNCHANGED <<m, refs, key, ent, ahead>>

ReleaseFree(t) ==
  /\ pc[t] = "holding"
  /\ Blocked(ent[t]) = {}
  /\ full' = [full EXCEPT ![ent[t]] = FALSE]
  /\ pc' = [pc EXCEPT ![t] = "dropping"]
  /\ UNCHANGED <<m, refs, key, ent, ahead>>

Release(t) == ReleaseFree(t) \/ \E u \in Threads : ReleaseTo(t, u)

\* Mutant: drop deletes the entry without a look at its references.
DropAlways(t) ==
  /\ pc[t] = "dropping"
  /\ refs' = [refs EXCEPT ![ent[t]] = @ - 1]
  /\ m' = [m EXCEPT ![key[t]] = NoEntry]
  /\ Enter(t, NoKey, NoEntry, "idle")
  /\ UNCHANGED <<full, ahead>>

\* drop, all of it under l.mu; delete(l.m, key) is by key, not by entry.
Drop(t) ==
  /\ pc[t] = "dropping"
  /\ refs' = [refs EXCEPT ![ent[t]] = @ - 1]
  /\ m' = IF refs'[ent[t]] = 0 THEN [m EXCEPT ![key[t]] = NoEntry] ELSE m
  /\ Enter(t, NoKey, NoEntry, "idle")
  /\ UNCHANGED <<full, ahead>>

Next == \E t \in Threads :
  \/ \E k \in Keys : Arrive(t, k) \/ TryAcquire(t, k)
  \/ Send(t) \/ Block(t) \/ Cancel(t) \/ Release(t) \/ Drop(t)

\* The scheduler runs every runnable goroutine; every caller of acquire defers
\* its release.  Asking for a lock and giving up are never forced.
Fairness == \A t \in Threads :
  WF_vars(Send(t) \/ Block(t)) /\ WF_vars(Release(t)) /\ WF_vars(Drop(t))

Spec == Init /\ [][Next]_vars
FairSpec == Spec /\ Fairness

----------------------------------------------------------------------------
TypeOK ==
  /\ m \in [Keys -> Entries \cup {NoEntry}]
  /\ refs \in [Entries -> Nat]
  /\ full \in [Entries -> BOOLEAN]
  /\ pc \in [Threads -> {"idle", "arrived", "blocked", "holding", "dropping"}]
  /\ key \in [Threads -> Keys \cup {NoKey}]
  /\ ent \in [Threads -> Entries \cup {NoEntry}]
  /\ ahead \subseteq Threads \X Threads

\* At most one goroutine mutates an item at a time ("itemLocks serializes
\* mutations per item"), although the entry that carries the lock comes and
\* goes: it must never be dropped from under a goroutine that still counts on
\* it, or the next caller would lock a second entry of the same path.
MutualExclusion == \A t, u \in Threads :
  pc[t] = "holding" /\ pc[u] = "holding" /\ key[t] = key[u] => t = u

\* refs is the number of goroutines that refer to the entry, an entry with
\* references is the one its key maps to, and one without is in no map: the
\* table neither leaks an entry nor forgets a live one.
RefsExact ==
  /\ \A e \in Entries : Users(e) # {} => refs[e] = Cardinality(Users(e))
  /\ \A t \in Threads : pc[t] # "idle" => ent[t] \in Entries /\ m[key[t]] = ent[t]
  /\ \A k \in Keys : m[k] # NoEntry => \E t \in Users(m[k]) : key[t] = k

\* No lost wakeup: whoever is queued on a channel has somebody to wait for.
BlockedHasHolder == \A t \in Threads :
  pc[t] = "blocked" => \E u \in Threads : pc[u] = "holding" /\ ent[u] = ent[t]

\* tryAcquire, the scanner's way in, never overtakes a goroutine that is
\* already queued for the item.
NoBarging == [][\A t, u \in Threads :
  pc[t] = "idle" /\ pc'[t] = "holding" /\ pc[u] = "blocked" => key[u] # key'[t]]_vars

\* A request that is not withdrawn is granted: the queue is served in order,
\* and a newcomer cannot take the lock while somebody waits.
Served == \A t \in Threads :
  pc[t] \in {"arrived", "blocked"} ~> pc[t] \in {"holding", "dropping"}
=============================================================================
