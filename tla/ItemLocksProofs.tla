-------------------------- MODULE ItemLocksProofs --------------------------
(***************************************************************************)
(* Machine-checked facts about the lock table, for every finite set of     *)
(* goroutines and any sets of paths and entries: the inductive invariant   *)
(* IInv behind mutual exclusion, exact reference counts and the absence of *)
(* lost wakeups, and the refinement of KeyedMutex.                         *)
(***************************************************************************)
EXTENDS ItemLocksRefinement, FiniteSetTheorems, TLAPS

----------------------------------------------------------------------------
(* The parts of the inductive invariant.                                    *)

\* A goroutine refers to an entry exactly while it is in the table's code or
\* holds a lock, and then the entry is the one its key maps to.
Roles == \A t \in Threads :
  /\ pc[t] = "idle" => ent[t] = NoEntry /\ key[t] = NoKey
  /\ pc[t] # "idle" => ent[t] \in Entries /\ key[t] \in Keys /\ m[key[t]] = ent[t]

\* Two keys never share an entry.
OneKeyPerEntry == \A k, l \in Keys : m[k] = m[l] /\ m[k] # NoEntry => k = l

\* The counter of an entry in use is the number of its users.
Counted == \A e \in Entries : Users(e) # {} => refs[e] = Cardinality(Users(e))

\* The table has no entry without users.
Referenced == \A k \in Keys : m[k] # NoEntry => \E t \in Threads : ent[t] = m[k]

\* Holding is having one's element in the channel, and it has room for one.
HolderFills == \A t \in Threads : pc[t] = "holding" => full[ent[t]]
OneHolder == \A t, u \in Threads :
  pc[t] = "holding" /\ pc[u] = "holding" /\ ent[t] = ent[u] => t = u

\* A full channel of an entry in use is somebody's, and only a full one blocks.
FullIsHeld == \A t \in Threads : pc[t] # "idle" /\ full[ent[t]] =>
  \E u \in Threads : pc[u] = "holding" /\ ent[u] = ent[t]
BlockedOnFull == \A t \in Threads : pc[t] = "blocked" => full[ent[t]]

IInv ==
  /\ TypeOK /\ Roles /\ OneKeyPerEntry /\ Counted /\ Referenced
  /\ HolderFills /\ OneHolder /\ FullIsHeld /\ BlockedOnFull

----------------------------------------------------------------------------
(* Counting users.                                                          *)

\* Users of an entry are finitely many.
LEMMA UsersFinite == ASSUME NEW e PROVE IsFiniteSet(Users(e))
  BY ThreadsAssumption, FS_Subset DEF Users

\* A goroutine that joins an entry is one more.
LEMMA UsersJoin ==
  ASSUME NEW e, NEW t \in Threads, t \notin Users(e), Users(e)' = Users(e) \cup {t}
  PROVE  Cardinality(Users(e)') = Cardinality(Users(e)) + 1
  BY UsersFinite, FS_AddElement

\* A goroutine that leaves an entry is one less.
LEMMA UsersLeave ==
  ASSUME NEW e, NEW t \in Users(e), Users(e)' = Users(e) \ {t}
  PROVE  Cardinality(Users(e)') = Cardinality(Users(e)) - 1
  BY UsersFinite, FS_RemoveElement

\* An entry has no users exactly when their number is 0.
LEMMA UsersNone == ASSUME NEW e PROVE Users(e) = {} <=> Cardinality(Users(e)) = 0
  BY UsersFinite, FS_EmptySet

\* The number of users is a natural number.
LEMMA UsersNat == ASSUME NEW e PROVE Cardinality(Users(e)) \in Nat
  BY UsersFinite, FS_CardinalityType
----------------------------------------------------------------------------
(* The two ways to be counted in, acquire's first half and tryAcquire: they *)
(* differ in the role the caller takes, and tryAcquire needs a free entry.  *)

\* EntryFor(k) is the mapped entry of k or one that nobody uses.
LEMMA EntryForFacts ==
  ASSUME IInv, NEW k \in Keys, NEW e \in EntryFor(k)
  PROVE  /\ e \in Entries
         /\ RefsFor(k, e) = Cardinality(Users(e))
         /\ \A l \in Keys : m[l] = e => l = k
         /\ m[k] = NoEntry => Users(e) = {}
<1>1. CASE m[k] = NoEntry
  <2>1. e \in Entries /\ Fresh(e)
    BY <1>1 DEF EntryFor
  <2>2. Cardinality(Users(e)) = 0
    BY <2>1, UsersNone DEF Fresh
  <2> QED
    BY <1>1, <2>1, <2>2 DEF RefsFor, Fresh
<1>2. CASE m[k] # NoEntry
  <2>1. e = m[k] /\ e \in Entries
    BY <1>2 DEF EntryFor, IInv, TypeOK
  <2>2. Users(e) # {}
    BY <1>2, <2>1 DEF IInv, Referenced, Users
  <2> QED
    BY <1>2, <2>1, <2>2 DEF RefsFor, IInv, Counted, OneKeyPerEntry
<1> QED BY <1>1, <1>2

\* What Arrive(t, k) and TryAcquire(t, k) share.
CountIn(t, k, e, where) ==
  /\ pc[t] = "idle"
  /\ m' = [m EXCEPT ![k] = e]
  /\ refs' = [refs EXCEPT ![e] = RefsFor(k, e) + 1]
  /\ Enter(t, k, e, where)
  /\ UNCHANGED ahead

\* Being counted in keeps the parts of IInv that do not depend on the channel.
LEMMA CountInKeeps ==
  ASSUME IInv, NEW t \in Threads, NEW k \in Keys, NEW e \in EntryFor(k),
         NEW where \in {"arrived", "holding"}, CountIn(t, k, e, where)
  PROVE  /\ Roles' /\ OneKeyPerEntry' /\ Counted' /\ Referenced'
         /\ t \notin Users(e)
         /\ \A f \in Entries : Users(f)' = IF f = e THEN Users(f) \cup {t} ELSE Users(f)
<1> USE DEF IInv, TypeOK, CountIn, Enter
<1>1. /\ e \in Entries
      /\ RefsFor(k, e) = Cardinality(Users(e))
      /\ \A l \in Keys : m[l] = e => l = k
      /\ m[k] = NoEntry => Users(e) = {}
  BY EntryForFacts
<1>2. m[k] # NoEntry => m[k] = e
  BY DEF EntryFor
<1>3. ent[t] = NoEntry
  BY DEF Roles
<1>4. t \notin Users(e)
  BY <1>1, <1>3, NoneAssumption DEF Users
<1>5. \A f \in Entries : Users(f)' = IF f = e THEN Users(f) \cup {t} ELSE Users(f)
  BY <1>1, <1>3, NoneAssumption DEF Users
<1>6. Roles'
  <2> SUFFICES ASSUME NEW u \in Threads
               PROVE  /\ pc'[u] = "idle" => ent'[u] = NoEntry /\ key'[u] = NoKey
                      /\ pc'[u] # "idle" => ent'[u] \in Entries /\ key'[u] \in Keys /\ m'[key'[u]] = ent'[u]
    BY DEF Roles
  <2>1. CASE u = t
    BY <2>1, <1>1
  <2>2. CASE u # t /\ pc[u] = "idle"
    BY <2>2 DEF Roles
  <2>3. CASE u # t /\ pc[u] # "idle"
    <3>1. ent[u] \in Entries /\ key[u] \in Keys /\ m[key[u]] = ent[u]
      BY <2>3 DEF Roles
    <3>2. m'[key[u]] = m[key[u]]
      BY <3>1, <1>2, NoneAssumption
    <3> QED BY <2>3, <3>1, <3>2
  <2> QED BY <2>1, <2>2, <2>3
<1>7. OneKeyPerEntry'
  BY <1>1 DEF OneKeyPerEntry
<1>8. Counted'
  <2> SUFFICES ASSUME NEW f \in Entries, Users(f)' # {}
               PROVE  refs'[f] = Cardinality(Users(f)')
    BY DEF Counted
  <2>1. CASE f = e
    <3>1. Cardinality(Users(e)') = Cardinality(Users(e)) + 1
      BY <1>1, <1>4, <1>5, UsersJoin
    <3> QED BY <2>1, <3>1, <1>1
  <2>2. CASE f # e
    BY <2>2, <1>5 DEF Counted
  <2> QED BY <2>1, <2>2
<1>9. Referenced'
  <2> SUFFICES ASSUME NEW l \in Keys, m'[l] # NoEntry
               PROVE  \E u \in Threads : ent'[u] = m'[l]
    BY DEF Referenced
  <2>1. CASE l = k
    BY <2>1, <1>1
  <2>2. CASE l # k
    <3>1. m'[l] = m[l]
      BY <2>2
    <3>2. PICK u \in Threads : ent[u] = m[l]
      BY <3>1 DEF Referenced
    <3> QED BY <3>1, <3>2, <1>3
  <2> QED BY <2>1, <2>2
<1> QED BY <1>4, <1>5, <1>6, <1>7, <1>8, <1>9

\* Counting a caller in keeps the invariant (acquire, under l.mu).
LEMMA ArriveKeepsIInv ==
  ASSUME IInv, NEW t \in Threads, NEW k \in Keys, Arrive(t, k)
  PROVE  IInv'
<1> USE DEF IInv, TypeOK, Enter
<1>1. PICK e \in EntryFor(k) :
        /\ CountIn(t, k, e, "arrived")
        /\ full' = [full EXCEPT ![e] = ~Vacant(k, e)]
  BY DEF Arrive, CountIn
<1>2. /\ e \in Entries
      /\ RefsFor(k, e) = Cardinality(Users(e))
      /\ m[k] = NoEntry => Users(e) = {}
  BY EntryForFacts
<1>3. /\ Roles' /\ OneKeyPerEntry' /\ Counted' /\ Referenced'
  BY <1>1, CountInKeeps
<1>4. TypeOK'
  <2>1. Vacant(k, e) \in BOOLEAN /\ RefsFor(k, e) + 1 \in Nat
    BY <1>2, UsersNat DEF Vacant
  <2> QED BY <1>1, <1>2, <2>1 DEF CountIn
<1>5. \A u \in Threads : ent[u] \in Entries => full'[ent[u]] = full[ent[u]]
  BY <1>1, <1>2 DEF Vacant, EntryFor, Users
<1>6. \A u \in Threads : u # t => pc'[u] = pc[u] /\ ent'[u] = ent[u]
  BY <1>1 DEF CountIn
<1>7. pc'[t] = "arrived" /\ ent'[t] = e /\ pc[t] = "idle"
  BY <1>1 DEF CountIn
<1>8. \A u \in Threads : pc[u] # "idle" => ent[u] \in Entries
  BY DEF Roles
<1>9. HolderFills' /\ BlockedOnFull'
  BY <1>5, <1>6, <1>7, <1>8 DEF HolderFills, BlockedOnFull
<1>10. OneHolder'
  BY <1>6, <1>7 DEF OneHolder
<1>11. FullIsHeld'
  <2> SUFFICES ASSUME NEW u \in Threads, pc'[u] # "idle", full'[ent'[u]]
               PROVE  \E v \in Threads : pc'[v] = "holding" /\ ent'[v] = ent'[u]
    BY DEF FullIsHeld
  <2>1. CASE u # t
    BY <2>1, <1>5, <1>6, <1>7, <1>8 DEF FullIsHeld
  <2>2. CASE u = t
    <3>1. m[k] = e /\ full[e]
      BY <2>2, <1>1, <1>2, <1>7 DEF Vacant, EntryFor
    <3>2. PICK v \in Threads : ent[v] = e /\ pc[v] # "idle"
      BY <3>1, <1>2, NoneAssumption DEF Referenced, Roles
    <3> QED BY <2>2, <3>1, <3>2, <1>6, <1>7 DEF FullIsHeld
  <2> QED BY <2>1, <2>2
<1> QED BY <1>3, <1>4, <1>9, <1>10, <1>11

\* A successful tryAcquire keeps the invariant.
LEMMA TryAcquireKeepsIInv ==
  ASSUME IInv, NEW t \in Threads, NEW k \in Keys, TryAcquire(t, k)
  PROVE  IInv'
<1> USE DEF IInv, TypeOK, Enter
<1>1. PICK e \in EntryFor(k) :
        /\ CountIn(t, k, e, "holding")
        /\ Vacant(k, e)
        /\ full' = [full EXCEPT ![e] = TRUE]
  BY DEF TryAcquire, CountIn
<1>2. /\ e \in Entries
      /\ RefsFor(k, e) = Cardinality(Users(e))
      /\ m[k] = NoEntry => Users(e) = {}
  BY EntryForFacts
<1>3. /\ Roles' /\ OneKeyPerEntry' /\ Counted' /\ Referenced'
  BY <1>1, CountInKeeps
<1>4. TypeOK'
  BY <1>1, <1>2, UsersNat DEF CountIn
<1>5. \A u \in Threads : u # t => pc'[u] = pc[u] /\ ent'[u] = ent[u]
  BY <1>1 DEF CountIn
<1>6. pc'[t] = "holding" /\ ent'[t] = e /\ pc[t] = "idle" /\ full'[e]
  BY <1>1, <1>2 DEF CountIn
<1>7. \A u \in Threads : pc[u] # "idle" => ent[u] \in Entries
  BY DEF Roles
<1>8. \A u \in Threads : pc[u] # "idle" /\ ent[u] = e => ~full[e]
  BY <1>1, <1>2 DEF Vacant, EntryFor, Users
<1>9. \A u \in Threads : ent[u] # e /\ ent[u] \in Entries => full'[ent[u]] = full[ent[u]]
  BY <1>1
<1>10. HolderFills' /\ BlockedOnFull'
  BY <1>5, <1>6, <1>7, <1>9 DEF HolderFills, BlockedOnFull
<1>11. OneHolder'
  BY <1>5, <1>6, <1>7, <1>8 DEF OneHolder, HolderFills
<1>12. FullIsHeld'
  BY <1>5, <1>6, <1>7, <1>9 DEF FullIsHeld
<1> QED BY <1>3, <1>4, <1>10, <1>11, <1>12
----------------------------------------------------------------------------
(* The steps of a goroutine that is counted in.                             *)

\* A step that moves nobody in or out of the table and leaves entries, keys
\* and counts alone keeps the parts that speak of those only.
LEMMA StayKeeps ==
  ASSUME IInv, UNCHANGED <<m, refs, key, ent>>,
         \A u \in Threads : pc'[u] = "idle" <=> pc[u] = "idle"
  PROVE  Roles' /\ OneKeyPerEntry' /\ Counted' /\ Referenced'
<1> USE DEF IInv
<1>1. Roles'
  BY DEF Roles
<1>2. OneKeyPerEntry' /\ Referenced'
  BY DEF OneKeyPerEntry, Referenced
<1>3. Counted'
  BY DEF Counted, Users
<1> QED BY <1>1, <1>2, <1>3

\* Taking the empty channel keeps the invariant.
LEMMA SendKeepsIInv ==
  ASSUME IInv, NEW t \in Threads, Send(t)
  PROVE  IInv'
<1> USE DEF IInv, TypeOK, Send
<1>1. ent[t] \in Entries
  BY DEF Roles
<1>2. TypeOK'
  BY <1>1
<1>3. Roles' /\ OneKeyPerEntry' /\ Counted' /\ Referenced'
  BY StayKeeps
<1>4. HolderFills' /\ BlockedOnFull'
  BY <1>1 DEF HolderFills, BlockedOnFull, Roles
<1>5. OneHolder'
  BY DEF OneHolder, HolderFills
<1>6. FullIsHeld'
  BY <1>1 DEF FullIsHeld, Roles
<1> QED BY <1>2, <1>3, <1>4, <1>5, <1>6

\* Queueing on the full channel keeps the invariant.
LEMMA BlockKeepsIInv ==
  ASSUME IInv, NEW t \in Threads, Block(t)
  PROVE  IInv'
<1> USE DEF IInv, TypeOK, Block
<1>1. TypeOK'
  BY DEF Blocked, Users
<1>2. Roles' /\ OneKeyPerEntry' /\ Counted' /\ Referenced'
  BY StayKeeps
<1>3. HolderFills' /\ BlockedOnFull' /\ OneHolder'
  BY DEF HolderFills, BlockedOnFull, OneHolder
<1>4. FullIsHeld'
  BY DEF FullIsHeld
<1> QED BY <1>1, <1>2, <1>3, <1>4

\* Withdrawing when the context ends keeps the invariant.
LEMMA CancelKeepsIInv ==
  ASSUME IInv, NEW t \in Threads, Cancel(t)
  PROVE  IInv'
<1> USE DEF IInv, TypeOK, Cancel
<1>1. TypeOK'
  BY DEF Without
<1>2. Roles' /\ OneKeyPerEntry' /\ Counted' /\ Referenced'
  BY StayKeeps
<1>3. HolderFills' /\ BlockedOnFull' /\ OneHolder'
  BY DEF HolderFills, BlockedOnFull, OneHolder
<1>4. FullIsHeld'
  BY DEF FullIsHeld
<1> QED BY <1>1, <1>2, <1>3, <1>4

\* Handing the slot to a queued goroutine keeps the invariant.
LEMMA ReleaseToKeepsIInv ==
  ASSUME IInv, NEW t \in Threads, NEW u \in Threads, ReleaseTo(t, u)
  PROVE  IInv'
<1> USE DEF IInv, TypeOK, ReleaseTo
<1>1. pc[u] = "blocked" /\ ent[u] = ent[t] /\ u # t
  BY DEF Longest, Blocked, Users
<1>2. TypeOK'
  BY DEF Without
<1>3. Roles' /\ OneKeyPerEntry' /\ Counted' /\ Referenced'
  BY <1>1, StayKeeps
<1>4. HolderFills' /\ BlockedOnFull'
  BY <1>1 DEF HolderFills, BlockedOnFull
<1>5. OneHolder'
  BY <1>1 DEF OneHolder
<1>6. FullIsHeld'
  BY <1>1 DEF FullIsHeld
<1> QED BY <1>2, <1>3, <1>4, <1>5, <1>6

\* Emptying the channel keeps the invariant: nobody is queued on it.
LEMMA ReleaseFreeKeepsIInv ==
  ASSUME IInv, NEW t \in Threads, ReleaseFree(t)
  PROVE  IInv'
<1> USE DEF IInv, TypeOK, ReleaseFree
<1>1. ent[t] \in Entries
  BY DEF Roles
<1>2. TypeOK'
  BY <1>1
<1>3. Roles' /\ OneKeyPerEntry' /\ Counted' /\ Referenced'
  BY StayKeeps
<1>4. HolderFills' /\ OneHolder'
  BY <1>1 DEF HolderFills, OneHolder, Roles
<1>5. BlockedOnFull'
  BY <1>1 DEF BlockedOnFull, Roles, Blocked, Users
<1>6. FullIsHeld'
  BY <1>1 DEF FullIsHeld, Roles
<1> QED BY <1>2, <1>3, <1>4, <1>5, <1>6

\* Giving up the reference keeps the invariant, and the entry goes with the last.
LEMMA DropKeepsIInv ==
  ASSUME IInv, NEW t \in Threads, Drop(t)
  PROVE  IInv'
<1> USE DEF IInv, TypeOK, Drop, Enter
<1>1. PICK e \in Entries, k \in Keys :
        e = ent[t] /\ k = key[t] /\ m[k] = e /\ t \in Users(e)
  BY DEF Roles, Users
<1>2. refs[e] = Cardinality(Users(e)) /\ refs[e] # 0
  BY <1>1, UsersNone DEF Counted
<1>3. \A f \in Entries : Users(f)' = IF f = e THEN Users(f) \ {t} ELSE Users(f)
  BY <1>1, NoneAssumption DEF Users
<1>4. refs'[e] = refs[e] - 1 /\ refs'[e] = Cardinality(Users(e)')
  BY <1>1, <1>2, <1>3, UsersLeave
<1>5. refs'[e] = 0 <=> Users(e)' = {}
  <2>1. IsFiniteSet(Users(e)')
    BY <1>1, <1>3, UsersFinite, FS_RemoveElement
  <2> QED BY <1>4, <2>1, FS_EmptySet
<1>6. TypeOK'
  BY <1>1, <1>2, <1>4
<1>7. \A l \in Keys : m'[l] = IF l = k /\ Users(e)' = {} THEN NoEntry ELSE m[l]
  BY <1>1, <1>5
<1>8. Roles'
  <2> SUFFICES ASSUME NEW u \in Threads
               PROVE  /\ pc'[u] = "idle" => ent'[u] = NoEntry /\ key'[u] = NoKey
                      /\ pc'[u] # "idle" => ent'[u] \in Entries /\ key'[u] \in Keys /\ m'[key'[u]] = ent'[u]
    BY DEF Roles
  <2>1. CASE u = t
    BY <2>1
  <2>2. CASE u # t /\ pc[u] = "idle"
    BY <2>2 DEF Roles
  <2>3. CASE u # t /\ pc[u] # "idle"
    <3>1. ent[u] \in Entries /\ key[u] \in Keys /\ m[key[u]] = ent[u]
      BY <2>3 DEF Roles
    <3>2. key[u] = k => u \in Users(e)'
      BY <2>3, <3>1, <1>1, <1>3 DEF Users
    <3> QED BY <2>3, <3>1, <3>2, <1>7
  <2> QED BY <2>1, <2>2, <2>3
<1>9. OneKeyPerEntry'
  BY <1>7, NoneAssumption DEF OneKeyPerEntry
<1>10. Counted'
  <2> SUFFICES ASSUME NEW f \in Entries, Users(f)' # {}
               PROVE  refs'[f] = Cardinality(Users(f)')
    BY DEF Counted
  <2> QED BY <1>1, <1>3, <1>4 DEF Counted
<1>11. Referenced'
  <2> SUFFICES ASSUME NEW l \in Keys, m'[l] # NoEntry
               PROVE  \E u \in Threads : ent'[u] = m'[l]
    BY DEF Referenced
  <2>1. m'[l] = m[l] /\ m[l] \in Entries
    BY <1>7
  <2>2. CASE l = k
    <3>1. Users(e)' # {}
      BY <2>2, <1>7, NoneAssumption
    <3> QED BY <3>1, <2>1, <2>2, <1>1 DEF Users
  <2>3. CASE l # k
    <3>1. PICK u \in Threads : ent[u] = m[l]
      BY <2>1, NoneAssumption DEF Referenced
    <3>2. u # t
      BY <3>1, <2>3, <2>1, <1>1, NoneAssumption DEF OneKeyPerEntry
    <3> QED BY <3>1, <3>2, <2>1
  <2> QED BY <2>2, <2>3
<1>12. HolderFills' /\ OneHolder' /\ BlockedOnFull'
  BY DEF HolderFills, OneHolder, BlockedOnFull
<1>13. FullIsHeld'
  BY DEF FullIsHeld
<1> QED BY <1>6, <1>8, <1>9, <1>10, <1>11, <1>12, <1>13
----------------------------------------------------------------------------
(* The theorems.                                                            *)

\* The empty table satisfies the invariant.
LEMMA InitIInv == Init => IInv
<1> SUFFICES ASSUME Init PROVE IInv
  OBVIOUS
<1> USE DEF Init
<1>1. TypeOK
  BY DEF TypeOK
<1>2. Roles /\ OneKeyPerEntry /\ Referenced
  BY DEF Roles, OneKeyPerEntry, Referenced
<1>3. Counted
  BY NoneAssumption DEF Counted, Users
<1>4. HolderFills /\ OneHolder /\ FullIsHeld /\ BlockedOnFull
  BY DEF HolderFills, OneHolder, FullIsHeld, BlockedOnFull
<1> QED BY <1>1, <1>2, <1>3, <1>4 DEF IInv

\* Every step keeps the invariant.
LEMMA NextIInv == IInv /\ [Next]_vars => IInv'
<1> SUFFICES ASSUME IInv, [Next]_vars PROVE IInv'
  OBVIOUS
<1>1. CASE UNCHANGED vars
  BY <1>1 DEF vars, IInv, TypeOK, Roles, OneKeyPerEntry, Counted, Referenced,
     HolderFills, OneHolder, FullIsHeld, BlockedOnFull, Users
<1>2. ASSUME NEW t \in Threads, NEW k \in Keys, Arrive(t, k) PROVE IInv'
  BY <1>2, ArriveKeepsIInv
<1>3. ASSUME NEW t \in Threads, NEW k \in Keys, TryAcquire(t, k) PROVE IInv'
  BY <1>3, TryAcquireKeepsIInv
<1>4. ASSUME NEW t \in Threads, Send(t) PROVE IInv'
  BY <1>4, SendKeepsIInv
<1>5. ASSUME NEW t \in Threads, Block(t) PROVE IInv'
  BY <1>5, BlockKeepsIInv
<1>6. ASSUME NEW t \in Threads, Cancel(t) PROVE IInv'
  BY <1>6, CancelKeepsIInv
<1>7. ASSUME NEW t \in Threads, Release(t) PROVE IInv'
  BY <1>7, ReleaseToKeepsIInv, ReleaseFreeKeepsIInv DEF Release
<1>8. ASSUME NEW t \in Threads, Drop(t) PROVE IInv'
  BY <1>8, DropKeepsIInv
<1> QED BY <1>1, <1>2, <1>3, <1>4, <1>5, <1>6, <1>7, <1>8 DEF Next

\* The invariant holds in every reachable state of the lock table.
THEOREM Invariance == Spec => []IInv
BY InitIInv, NextIInv, PTL DEF Spec

\* Type correctness; in particular a reference count never goes below zero.
THEOREM TypeCorrect == Spec => []TypeOK
<1>1. IInv => TypeOK
  BY DEF IInv
<1> QED BY <1>1, Invariance, PTL

\* No two goroutines ever hold the lock of one source path.
THEOREM Mutex == Spec => []MutualExclusion
<1>1. IInv => MutualExclusion
  BY DEF IInv, MutualExclusion, Roles, OneHolder
<1> QED BY <1>1, Invariance, PTL

\* The counts are exact, and the table holds the entries in use and no others.
THEOREM Refs == Spec => []RefsExact
<1>1. IInv => RefsExact
  <2> SUFFICES ASSUME IInv PROVE RefsExact
    OBVIOUS
  <2>1. \A t \in Threads : pc[t] # "idle" => ent[t] \in Entries /\ m[key[t]] = ent[t]
    BY DEF IInv, Roles
  <2>2. ASSUME NEW k \in Keys, m[k] # NoEntry PROVE \E t \in Users(m[k]) : key[t] = k
    <3>1. PICK t \in Threads : ent[t] = m[k]
      BY <2>2 DEF IInv, Referenced
    <3>2. key[t] \in Keys /\ m[key[t]] = ent[t]
      BY <3>1, <2>2 DEF IInv, Roles
    <3> QED BY <3>1, <3>2, <2>2 DEF IInv, OneKeyPerEntry, Users
  <2> QED BY <2>1, <2>2 DEF RefsExact, IInv, Counted
<1> QED BY <1>1, Invariance, PTL

\* Whoever is queued waits for a goroutine that holds the same entry.
THEOREM NoLostWakeup == Spec => []BlockedHasHolder
<1>1. IInv => BlockedHasHolder
  BY DEF IInv, BlockedHasHolder, BlockedOnFull, FullIsHeld
<1> QED BY <1>1, Invariance, PTL

\* A successful tryAcquire finds nobody queued for the path.
THEOREM TryAcquireIsFair == Spec => NoBarging
<1>1. IInv /\ [Next]_vars => [\A t, u \in Threads :
        pc[t] = "idle" /\ pc'[t] = "holding" /\ pc[u] = "blocked" => key[u] # key'[t]]_vars
  <2> SUFFICES ASSUME IInv, Next, NEW t \in Threads, NEW u \in Threads,
                      pc[t] = "idle", pc'[t] = "holding", pc[u] = "blocked",
                      key[u] = key'[t]
               PROVE  FALSE
    OBVIOUS
  <2> USE DEF IInv, TypeOK
  <2>1. ASSUME NEW s \in Threads, Send(s) \/ Block(s) \/ Cancel(s) PROVE FALSE
    BY <2>1 DEF Send, Block, Cancel
  <2>2. ASSUME NEW s \in Threads, Release(s) PROVE FALSE
    BY <2>2 DEF Release, ReleaseTo, ReleaseFree, Longest, Blocked
  <2>3. ASSUME NEW s \in Threads, Drop(s) PROVE FALSE
    BY <2>3 DEF Drop, Enter
  <2>4. ASSUME NEW s \in Threads, NEW k \in Keys, Arrive(s, k) PROVE FALSE
    BY <2>4 DEF Arrive, Enter
  <2>5. ASSUME NEW s \in Threads, NEW k \in Keys, TryAcquire(s, k) PROVE FALSE
    <3>1. s = t /\ key'[t] = k
      BY <2>5 DEF TryAcquire, Enter
    <3>2. m[k] = ent[u] /\ full[ent[u]] /\ ent[u] \in Entries
      BY <3>1 DEF Roles, BlockedOnFull
    <3> QED BY <2>5, <3>2, NoneAssumption DEF TryAcquire, EntryFor, Vacant
  <2> QED BY <2>1, <2>2, <2>3, <2>4, <2>5 DEF Next
<1> QED BY <1>1, Invariance, PTL DEF NoBarging, Spec
----------------------------------------------------------------------------
(* The refinement.                                                          *)

\* The one element of a set of at most one goroutine, or NoOwner.
LEMMA OneOfFacts == OneOf({}) = NoOwner /\ \A t : OneOf({t}) = t
BY DEF OneOf

\* Under the invariant the owner of a path is exactly its holder.
LEMMA OwnerIsHolder ==
  ASSUME IInv, NEW k \in Keys
  PROVE  /\ \A t \in Threads : ownerBar[k] = t <=> pc[t] = "holding" /\ key[t] = k
         /\ ownerBar[k] = NoOwner <=> \A t \in Threads : ~(pc[t] = "holding" /\ key[t] = k)
         /\ ownerBar[k] \in Threads \cup {NoOwner}
<1>1. \A t, u \in Holder(k) : t = u
  BY DEF Holder, IInv, Roles, OneHolder
<1>2. CASE Holder(k) = {}
  <2>1. ownerBar[k] = NoOwner
    BY <1>2, OneOfFacts DEF ownerBar
  <2> QED BY <1>2, <2>1, NoOwnerAssumption DEF Holder
<1>3. CASE Holder(k) # {}
  <2>1. PICK t \in Threads : Holder(k) = {t}
    BY <1>1, <1>3 DEF Holder
  <2>2. ownerBar[k] = t
    BY <2>1, OneOfFacts DEF ownerBar
  <2> QED BY <2>1, <2>2, NoOwnerAssumption DEF Holder
<1> QED BY <1>2, <1>3

\* A step that leaves the holders of every path alone does not change owners.
LEMMA OwnersKept ==
  ASSUME \A k \in Keys : Holder(k)' = Holder(k)
  PROVE  ownerBar' = ownerBar
BY DEF ownerBar

\* Every step of the lock table is a step of the keyed mutex or invisible.
LEMMA StepSimulation == IInv /\ IInv' /\ [Next]_vars => [Abs!AbsNext]_(Abs!absVars)
<1> SUFFICES ASSUME IInv, IInv', [Next]_vars
             PROVE  Abs!AbsNext \/ UNCHANGED <<ownerBar, wantsBar>>
  BY DEF Abs!absVars
<1> USE DEF Abs!AbsNext
<1>1. CASE UNCHANGED vars
  BY <1>1 DEF vars, ownerBar, wantsBar, Holder
<1>2. ASSUME NEW t \in Threads, NEW k \in Keys, Arrive(t, k) PROVE Abs!AbsNext
  <2>1. pc[t] = "idle" /\ key[t] = NoKey
    BY <1>2 DEF Arrive, IInv, Roles
  <2>2. pc' = [pc EXCEPT ![t] = "arrived"] /\ key' = [key EXCEPT ![t] = k]
    BY <1>2 DEF Arrive, Enter
  <2>3. ownerBar' = ownerBar
    BY <2>1, <2>2, OwnersKept DEF Holder, IInv, TypeOK
  <2>4. wantsBar' = [wantsBar EXCEPT ![t] = k]
    BY <2>1, <2>2 DEF wantsBar, IInv, TypeOK
  <2>5. Abs!Quiet(t)
    BY <2>1, OwnerIsHolder DEF Abs!Quiet, Abs!Owns, wantsBar
  <2> QED BY <2>3, <2>4, <2>5 DEF Abs!Ask
<1>3. ASSUME NEW t \in Threads, NEW k \in Keys, TryAcquire(t, k) PROVE Abs!AbsNext
  <2>1. pc[t] = "idle" /\ key[t] = NoKey
    BY <1>3 DEF TryAcquire, IInv, Roles
  <2>2. pc' = [pc EXCEPT ![t] = "holding"] /\ key' = [key EXCEPT ![t] = k]
    BY <1>3 DEF TryAcquire, Enter
  <2>3. \A u \in Threads : ~(pc[u] = "holding" /\ key[u] = k)
    <3> SUFFICES ASSUME NEW u \in Threads, pc[u] = "holding", key[u] = k PROVE FALSE
      OBVIOUS
    <3>1. m[k] = ent[u] /\ full[ent[u]] /\ ent[u] \in Entries
      BY DEF IInv, Roles, HolderFills
    <3> QED BY <1>3, <3>1, NoneAssumption DEF TryAcquire, EntryFor, Vacant
  <2>4. \A l \in Keys : Holder(l)' = IF l = k THEN {t} ELSE Holder(l)
    BY <2>1, <2>2, <2>3, NoneAssumption DEF Holder, IInv, TypeOK
  <2>5. ownerBar' = [ownerBar EXCEPT ![k] = t]
    BY <2>4, OneOfFacts DEF ownerBar
  <2>6. UNCHANGED wantsBar
    BY <2>1, <2>2 DEF wantsBar, IInv, TypeOK
  <2>7. Abs!Quiet(t) /\ ownerBar[k] = NoOwner
    BY <2>1, <2>3, OwnerIsHolder DEF Abs!Quiet, Abs!Owns, wantsBar
  <2> QED BY <2>5, <2>6, <2>7 DEF Abs!TryTake
<1>4. ASSUME NEW t \in Threads, Send(t) PROVE Abs!AbsNext
  <2>1. PICK k \in Keys : key[t] = k /\ m[k] = ent[t] /\ ent[t] \in Entries
    BY <1>4 DEF Send, IInv, Roles
  <2>2. \A u \in Threads : ~(pc[u] = "holding" /\ key[u] = k)
    BY <1>4, <2>1 DEF Send, IInv, Roles, HolderFills
  <2>3. \A l \in Keys : Holder(l)' = IF l = k THEN {t} ELSE Holder(l)
    BY <1>4, <2>1, <2>2 DEF Send, Holder, IInv, TypeOK
  <2>4. ownerBar' = [ownerBar EXCEPT ![k] = t]
    BY <2>3, OneOfFacts DEF ownerBar
  <2>5. wantsBar' = [wantsBar EXCEPT ![t] = NoKey]
    BY <1>4 DEF Send, wantsBar, IInv, TypeOK
  <2>6. wantsBar[t] = k /\ ownerBar[k] = NoOwner
    BY <1>4, <2>1, <2>2, OwnerIsHolder DEF Send, wantsBar
  <2> QED BY <2>4, <2>5, <2>6 DEF Abs!Take
<1>5. ASSUME NEW t \in Threads, Block(t) PROVE UNCHANGED <<ownerBar, wantsBar>>
  <2>1. ownerBar' = ownerBar
    BY <1>5, OwnersKept DEF Block, Holder, IInv, TypeOK
  <2>2. wantsBar' = wantsBar
    BY <1>5 DEF Block, wantsBar, IInv, TypeOK
  <2> QED BY <2>1, <2>2
<1>6. ASSUME NEW t \in Threads, Cancel(t) PROVE Abs!AbsNext
  <2>1. ownerBar' = ownerBar
    BY <1>6, OwnersKept DEF Cancel, Holder, IInv, TypeOK
  <2>2. wantsBar' = [wantsBar EXCEPT ![t] = NoKey]
    BY <1>6 DEF Cancel, wantsBar, IInv, TypeOK
  <2>3. wantsBar[t] # NoKey
    BY <1>6, NoneAssumption DEF Cancel, wantsBar, IInv, Roles
  <2> QED BY <2>1, <2>2, <2>3 DEF Abs!GiveUp
<1>7. ASSUME NEW t \in Threads, NEW u \in Threads, ReleaseTo(t, u) PROVE Abs!AbsNext
  <2>1. pc[t] = "holding" /\ pc[u] = "blocked" /\ ent[u] = ent[t] /\ u # t
    BY <1>7 DEF ReleaseTo, Longest, Blocked, Users
  <2>2. PICK k \in Keys : key[t] = k /\ key[u] = k
    <3>1. key[t] \in Keys /\ key[u] \in Keys /\ ent[t] \in Entries
          /\ m[key[t]] = ent[t] /\ m[key[u]] = ent[t]
      BY <2>1 DEF IInv, Roles
    <3> QED BY <3>1, NoneAssumption DEF IInv, OneKeyPerEntry
  <2>3. \A v \in Threads : pc[v] = "holding" /\ key[v] = k => v = t
    BY <2>1, <2>2 DEF IInv, Roles, OneHolder
  <2>4. pc' = [pc EXCEPT ![t] = "dropping", ![u] = "holding"] /\ key' = key
    BY <1>7 DEF ReleaseTo
  <2>5. \A l \in Keys : Holder(l)' = IF l = k THEN {u} ELSE Holder(l)
    BY <2>1, <2>2, <2>3, <2>4 DEF Holder, IInv, TypeOK
  <2>6. ownerBar' = [ownerBar EXCEPT ![k] = u]
    BY <2>5, OneOfFacts DEF ownerBar
  <2>7. wantsBar' = [wantsBar EXCEPT ![u] = NoKey]
    BY <2>1, <2>4 DEF wantsBar, IInv, TypeOK
  <2>8. ownerBar[k] = t /\ wantsBar[u] = k
    BY <2>1, <2>2, OwnerIsHolder DEF wantsBar
  <2> QED BY <2>6, <2>7, <2>8 DEF Abs!Leave
<1>8. ASSUME NEW t \in Threads, ReleaseFree(t) PROVE Abs!AbsNext
  <2>1. PICK k \in Keys : key[t] = k
    BY <1>8 DEF ReleaseFree, IInv, Roles
  <2>2. \A v \in Threads : pc[v] = "holding" /\ key[v] = k => v = t
    BY <1>8, <2>1 DEF ReleaseFree, IInv, Roles, OneHolder
  <2>3. pc' = [pc EXCEPT ![t] = "dropping"] /\ key' = key /\ pc[t] = "holding"
    BY <1>8 DEF ReleaseFree
  <2>4. \A l \in Keys : Holder(l)' = IF l = k THEN {} ELSE Holder(l)
    BY <2>1, <2>2, <2>3 DEF Holder, IInv, TypeOK
  <2>5. ownerBar' = [ownerBar EXCEPT ![k] = NoOwner]
    BY <2>4, OneOfFacts DEF ownerBar
  <2>6. UNCHANGED wantsBar
    BY <2>3 DEF wantsBar, IInv, TypeOK
  <2>7. ownerBar[k] = t
    BY <2>1, <2>3, OwnerIsHolder
  <2> QED BY <2>5, <2>6, <2>7 DEF Abs!Leave
<1>9. ASSUME NEW t \in Threads, Drop(t) PROVE UNCHANGED <<ownerBar, wantsBar>>
  <2>1. pc[t] = "dropping"
        /\ pc' = [pc EXCEPT ![t] = "idle"] /\ key' = [key EXCEPT ![t] = NoKey]
    BY <1>9 DEF Drop, Enter
  <2>2. ownerBar' = ownerBar
    BY <2>1, OwnersKept DEF Holder, IInv, TypeOK
  <2>3. wantsBar' = wantsBar
    BY <2>1 DEF wantsBar, IInv, TypeOK
  <2> QED BY <2>2, <2>3
<1> QED BY <1>1, <1>2, <1>3, <1>4, <1>5, <1>6, <1>7, <1>8, <1>9 DEF Next, Release

\* The lock table implements the keyed mutex.
THEOREM Refinement == Spec => ImplementsKeyedMutex
<1>1. Init => Abs!AbsInit
  BY OneOfFacts DEF Init, Abs!AbsInit, ownerBar, wantsBar, Holder
<1> QED BY <1>1, Invariance, StepSimulation, PTL DEF Spec, ImplementsKeyedMutex, Abs!AbsSpec
=============================================================================
