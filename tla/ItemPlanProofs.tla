---------------------------- MODULE ItemPlanProofs ----------------------------
(***************************************************************************)
(* Theorems about ItemPlan for any files, folders, names, requests and     *)
(* events: the types, the truth of the journal (DoneIsTrue) and of the     *)
(* recorded collisions (ConflictMatchesPlan).                              *)
(*                                                                         *)
(* None of them is inductive for the row alone: the row is overwritten     *)
(* with the copy of the execution and with what a scan has read, so that   *)
(* the same must hold of those (Plans, Journal), and the copy must be of   *)
(* the files that are listed (Copy).                                       *)
(*                                                                         *)
(* At the end, that the works of the item implement WorkQueue.             *)
(***************************************************************************)
EXTENDS ItemPlanRefinement, WellFoundedInduction, TLAPS

IsPlan(p) == DOMAIN p \subseteq Entry /\ p \in [DOMAIN p -> FileRec]

\* ConflictMatchesPlan, of any plan.
Sound(p) == \A f \in DOMAIN p :
  p[f].conflict # NoPath /\ p[f].done = FALSE =>
    /\ p[f].action = "move" /\ p[f].over = FALSE
    /\ p[f].dest # NoPath /\ p[f].conflict[1] = p[f].dest[1]

Good(p) == IsPlan(p) /\ Sound(p)

\* What is done in q was done in p.
NoneNew(p, q) == \A f \in DOMAIN q : q[f].done = TRUE => f \in DOMAIN p /\ p[f].done = TRUE

Truthful(p, s) == \A f \in DOMAIN p : p[f].done = TRUE /\ f # Root => f \notin s

----------------------------------------------------------------------------
(* The functions of FilePlan.                                               *)

LEMMA FirstIsIn == ASSUME NEW S \in SUBSET Entry, S # {} PROVE First(S) \in S
<1> DEFINE less == {ss \in Nat \X Nat : ss[1] < ss[2]}
<1>1. S \subseteq Nat
  BY FilesAssumption DEF Entry
<1>2. IsWellFoundedOn(less, Nat)
  BY NatLessThanWellFounded DEF OpToRel
<1>3. \A m, n \in Nat : m < n => <<m, n>> \in less
  OBVIOUS
<1>4. PICK f \in S : \A g \in S : ~(<<g, f>> \in less)
  <2> HIDE DEF less
  <2> QED
    BY <1>1, <1>2, WFMin
<1>5. ASSUME NEW g \in S PROVE f <= g
  <2>1. g \in Nat /\ f \in Nat
    BY <1>1
  <2>2. ~(g < f)
    <3> HIDE DEF less
    <3> QED
      BY <2>1, <1>3, <1>4, Zenon
  <2> QED
    BY <2>1, <2>2
<1> QED
  BY <1>5 DEF First

LEMMA PlannedRec ==
  ASSUME NEW a \in {"none", "move", "delete", "keep"}, NEW d \in Paths \cup {NoPath}
  PROVE  Planned(a, d) \in FileRec
BY DEF Planned, FileRec

LEMMA DestInPath ==
  ASSUME NEW f \in Entry, NEW d \in Dirs \cup {NoDir}
  PROVE  DestIn(f, d) \in Paths \cup {NoPath}
BY BaseAssumption DEF DestIn, Paths, Entry

\* A plan whose records are p's or have just been planned.
LEMMA Replanned ==
  ASSUME NEW p, Good(p), NEW q, DOMAIN q \subseteq Entry, q = [f \in DOMAIN q |-> q[f]],
         \A f \in DOMAIN q :
           \/ f \in DOMAIN p /\ q[f] = p[f]
           \/ \E a \in {"none", "move", "delete", "keep"}, d \in Paths \cup {NoPath} :
                q[f] = Planned(a, d)
  PROVE  Good(q) /\ NoneNew(p, q)
<1>1. ASSUME NEW f \in DOMAIN q
      PROVE  /\ q[f] \in FileRec
             /\ q[f].done = TRUE => f \in DOMAIN p /\ p[f].done = TRUE
             /\ q[f].conflict # NoPath => f \in DOMAIN p /\ q[f] = p[f]
  <2>1. CASE f \in DOMAIN p /\ q[f] = p[f]
    BY <2>1 DEF Good, IsPlan
  <2>2. ASSUME NEW a \in {"none", "move", "delete", "keep"}, NEW d \in Paths \cup {NoPath},
               q[f] = Planned(a, d)
        PROVE  q[f] \in FileRec /\ q[f].conflict = NoPath /\ q[f].done = FALSE
    <3>1. Planned(a, d) \in FileRec
      BY PlannedRec
    <3>2. Planned(a, d).conflict = NoPath /\ Planned(a, d).done = FALSE
      BY DEF Planned
    <3> QED
      BY <2>2, <3>1, <3>2, Zenon
  <2> QED
    BY <1>1, <2>1, <2>2
<1>2. IsPlan(q)
  BY <1>1 DEF IsPlan
<1>3. Sound(q)
  <2> SUFFICES ASSUME NEW f \in DOMAIN q, q[f].conflict # NoPath, q[f].done = FALSE
               PROVE  /\ q[f].action = "move" /\ q[f].over = FALSE
                      /\ q[f].dest # NoPath /\ q[f].conflict[1] = q[f].dest[1]
    BY Zenon DEF Sound
  <2>1. f \in DOMAIN p /\ q[f] = p[f]
    BY <1>1
  <2> QED
    BY <2>1, Zenon DEF Good, Sound
<1>4. NoneNew(p, q)
  BY <1>1, Zenon DEF NoneNew
<1> QED
  BY <1>2, <1>3, <1>4 DEF Good

LEMMA PlanOneGood ==
  ASSUME NEW p, Good(p), NEW f \in DOMAIN p, NEW a \in Actions, NEW d \in Dirs \cup {NoDir}
  PROVE  /\ Good(PlanOne(p, f, a, d)) /\ NoneNew(p, PlanOne(p, f, a, d))
         /\ DOMAIN PlanOne(p, f, a, d) = DOMAIN p
<1> DEFINE q == PlanOne(p, f, a, d)
           to == IF a = "move" THEN DestIn(f, d) ELSE NoPath
<1>1. to \in Paths \cup {NoPath}
  BY DestInPath DEF Good, IsPlan
<1>2. q = [p EXCEPT ![f] = Planned(a, to)]
  BY DEF PlanOne
<1>3. p = [g \in DOMAIN p |-> p[g]]
  BY DEF Good, IsPlan
<1>4. DOMAIN q = DOMAIN p /\ q = [g \in DOMAIN q |-> q[g]]
  BY <1>2
<1>5. \A g \in DOMAIN q : q[g] = IF g = f THEN Planned(a, to) ELSE p[g]
  BY <1>2, <1>3
<1> HIDE DEF q, to
<1>6. Good(q) /\ NoneNew(p, q)
  BY <1>1, <1>4, <1>5, Replanned DEF Good, IsPlan, Actions
<1> QED
  BY <1>4, <1>6 DEF q

LEMMA RouteToGood ==
  ASSUME NEW p, Good(p), NEW d \in Dirs \cup {NoDir}
  PROVE  Good(RouteTo(p, d)) /\ NoneNew(p, RouteTo(p, d)) /\ DOMAIN RouteTo(p, d) = DOMAIN p
<1> DEFINE q == RouteTo(p, d)
<1>1. DOMAIN q = DOMAIN p /\ q = [f \in DOMAIN q |-> q[f]]
  BY DEF RouteTo
<1>2. \A f \in DOMAIN q : q[f] = p[f] \/ q[f] = Planned("move", DestIn(f, d))
  BY DEF RouteTo
<1>3. \A f \in DOMAIN q : DestIn(f, d) \in Paths \cup {NoPath}
  BY <1>1, DestInPath DEF Good, IsPlan
<1> HIDE DEF q
<1>4. Good(q) /\ NoneNew(p, q)
  BY <1>1, <1>2, <1>3, Replanned DEF Good, IsPlan
<1> QED
  BY <1>1, <1>4 DEF q

LEMMA DecidedGood ==
  ASSUME NEW p, Good(p), NEW c \in [Files -> Actions], NEW d \in Dirs \cup {NoDir},
         Root \notin DOMAIN p
  PROVE  Good(Decided(p, c, d)) /\ NoneNew(p, Decided(p, c, d))
<1> DEFINE q == Decided(p, c, d)
           to(f) == IF c[f] = "move" /\ d # NoDir THEN DestIn(f, d) ELSE p[f].dest
<1>1. DOMAIN q = DOMAIN p /\ q = [f \in DOMAIN q |-> q[f]]
  BY DEF Decided
<1>2. \A f \in DOMAIN q : q[f] = p[f] \/ q[f] = Planned(c[f], to(f))
  BY DEF Decided
<1>3. ASSUME NEW f \in DOMAIN q
      PROVE  c[f] \in {"none", "move", "delete", "keep"} /\ to(f) \in Paths \cup {NoPath}
  <2>1. f \in Files /\ f \in Entry /\ p[f].dest \in Paths \cup {NoPath}
    BY <1>1, <1>3 DEF Good, IsPlan, Entry, FileRec
  <2> QED
    BY <2>1, DestInPath DEF Actions
<1> HIDE DEF q, to
<1>4. Good(q) /\ NoneNew(p, q)
  BY <1>1, <1>2, <1>3, Replanned DEF Good, IsPlan
<1> QED
  BY <1>4 DEF q

LEMMA ListedGood ==
  ASSUME NEW s \in SUBSET Files
  PROVE  Good(Listed(s)) /\ DOMAIN Listed(s) = s /\ \A f \in s : Listed(s)[f].done = FALSE
BY PlannedRec DEF Good, IsPlan, Sound, Listed, Planned, Entry

LEMMA EmptyFolderGood ==
  Good(EmptyFolder) /\ DOMAIN EmptyFolder = {Root} /\ EmptyFolder[Root].done = FALSE
BY PlannedRec DEF Good, IsPlan, Sound, EmptyFolder, Planned, Entry

\* What is done has left the disk, as far as it is the listing that tells.
LEMMA ReconcileGood ==
  ASSUME NEW p, Good(p), NEW s \in SUBSET Files
  PROVE  /\ Good(Reconcile(p, s)) /\ Truthful(Reconcile(p, s), s)
         /\ s # {} => Root \notin DOMAIN Reconcile(p, s)
<1> DEFINE q == Reconcile(p, s)
           journal == {f \in DOMAIN p \ s : p[f].done /\ f # Root}
           empty == IF s = {} THEN {Root} ELSE {}
<1>1. DOMAIN q = s \cup journal \cup empty /\ q = [f \in DOMAIN q |-> q[f]]
  BY DEF Reconcile
<1>2. \A f \in DOMAIN q :
        \/ /\ f \in DOMAIN p /\ q[f] = p[f]
           /\ f \in journal \/ ~p[f].done
        \/ q[f] = Planned("delete", NoPath) \/ q[f] = Planned("keep", NoPath)
  BY DEF Reconcile
<1>3. DOMAIN q \subseteq Entry
  BY <1>1 DEF Good, IsPlan, Entry
<1>4. Root \notin s
  BY FilesAssumption
<1>5. s # {} => Root \notin DOMAIN q
  BY <1>1, <1>4
<1>6. \A f \in DOMAIN q : q[f].done = TRUE => f \notin s
  BY <1>2 DEF Planned
<1> HIDE DEF q, journal, empty
<1>7. Good(q)
  BY <1>1, <1>2, <1>3, Replanned
<1> QED
  BY <1>5, <1>6, <1>7 DEF q, Truthful

LEMMA FindConflictIn ==
  ASSUME NEW p \in Paths, NEW l
  PROVE  /\ FindConflict(p, l) \in Paths \cup {NoPath}
         /\ FindConflict(p, l) # NoPath => FindConflict(p, l)[1] = p[1]
BY DEF FindConflict

\* Whatever a plan says of collisions, and whatever is in the library, after
\* detectConflicts its collisions are those of its moves.
LEMMA DetectGood ==
  ASSUME NEW p, IsPlan(p), NEW l
  PROVE  /\ Good(DetectConflicts(p, l)) /\ DOMAIN DetectConflicts(p, l) = DOMAIN p
         /\ \A f \in DOMAIN p : /\ DetectConflicts(p, l)[f].done = p[f].done
                                /\ DetectConflicts(p, l)[f].action = p[f].action
<1> DEFINE q == DetectConflicts(p, l)
           found(f) == IF p[f].action = "move" /\ ~p[f].done /\ ~p[f].over
                          /\ p[f].dest # NoPath
                       THEN FindConflict(p[f].dest, l) ELSE NoPath
<1>1. DOMAIN q = DOMAIN p /\ \A f \in DOMAIN p : q[f] = [p[f] EXCEPT !.conflict = found(f)]
  BY DEF DetectConflicts
<1>2. ASSUME NEW f \in DOMAIN p
      PROVE  /\ p[f] \in FileRec /\ found(f) \in Paths \cup {NoPath}
             /\ found(f) # NoPath => /\ p[f].action = "move" /\ p[f].over = FALSE
                                     /\ p[f].dest # NoPath /\ found(f)[1] = p[f].dest[1]
  <2>1. p[f] \in FileRec
    BY DEF IsPlan
  <2>2. CASE p[f].action = "move" /\ ~p[f].done /\ ~p[f].over /\ p[f].dest # NoPath
    <3>1. p[f].dest \in Paths /\ p[f].over = FALSE
      BY <2>1, <2>2 DEF FileRec
    <3>2. found(f) = FindConflict(p[f].dest, l)
      BY <2>2
    <3> HIDE DEF found
    <3> QED
      BY <2>1, <2>2, <3>1, <3>2, FindConflictIn
  <2>3. CASE ~(p[f].action = "move" /\ ~p[f].done /\ ~p[f].over /\ p[f].dest # NoPath)
    <3>1. found(f) = NoPath
      BY <2>3
    <3> HIDE DEF found
    <3> QED
      BY <2>1, <3>1
  <2> QED
    BY <2>2, <2>3
<1>3. q = [f \in DOMAIN q |-> q[f]]
  BY DEF DetectConflicts
<1> HIDE DEF q, found
<1>4. ASSUME NEW f \in DOMAIN p
      PROVE  /\ q[f] \in FileRec /\ q[f].conflict = found(f)
             /\ q[f].done = p[f].done /\ q[f].action = p[f].action
             /\ q[f].over = p[f].over /\ q[f].dest = p[f].dest
  <2>1. p[f] \in FileRec /\ found(f) \in Paths \cup {NoPath}
    BY <1>2
  <2>2. q[f] = [p[f] EXCEPT !.conflict = found(f)]
    BY <1>1
  <2> QED
    BY <2>1, <2>2 DEF FileRec
<1>5. IsPlan(q)
  BY <1>1, <1>3, <1>4 DEF IsPlan
<1>6. Sound(q)
  <2> SUFFICES ASSUME NEW f \in DOMAIN q, q[f].conflict # NoPath, q[f].done = FALSE
               PROVE  /\ q[f].action = "move" /\ q[f].over = FALSE
                      /\ q[f].dest # NoPath /\ q[f].conflict[1] = q[f].dest[1]
    BY Zenon DEF Sound
  <2>1. f \in DOMAIN p
    BY <1>1
  <2>2. found(f) # NoPath
    BY <1>4, <2>1
  <2> QED
    BY <1>2, <1>4, <2>1, <2>2, Zenon
<1> QED
  BY <1>1, <1>4, <1>5, <1>6 DEF Good, q

\* A record is replaced by another one that is sound as well.
LEMMA OneChanged ==
  ASSUME NEW p, Good(p), NEW f \in DOMAIN p, NEW r \in FileRec,
         r.conflict = NoPath \/ r.done = TRUE
  PROVE  /\ Good([p EXCEPT ![f] = r]) /\ DOMAIN [p EXCEPT ![f] = r] = DOMAIN p
         /\ \A g \in DOMAIN p : [p EXCEPT ![f] = r][g] = IF g = f THEN r ELSE p[g]
<1> DEFINE q == [p EXCEPT ![f] = r]
<1>1. p = [g \in DOMAIN p |-> p[g]]
  BY DEF Good, IsPlan
<1>2. DOMAIN q = DOMAIN p /\ q = [g \in DOMAIN q |-> q[g]]
  OBVIOUS
<1>3. \A g \in DOMAIN p : q[g] = IF g = f THEN r ELSE p[g]
  BY <1>1
<1> HIDE DEF q
<1>4. IsPlan(q)
  BY <1>2, <1>3 DEF Good, IsPlan
<1>5. Sound(q)
  BY <1>2, <1>3 DEF Good, Sound
<1> QED
  BY <1>2, <1>3, <1>4, <1>5 DEF Good, q

LEMMA ReplaceGood ==
  ASSUME NEW p, Good(p), NEW f \in DOMAIN p, p[f].conflict # NoPath
  PROVE  Good(Replace(p, f)) /\ NoneNew(p, Replace(p, f)) /\ DOMAIN Replace(p, f) = DOMAIN p
<1> DEFINE r == [p[f] EXCEPT !.action = "move", !.over = TRUE,
                             !.overPath = p[f].conflict, !.conflict = NoPath]
<1>1. p[f] \in FileRec
  BY DEF Good, IsPlan
<1>2. r \in FileRec /\ r.conflict = NoPath /\ r.done = p[f].done
  BY <1>1 DEF FileRec
<1>3. Replace(p, f) = [p EXCEPT ![f] = r]
  BY DEF Replace
<1> DEFINE q == [p EXCEPT ![f] = r]
<1> HIDE DEF r
<1>4. /\ Good(q) /\ DOMAIN q = DOMAIN p
      /\ \A g \in DOMAIN p : q[g] = IF g = f THEN r ELSE p[g]
  BY <1>2, OneChanged
<1> HIDE DEF q
<1>5. NoneNew(p, q)
  BY <1>2, <1>4 DEF NoneNew
<1> QED
  BY <1>3, <1>4, <1>5 DEF q

LEMMA GiveWayGood ==
  ASSUME NEW p, Good(p), NEW f \in DOMAIN p
  PROVE  Good(GiveWay(p, f)) /\ NoneNew(p, GiveWay(p, f)) /\ DOMAIN GiveWay(p, f) = DOMAIN p
<1> DEFINE r == [Planned("delete", NoPath) EXCEPT !.done = p[f].done]
<1>1. p[f] \in FileRec
  BY DEF Good, IsPlan
<1>2. r \in FileRec /\ r.conflict = NoPath /\ r.done = p[f].done
  BY <1>1 DEF FileRec, Planned
<1>3. GiveWay(p, f) = [p EXCEPT ![f] = r]
  BY DEF GiveWay
<1> DEFINE q == [p EXCEPT ![f] = r]
<1> HIDE DEF r
<1>4. /\ Good(q) /\ DOMAIN q = DOMAIN p
      /\ \A g \in DOMAIN p : q[g] = IF g = f THEN r ELSE p[g]
  BY <1>2, OneChanged
<1> HIDE DEF q
<1>5. NoneNew(p, q)
  BY <1>2, <1>4 DEF NoneNew
<1> QED
  BY <1>3, <1>4, <1>5 DEF q

LEMMA MergedGood ==
  ASSUME NEW p, Good(p), NEW s, Good(s), SamePlan(p, s), NEW q,
         q = [f \in DOMAIN p |-> [p[f] EXCEPT !.conflict = s[f].conflict]]
  PROVE  Good(q) /\ NoneNew(p, q) /\ DOMAIN q = DOMAIN p
<1>1. ASSUME NEW f \in DOMAIN p
      PROVE  /\ q[f] \in FileRec /\ q[f].conflict = s[f].conflict
             /\ q[f].done = s[f].done /\ q[f].action = s[f].action
             /\ q[f].over = s[f].over /\ q[f].dest = s[f].dest
             /\ q[f].done = p[f].done /\ f \in DOMAIN s
  <2>1. p[f] \in FileRec /\ f \in DOMAIN s /\ s[f] \in FileRec
    BY DEF Good, IsPlan, SamePlan
  <2>2. q[f] = [p[f] EXCEPT !.conflict = s[f].conflict]
    OBVIOUS
  <2> QED
    BY <2>1, <2>2 DEF FileRec, SamePlan
<1>2. DOMAIN q = DOMAIN p /\ q = [f \in DOMAIN q |-> q[f]]
  OBVIOUS
<1>3. IsPlan(q)
  BY <1>1, <1>2 DEF Good, IsPlan
<1>4. Sound(q)
  BY <1>1, <1>2 DEF Good, Sound
<1> QED
  BY <1>1, <1>2, <1>3, <1>4 DEF Good, NoneNew

----------------------------------------------------------------------------
(* The inductive invariant.                                                 *)

Works == Requests \cup {<<"detect">>}
Statuses == History \cup {"absent", "pending_review", "moving", "error"}
Contents == Files \cup Others \cup {Nothing}

Types ==
  /\ status \in Statuses /\ target \in Dirs \cup {NoDir} /\ typed \in BOOLEAN
  /\ src \in SUBSET Files /\ folder \in BOOLEAN /\ lib \in [Paths -> Contents]
  /\ jobs \in SUBSET Works /\ job \in jobs \cup {<<"none">>}
  /\ wpc \in {"idle", "start", "merge", "hold", "ended", "again"}
  /\ wpc = "idle" => job = <<"none">>
  /\ attempt \in 0..3 /\ (wpc # "merge" => attempt <= 2)
  /\ epc \in {"idle", "replace", "act", "persist", "cleanup", "confirm"}
  /\ agreed \in [Entry -> Contents]
  /\ mem = [files |-> mem.files, status |-> mem.status] /\ mem.status \in Statuses

Plans == Good(files) /\ Good(snap) /\ Good(mem.files)

Journal == Truthful(files, src) /\ Truthful(mem.files, src)

\* The copy is of the files that are listed, and has the file whose turn it is.
Copy ==
  /\ DOMAIN mem.files \subseteq DOMAIN files
  /\ epc = "idle" => mem = NoCopy /\ wpc # "hold"
  /\ epc # "idle" /\ wpc = "hold" /\ job[1] = "file" => job[2] \in DOMAIN mem.files
  /\ epc \in {"replace", "act"} /\ ~(wpc = "hold" /\ job[1] = "file") =>
       Pending(mem.files) # {}

IInv == Types /\ Plans /\ Journal /\ Copy

LEMMA UnlistedGood == Good(Unlisted) /\ DOMAIN Unlisted = {}
BY ListedGood DEF Unlisted

LEMMA NoCopyGood ==
  /\ NoCopy = [files |-> Unlisted, status |-> "absent"]
  /\ NoCopy.files = Unlisted /\ NoCopy.status = "absent"
BY DEF NoCopy

LEMMA StaysTrue ==
  ASSUME NEW p, NEW s, Truthful(p, s), NEW q, NoneNew(p, q)
  PROVE  Truthful(q, s)
BY DEF Truthful, NoneNew

\* Nobody holds the lock: only the row, the disk and the queue may change.
LEMMA Unlocked ==
  ASSUME IInv, ~Locked, UNCHANGED exec, wpc' # "hold", Types',
         Good(files'), Truthful(files', src'), Good(snap')
  PROVE  IInv'
<1>1. mem' = NoCopy /\ epc' = "idle"
  BY DEF IInv, Copy, Locked, exec
<1>2. mem'.files = Unlisted
  BY <1>1, NoCopyGood
<1>3. Plans' /\ Journal'
  BY <1>2, UnlistedGood DEF Plans, Journal, Truthful
<1>4. Copy'
  BY <1>1, <1>2, UnlistedGood DEF Copy
<1> QED
  BY <1>3, <1>4 DEF IInv

LEMMA UnlockedFacts ==
  ASSUME IInv, ~Locked PROVE epc = "idle" /\ mem = NoCopy /\ wpc # "hold"
BY DEF IInv, Copy, Locked

LEMMA InitIInv == Init => IInv
<1> SUFFICES ASSUME Init PROVE IInv
  OBVIOUS
<1>1. Types
  <2>1. mem = [files |-> mem.files, status |-> mem.status] /\ mem.status \in Statuses
    BY NoCopyGood DEF Init, Statuses
  <2>2. lib \in [Paths -> Contents]
    BY DEF Init, Contents
  <2>3. agreed \in [Entry -> Contents]
    BY DEF Init, Contents
  <2>4. /\ status \in Statuses /\ target \in Dirs \cup {NoDir}
        /\ src \in SUBSET Files /\ jobs \in SUBSET Works
    BY DEF Init, Statuses
  <2>5. typed \in BOOLEAN /\ folder \in BOOLEAN
    BY DEF Init
  <2>6. /\ job \in jobs \cup {<<"none">>} /\ job = <<"none">> /\ wpc = "idle"
        /\ attempt = 0 /\ epc = "idle"
    BY DEF Init
  <2> QED
    BY <2>1, <2>2, <2>3, <2>4, <2>5, <2>6 DEF Types
<1>2. Plans /\ Journal /\ Copy
  BY UnlistedGood, NoCopyGood DEF Init, Plans, Journal, Copy, Truthful
<1> QED
  BY <1>1, <1>2 DEF IInv

----------------------------------------------------------------------------
(* The user.                                                                *)

LEMMA PlanFileActionKeeps ==
  ASSUME IInv, NEW f \in DOMAIN files, NEW a \in Actions, PlanFileAction(f, a)
  PROVE  IInv'
<1>1. /\ ~Locked /\ files' = PlanOne(files, f, a, target) /\ status' = Reviewed
      /\ jobs' = jobs \cup {<<"detect">>}
      /\ UNCHANGED <<target, typed, disk, wpc, job, scan, exec, agreed>>
  BY DEF PlanFileAction
<1>2. Good(files) /\ Good(snap) /\ target \in Dirs \cup {NoDir} /\ Truthful(files, src)
  BY DEF IInv, Plans, Types, Journal
<1>3. Good(files') /\ NoneNew(files, files')
  BY <1>1, <1>2, PlanOneGood
<1>4. Truthful(files', src')
  BY <1>1, <1>2, <1>3, StaysTrue DEF disk
<1>5. Types'
  BY <1>1 DEF IInv, Types, Reviewed, Statuses, Works, disk, scan, exec
<1> QED
  BY <1>1, <1>2, <1>3, <1>4, <1>5, UnlockedFacts, Unlocked DEF scan

LEMMA SetItemTargetKeeps ==
  ASSUME IInv, NEW d \in Dirs, SetItemTarget(d)
  PROVE  IInv'
<1>1. /\ ~Locked /\ target' = d /\ files' = RouteTo(files, d) /\ status' = Reviewed
      /\ jobs' = jobs \cup {<<"detect">>}
      /\ UNCHANGED <<typed, disk, wpc, job, scan, exec, agreed>>
  BY DEF SetItemTarget
<1>2. Good(files) /\ Good(snap) /\ Truthful(files, src)
  BY DEF IInv, Plans, Journal
<1>3. Good(files') /\ NoneNew(files, files')
  BY <1>1, <1>2, RouteToGood
<1>4. Truthful(files', src')
  BY <1>1, <1>2, <1>3, StaysTrue DEF disk
<1>5. Types'
  BY <1>1 DEF IInv, Types, Reviewed, Statuses, Works, disk, scan, exec
<1> QED
  BY <1>1, <1>2, <1>3, <1>4, <1>5, UnlockedFacts, Unlocked DEF scan

LEMMA ResolveConflictKeeps ==
  ASSUME IInv, NEW f \in DOMAIN files, ResolveConflict(f)
  PROVE  IInv'
<1>1. /\ ~Locked /\ files[f].conflict # NoPath
      /\ files' = Replace(files, f) \/ files' = GiveWay(files, f)
      /\ agreed' = [agreed EXCEPT ![f] = lib[files[f].conflict]] \/ UNCHANGED agreed
      /\ UNCHANGED <<status, target, typed, disk, jobs, wpc, job, scan, exec>>
  BY DEF ResolveConflict
<1>2. Good(files) /\ Good(snap) /\ Truthful(files, src)
  BY DEF IInv, Plans, Journal
<1>3. Good(files') /\ NoneNew(files, files')
  BY <1>1, <1>2, ReplaceGood, GiveWayGood
<1>4. Truthful(files', src')
  BY <1>1, <1>2, <1>3, StaysTrue DEF disk
<1>5. lib[files[f].conflict] \in Contents
  BY <1>1, <1>2 DEF Good, IsPlan, FileRec, IInv, Types
<1>6. Types'
  BY <1>1, <1>5 DEF IInv, Types, disk, scan, exec
<1> QED
  BY <1>1, <1>2, <1>3, <1>4, <1>6, UnlockedFacts, Unlocked DEF scan

LEMMA EnqueueKeeps == ASSUME IInv, NEW w \in Requests, Enqueue(w) PROVE IInv'
<1>1. Types'
  BY DEF Enqueue, IInv, Types, Works, row, disk, scan, exec
<1>2. Plans' /\ Journal' /\ Copy'
  BY DEF Enqueue, IInv, Plans, Journal, Copy, row, disk, scan, exec
<1> QED
  BY <1>1, <1>2 DEF IInv

LEMMA RejectItemKeeps == ASSUME IInv, RejectItem PROVE IInv'
<1>1. Types'
  BY DEF RejectItem, IInv, Types, Statuses, History, row, disk, scan, exec
<1>2. Plans' /\ Journal' /\ Copy'
  BY DEF RejectItem, IInv, Plans, Journal, Copy, row, disk, scan, exec
<1> QED
  BY <1>1, <1>2 DEF IInv

----------------------------------------------------------------------------
(* The execution.                                                           *)

LEMMA TurnFacts ==
  ASSUME NEW p
  PROVE  /\ Turn(p) \in {"replace", "act", "cleanup"}
         /\ Turn(p) \in {"replace", "act"} => Pending(p) # {}
BY DEF Turn, Stage

LEMMA CurrentFacts ==
  ASSUME IInv, epc \in {"replace", "act"}
  PROVE  /\ Current \in DOMAIN mem.files /\ Current \in Entry
         /\ Doing \in {"move", "delete"} /\ Destination \in Paths \cup {NoPath}
         /\ mem.files[Current] \in FileRec
<1>1. Good(mem.files) /\ DOMAIN mem.files \subseteq Entry
  BY DEF IInv, Plans, Good, IsPlan
<1>2. Current \in DOMAIN mem.files /\ Doing \in {"move", "delete"}
  <2>1. CASE OneFile
    <3>1. wpc = "hold" /\ job[1] = "file" /\ Current = job[2] /\ Doing = job[3]
      BY <2>1 DEF OneFile, ByWorker, Current, Doing
    <3>2. job \in Works \cup {<<"none">>}
      BY DEF IInv, Types
    <3>3. job \in FileJobs
      BY <3>1, <3>2, RequestsAssumption DEF Works
    <3>4. job[3] \in {"move", "delete"}
      BY <3>3 DEF FileJobs
    <3> QED
      BY <3>1, <3>4 DEF IInv, Copy
  <2>2. CASE ~OneFile
    <3>1. Pending(mem.files) # {}
      BY <2>2 DEF IInv, Copy, OneFile, ByWorker
    <3>2. Pending(mem.files) \in SUBSET Entry
      BY <1>1 DEF Pending
    <3>3. Current \in Pending(mem.files)
      BY <2>2, <3>1, <3>2, FirstIsIn DEF Current
    <3>4. Doing = mem.files[Current].action
      BY <2>2 DEF Doing
    <3> QED
      BY <3>3, <3>4 DEF Pending
  <2> QED
    BY <2>1, <2>2
<1>3. Current \in Entry /\ mem.files[Current] \in FileRec
  BY <1>1, <1>2 DEF Good, IsPlan
<1>4. Destination \in Paths \cup {NoPath}
  <2>1. DestIn(Current, target) \in Paths \cup {NoPath}
    BY <1>3, DestInPath DEF IInv, Types
  <2>2. mem.files[Current].dest \in Paths \cup {NoPath}
    BY <1>3 DEF FileRec
  <2> QED
    BY <2>1, <2>2 DEF Destination
<1> QED
  BY <1>2, <1>3, <1>4

\* A file is done: the copy says so, and it is not in the source any more.
LEMMA DidKeeps ==
  ASSUME IInv, epc = "act", NEW a \in {"move", "delete"}, NEW d \in Paths \cup {NoPath},
         Did(a, d), UNCHANGED <<row, jobs, wpc, job, scan, agreed>>,
         src' \in SUBSET src, Current = Root \/ Current \notin src',
         lib' \in [Paths -> Contents], folder' \in BOOLEAN
  PROVE  IInv'
<1> DEFINE r == IF a = "move" THEN [Planned("move", d) EXCEPT !.done = TRUE]
                ELSE [mem.files[Current] EXCEPT !.action = a, !.done = TRUE]
           q == [mem.files EXCEPT ![Current] = r]
<1>1. /\ Good(mem.files) /\ Current \in DOMAIN mem.files
      /\ mem.files[Current] \in FileRec
  BY CurrentFacts DEF IInv, Plans
<1>2. r \in FileRec /\ r.done = TRUE
  <2>1. Planned("move", d) \in FileRec
    BY PlannedRec
  <2> QED
    BY <1>1, <2>1 DEF FileRec
<1>3. mem' = [files |-> q, status |-> mem.status]
  <2>1. mem = [files |-> mem.files, status |-> mem.status]
    BY DEF IInv, Types
  <2>2. mem' = [mem EXCEPT !.files = q]
    BY DEF Did
  <2> HIDE DEF q
  <2> QED
    BY <2>1, <2>2
<1> HIDE DEF r
<1>4. /\ Good(q) /\ DOMAIN q = DOMAIN mem.files
      /\ \A g \in DOMAIN mem.files : q[g] = IF g = Current THEN r ELSE mem.files[g]
  BY <1>1, <1>2, OneChanged
<1> HIDE DEF q
<1>5. mem'.files = q /\ mem'.status = mem.status
  BY <1>3
<1>6. epc' \in {"cleanup", "persist"}
  BY DEF Did
<1>7. Plans'
  BY <1>4, <1>5 DEF IInv, Plans, row, scan
<1>8. Journal'
  <2>1. Truthful(files, src')
    BY DEF IInv, Journal, Truthful
  <2>2. Truthful(q, src')
    BY <1>4 DEF IInv, Journal, Truthful
  <2> QED
    BY <1>5, <2>1, <2>2 DEF Journal, row
<1>9. Copy'
  BY <1>1, <1>4, <1>5, <1>6 DEF IInv, Copy, row
<1>10. Types'
  <2>1. src' \in SUBSET Files /\ mem' = [files |-> mem'.files, status |-> mem'.status]
    BY <1>3, <1>5 DEF IInv, Types
  <2> QED
    BY <1>5, <1>6, <2>1 DEF IInv, Types, row, scan
<1> QED
  BY <1>7, <1>8, <1>9, <1>10 DEF IInv

LEMMA AbortKeeps ==
  ASSUME IInv, epc # "idle", NEW how \in {"ended", "again"}, Abort(how),
         src' = src, lib' \in [Paths -> Contents]
  PROVE  IInv'
<1>1. /\ files' = mem.files /\ status' = "error" /\ epc' = "idle" /\ mem' = NoCopy
      /\ UNCHANGED <<target, typed, folder, jobs, job, snap, attempt, agreed>>
      /\ wpc' \in {wpc, how} /\ wpc' # "hold"
      /\ wpc' = "merge" <=> wpc = "merge"
      /\ wpc' = "idle" => wpc = "idle"
  BY DEF Abort, Unlock, WorkerEnds, ByWorker, scan
<1>2. mem' = [files |-> mem'.files, status |-> mem'.status] /\ mem'.status \in Statuses
      /\ mem'.files = Unlisted
  BY <1>1, NoCopyGood DEF Statuses
<1>3. Plans' /\ Journal' /\ Copy'
  BY <1>1, <1>2, UnlistedGood DEF IInv, Plans, Journal, Copy, Truthful
<1>4. wpc # "merge" => attempt <= 2
  BY DEF IInv, Types
<1>5. wpc' # "merge" => attempt' <= 2
  BY <1>1, <1>4
<1>6. Types'
  BY <1>1, <1>2, <1>5 DEF IInv, Types, Statuses
<1> QED
  BY <1>3, <1>6 DEF IInv

LEMMA RemoveExistingKeeps == ASSUME IInv, RemoveExisting PROVE IInv'
<1>1. /\ epc = "replace" /\ epc' = "act"
      /\ UNCHANGED <<row, src, folder, jobs, wpc, job, scan, mem, agreed>>
      /\ lib' \in [Paths -> Contents]
  BY DEF RemoveExisting, IInv, Types, Contents
<1>2. Types'
  BY <1>1 DEF IInv, Types, row, scan
<1>3. Plans' /\ Journal' /\ Copy'
  BY <1>1 DEF IInv, Plans, Journal, Copy, row, scan
<1> QED
  BY <1>2, <1>3 DEF IInv

LEMMA MoveFileKeeps == ASSUME IInv, MoveFile PROVE IInv'
<1>1. /\ epc = "act" /\ Current \in src /\ src' = src \ {Current}
      /\ lib' = [lib EXCEPT ![Destination] = Current] /\ Did("move", Destination)
      /\ UNCHANGED <<row, folder, jobs, wpc, job, scan, agreed>>
  BY DEF MoveFile
<1>2. Destination \in Paths \cup {NoPath}
  BY <1>1, CurrentFacts
<1>3. lib' \in [Paths -> Contents] /\ folder' \in BOOLEAN
  BY <1>1 DEF IInv, Types, Contents
<1> QED
  BY <1>1, <1>2, <1>3, DidKeeps

LEMMA MoveRefusedKeeps == ASSUME IInv, MoveRefused PROVE IInv'
<1>1. /\ epc = "act" /\ \E how \in {"ended", "again"} : Abort(how)
      /\ src' = src /\ lib' \in {lib, [lib EXCEPT ![Destination] = Nothing]}
  BY DEF MoveRefused
<1>2. lib' \in [Paths -> Contents]
  BY <1>1 DEF IInv, Types, Contents
<1> QED
  BY <1>1, <1>2, AbortKeeps

LEMMA DeleteFileKeeps == ASSUME IInv, DeleteFile PROVE IInv'
<1>1. /\ epc = "act" /\ Did("delete", NoPath)
      /\ src' = IF Current = Root THEN {} ELSE src \ {Current}
      /\ folder' = (folder /\ Current # Root)
      /\ UNCHANGED <<row, lib, jobs, wpc, job, scan, agreed>>
  BY DEF DeleteFile
<1>2. src' \in SUBSET src /\ (Current = Root \/ Current \notin src')
  BY <1>1
<1>3. folder' \in BOOLEAN
  BY <1>1, Zenon
<1>4. lib' \in [Paths -> Contents]
  BY <1>1 DEF IInv, Types
<1> QED
  BY <1>1, <1>2, <1>3, <1>4, DidKeeps

LEMMA StorageFailsKeeps == ASSUME IInv, StorageFails PROVE IInv'
<1>1. /\ epc \in {"replace", "act"} /\ Abort("again") /\ src' = src
      /\ \/ UNCHANGED lib
         \/ lib' = [lib EXCEPT ![Destination] = Current] /\ Current \in src
         \/ lib' = [lib EXCEPT ![Destination] = Nothing]
  BY DEF StorageFails
<1>2. lib' \in [Paths -> Contents]
  BY <1>1 DEF IInv, Types, Contents
<1> QED
  BY <1>1, <1>2, AbortKeeps

LEMMA PersistKeeps == ASSUME IInv, Persist PROVE IInv'
<1>1. /\ epc = "persist" /\ files' = mem.files /\ status' = mem.status
      /\ epc' = Turn(mem.files)
      /\ UNCHANGED <<target, typed, disk, jobs, wpc, job, scan, mem, agreed>>
  BY DEF Persist
<1>2. /\ epc' \in {"replace", "act", "cleanup"}
      /\ epc' \in {"replace", "act"} => Pending(mem.files) # {}
  BY <1>1, TurnFacts
<1>3. Types'
  BY <1>1, <1>2 DEF IInv, Types, disk, scan
<1>4. Plans' /\ Journal' /\ Copy'
  BY <1>1, <1>2 DEF IInv, Plans, Journal, Copy, disk, scan
<1> QED
  BY <1>3, <1>4 DEF IInv

LEMMA CleanupKeeps == ASSUME IInv, Cleanup PROVE IInv'
<1>1. /\ epc = "cleanup" /\ epc' = "confirm"
      /\ folder' = (folder /\ (src # {} \/ Pending(mem.files) # {}))
      /\ UNCHANGED <<row, src, lib, jobs, wpc, job, scan, mem, agreed>>
  BY DEF Cleanup
<1>2. folder' \in BOOLEAN
  BY <1>1, Zenon
<1>3. Types'
  BY <1>1, <1>2 DEF IInv, Types, row, scan
<1>4. Plans' /\ Journal' /\ Copy'
  BY <1>1 DEF IInv, Plans, Journal, Copy, row, scan
<1> QED
  BY <1>3, <1>4 DEF IInv

LEMMA ConfirmKeeps == ASSUME IInv, Confirm PROVE IInv'
<1>1. /\ epc = "confirm" /\ files' = mem.files /\ epc' = "idle" /\ mem' = NoCopy
      /\ status' \in {"auto_moved", "confirmed", mem.status}
      /\ UNCHANGED <<target, typed, disk, jobs, job, snap, attempt, agreed>>
      /\ wpc' \in {wpc, "ended"} /\ wpc' # "hold"
      /\ wpc' = "merge" <=> wpc = "merge"
      /\ wpc' = "idle" => wpc = "idle"
  BY DEF Confirm, Unlock, WorkerEnds, ByWorker, scan
<1>2. mem' = [files |-> mem'.files, status |-> mem'.status] /\ mem'.status \in Statuses
      /\ mem'.files = Unlisted
  BY <1>1, NoCopyGood DEF Statuses
<1>3. Plans' /\ Journal' /\ Copy'
  BY <1>1, <1>2, UnlistedGood DEF IInv, Plans, Journal, Copy, Truthful, disk
<1>4. status' \in Statuses
  BY <1>1 DEF IInv, Types, Statuses, History
<1>5. Types'
  BY <1>1, <1>2, <1>4 DEF IInv, Types, disk
<1> QED
  BY <1>3, <1>5 DEF IInv

----------------------------------------------------------------------------
(* The worker.                                                              *)

LEMMA ClaimKeeps == ASSUME IInv, NEW w \in jobs, Claim(w) PROVE IInv'
<1>1. /\ wpc = "idle" /\ job' = w /\ wpc' = "start"
      /\ UNCHANGED <<row, disk, jobs, scan, exec, agreed>>
  BY DEF Claim
<1>2. Types'
  BY <1>1 DEF IInv, Types, row, disk, scan, exec
<1>3. epc' \in {"replace", "act"} => Pending(mem.files) # {}
  BY <1>1 DEF IInv, Copy, exec
<1>4. Plans' /\ Journal' /\ Copy'
  BY <1>1, <1>3 DEF IInv, Plans, Journal, Copy, row, disk, scan, exec
<1> QED
  BY <1>2, <1>4 DEF IInv

\* The worker goes on without the lock, and only its own variables change.
LEMMA WorkerMoves ==
  ASSUME IInv, wpc \in {"start", "merge", "ended", "again"}, wpc' # "hold",
         UNCHANGED <<row, disk, exec, agreed>>, Types', Good(snap')
  PROVE  IInv'
<1>1. epc' \in {"replace", "act"} => Pending(mem.files) # {}
  BY DEF IInv, Copy, exec
<1>2. Plans' /\ Journal' /\ Copy'
  BY <1>1 DEF IInv, Plans, Journal, Copy, row, disk, exec
<1> QED
  BY <1>2 DEF IInv

LEMMA RefusedKeeps == ASSUME IInv, Refused PROVE IInv'
<1>1. /\ wpc = "start" /\ wpc' \in {"ended", "again"} /\ attempt' = 0
      /\ UNCHANGED <<row, disk, jobs, job, snap, exec, agreed>>
  BY DEF Refused
<1>2. Types'
  BY <1>1 DEF IInv, Types, row, disk, exec
<1> QED
  BY <1>1, <1>2, WorkerMoves DEF IInv, Plans

LEMMA RecordKeeps == ASSUME IInv, Record PROVE IInv'
<1>1. /\ wpc \in {"ended", "again"} /\ wpc' = "idle" /\ job' = <<"none">>
      /\ jobs' \in SUBSET jobs
      /\ UNCHANGED <<row, disk, scan, exec, agreed>>
  BY DEF Record
<1>2. Types'
  BY <1>1 DEF IInv, Types, row, disk, scan, exec
<1> QED
  BY <1>1, <1>2, WorkerMoves DEF IInv, Plans, scan

LEMMA ScanConflictsKeeps ==
  ASSUME IInv, NEW listing \in Listings, ScanConflicts(listing) PROVE IInv'
<1>1. /\ wpc = "start" /\ wpc' = "merge" /\ attempt' = attempt + 1
      /\ snap' = DetectConflicts(files, listing)
      /\ UNCHANGED <<row, disk, jobs, job, exec, agreed>>
  BY DEF ScanConflicts, Starts
<1>2. Good(snap')
  BY <1>1, DetectGood DEF IInv, Plans, Good
<1>3. attempt' \in 0..3
  BY <1>1 DEF IInv, Types
<1>4. Types'
  BY <1>1, <1>3 DEF IInv, Types, row, disk, exec
<1> QED
  BY <1>1, <1>2, <1>4, WorkerMoves

LEMMA MergeConflictsKeeps == ASSUME IInv, MergeConflicts PROVE IInv'
<1>1. /\ wpc = "merge" /\ ~Locked /\ wpc' \in {"start", "ended"}
      /\ \/ /\ SamePlan(files, snap)
            /\ files' = [f \in DOMAIN files |->
                           [files[f] EXCEPT !.conflict = snap[f].conflict]]
         \/ files' = files
      /\ wpc' = "start" => attempt # 3
      /\ snap' = Unlisted /\ attempt' = IF wpc' = "ended" THEN 0 ELSE attempt
      /\ UNCHANGED <<status, target, typed, disk, jobs, job, exec, agreed>>
  BY DEF MergeConflicts
<1>2. Good(files) /\ Good(snap) /\ Truthful(files, src)
  BY DEF IInv, Plans, Journal
<1>3. Good(files') /\ Truthful(files', src')
  <2>1. CASE files' = files
    BY <1>1, <1>2, <2>1 DEF disk
  <2>2. CASE /\ SamePlan(files, snap)
             /\ files' = [f \in DOMAIN files |->
                            [files[f] EXCEPT !.conflict = snap[f].conflict]]
    <3>1. Good(files') /\ NoneNew(files, files')
      BY <1>2, <2>2, MergedGood
    <3> QED
      BY <1>1, <1>2, <3>1, StaysTrue DEF disk
  <2> QED
    BY <1>1, <2>1, <2>2
<1>4. attempt' \in 0..2
  BY <1>1 DEF IInv, Types
<1>5. Types'
  BY <1>1, <1>4 DEF IInv, Types, disk, exec
<1> QED
  BY <1>1, <1>3, <1>5, UnlistedGood, Unlocked

LEMMA ApplyPlanKeeps ==
  ASSUME IInv, NEW listing \in Listings, ApplyPlan(listing) PROVE IInv'
<1> DEFINE found == DetectConflicts(files, listing)
<1>1. /\ wpc = "start" /\ job[1] = "plan" /\ ~Locked
      /\ UNCHANGED <<target, typed, disk, jobs, job, scan, agreed>>
  BY DEF ApplyPlan, Starts
<1>2. /\ Good(files) /\ Good(snap) /\ Truthful(files, src)
      /\ Good(found) /\ DOMAIN found = DOMAIN files /\ NoneNew(files, found)
  BY DetectGood DEF IInv, Plans, Good, Journal, NoneNew
<1>3. Truthful(found, src)
  BY <1>2, StaysTrue
<1> HIDE DEF found
<1>4. CASE wpc' = "ended" /\ UNCHANGED <<status, exec>> /\ files' \in {files, found}
  <2>1. Types'
    BY <1>1, <1>4 DEF IInv, Types, disk, scan, exec
  <2> QED
    BY <1>1, <1>2, <1>3, <1>4, <2>1, Unlocked DEF scan, disk
<1>5. CASE /\ status' = "moving" /\ mem' = [files |-> found, status |-> status]
           /\ epc' = Turn(found) /\ wpc' = "hold" /\ UNCHANGED files
  <2>1. /\ mem'.files = found /\ mem'.status = status
        /\ mem' = [files |-> mem'.files, status |-> mem'.status]
    BY <1>5
  <2>2. /\ epc' \in {"replace", "act", "cleanup"}
        /\ epc' \in {"replace", "act"} => Pending(found) # {}
    BY <1>5, TurnFacts
  <2>3. Types'
    BY <1>1, <1>5, <2>1, <2>2 DEF IInv, Types, Statuses, disk, scan
  <2>4. Plans' /\ Journal'
    BY <1>1, <1>2, <1>3, <1>5, <2>1 DEF Plans, Journal, disk, scan
  <2>5. Copy'
    BY <1>1, <1>2, <1>5, <2>1, <2>2 DEF Copy
  <2> QED
    BY <2>3, <2>4, <2>5 DEF IInv
<1> QED
  BY <1>4, <1>5 DEF ApplyPlan, found

LEMMA ApplyFileActionKeeps == ASSUME IInv, ApplyFileAction PROVE IInv'
<1>1. /\ wpc = "start" /\ job[1] = "file" /\ ~Locked
      /\ UNCHANGED <<row, disk, jobs, job, scan, agreed>>
  BY DEF ApplyFileAction, Starts
<1>2. Good(files) /\ Good(snap) /\ Truthful(files, src)
  BY DEF IInv, Plans, Journal
<1>3. CASE wpc' = "ended" /\ UNCHANGED exec
  <2>1. Types'
    BY <1>1, <1>3 DEF IInv, Types, row, disk, scan, exec
  <2> QED
    BY <1>1, <1>2, <1>3, <2>1, Unlocked DEF scan, disk, row
<1>4. CASE /\ mem' = [files |-> files, status |-> status] /\ wpc' = "hold"
           /\ job[2] \in DOMAIN files /\ epc' = Stage(job[2], job[3], files)
  <2>1. /\ mem'.files = files /\ mem'.status = status
        /\ mem' = [files |-> mem'.files, status |-> mem'.status]
    BY <1>4
  <2>2. epc' \in {"replace", "act"}
    BY <1>4 DEF Stage
  <2>3. Types'
    BY <1>1, <1>4, <2>1, <2>2 DEF IInv, Types, row, disk, scan
  <2>4. Plans' /\ Journal' /\ Copy'
    BY <1>1, <1>2, <1>4, <2>1, <2>2 DEF Plans, Journal, Copy, row, disk, scan
  <2> QED
    BY <2>3, <2>4 DEF IInv
<1> QED
  BY <1>3, <1>4 DEF ApplyFileAction

LEMMA ReclassifyItemKeeps ==
  ASSUME IInv, NEW c \in [Files -> Actions], NEW d \in Dirs \cup {NoDir},
         ReclassifyItem(c, d)
  PROVE  IInv'
<1> DEFINE listed == Reconcile(files, src)
           decided == Decided(listed, c, d)
<1>1. /\ wpc = "start" /\ ~Locked /\ wpc' = "ended"
      /\ UNCHANGED <<disk, jobs, job, scan, exec, agreed>>
  BY DEF ReclassifyItem, Starts
<1>2. Good(files) /\ Good(snap) /\ Truthful(files, src) /\ src \in SUBSET Files
  BY DEF IInv, Plans, Journal, Types
<1>3. CASE UNCHANGED row
  <2>1. Types'
    BY <1>1, <1>3 DEF IInv, Types, row, disk, scan, exec
  <2> QED
    BY <1>1, <1>2, <1>3, <2>1, Unlocked DEF scan, disk, row
<1>4. CASE /\ src # {} /\ files' = DetectConflicts(decided, lib)
           /\ target' = d /\ typed' = TRUE /\ status' = "pending_review"
  <2>1. Good(listed) /\ Truthful(listed, src) /\ Root \notin DOMAIN listed
    BY <1>2, <1>4, ReconcileGood
  <2> HIDE DEF listed
  <2>2. Good(decided) /\ NoneNew(listed, decided)
    BY <2>1, DecidedGood
  <2>3. Truthful(decided, src)
    BY <2>1, <2>2, StaysTrue
  <2> HIDE DEF decided
  <2>4. Good(files') /\ NoneNew(decided, files')
    BY <1>4, <2>2, DetectGood DEF Good, NoneNew
  <2>5. Truthful(files', src')
    BY <1>1, <2>3, <2>4, StaysTrue DEF disk
  <2>6. Types'
    BY <1>1, <1>4 DEF IInv, Types, Statuses, disk, scan, exec
  <2> QED
    BY <1>1, <1>2, <2>4, <2>5, <2>6, Unlocked DEF scan
<1> QED
  BY <1>3, <1>4 DEF ReclassifyItem

LEMMA CreateTargetFolderKeeps ==
  ASSUME IInv, NEW d \in Dirs, CreateTargetFolder(d) PROVE IInv'
<1> DEFINE routed == RouteTo(files, d)
<1>1. /\ wpc = "start" /\ ~Locked /\ wpc' = "ended" /\ target' = d
      /\ files' = DetectConflicts(routed, lib) /\ status' = Reviewed
      /\ UNCHANGED <<typed, disk, jobs, job, scan, exec, agreed>>
  BY DEF CreateTargetFolder, Starts
<1>2. Good(files) /\ Good(snap) /\ Truthful(files, src)
  BY DEF IInv, Plans, Journal
<1>3. Good(routed) /\ NoneNew(files, routed)
  BY <1>2, RouteToGood
<1>4. Truthful(routed, src)
  BY <1>2, <1>3, StaysTrue
<1> HIDE DEF routed
<1>5. Good(files') /\ NoneNew(routed, files')
  BY <1>1, <1>3, DetectGood DEF Good, NoneNew
<1>6. Truthful(files', src')
  BY <1>1, <1>4, <1>5, StaysTrue DEF disk
<1>7. Types'
  BY <1>1 DEF IInv, Types, Reviewed, Statuses, disk, scan, exec
<1> QED
  BY <1>1, <1>2, <1>5, <1>6, <1>7, Unlocked DEF scan

----------------------------------------------------------------------------
(* The scanner.                                                             *)

LEMMA NewRowKeeps ==
  ASSUME IInv, ~Locked, NEW s \in Statuses, NEW t \in BOOLEAN, NEW p, Good(p),
         Truthful(p, src), NEW d \in Dirs \cup {NoDir}, NewRow(s, t, p, d),
         UNCHANGED <<disk, jobs, wpc, job, scan, exec, agreed>>
  PROVE  IInv'
<1>1. Types'
  BY DEF NewRow, IInv, Types, disk, scan, exec
<1> QED
  BY <1>1, UnlockedFacts, Unlocked DEF NewRow, IInv, Plans, disk, scan

LEMMA FindWithoutAIKeeps == ASSUME IInv, FindWithoutAI PROVE IInv'
<1>1. ~Locked /\ UNCHANGED <<disk, jobs, wpc, job, scan, exec, agreed>>
  BY DEF FindWithoutAI, Candidate
<1>2. src \in SUBSET Files
  BY DEF IInv, Types
<1>3. CASE NewRow("pending_review", TRUE, EmptyFolder, NoDir)
  <2>1. Good(EmptyFolder) /\ Truthful(EmptyFolder, src)
    BY EmptyFolderGood DEF Truthful
  <2> QED
    BY <1>1, <1>3, <2>1, NewRowKeeps DEF Statuses
<1>4. CASE NewRow("pending_review", FALSE, Listed(src), NoDir)
  <2>1. Good(Listed(src)) /\ Truthful(Listed(src), src)
    BY <1>2, ListedGood DEF Truthful
  <2> QED
    BY <1>1, <1>4, <2>1, NewRowKeeps DEF Statuses
<1> QED
  BY <1>3, <1>4 DEF FindWithoutAI

LEMMA ClassifyFailsKeeps == ASSUME IInv, ClassifyFails PROVE IInv'
<1>1. /\ ~Locked /\ NewRow("error", FALSE, Listed(src), NoDir)
      /\ UNCHANGED <<disk, jobs, wpc, job, scan, exec, agreed>>
  BY DEF ClassifyFails, Candidate
<1>2. src \in SUBSET Files
  BY DEF IInv, Types
<1>3. Good(Listed(src)) /\ Truthful(Listed(src), src)
  BY <1>2, ListedGood DEF Truthful
<1> QED
  BY <1>1, <1>3, NewRowKeeps DEF Statuses

LEMMA ClassifyKeeps ==
  ASSUME IInv, NEW c \in [Files -> Actions], NEW d \in Dirs \cup {NoDir}, Classify(c, d)
  PROVE  IInv'
<1> DEFINE decided == Decided(Listed(src), c, d)
           plan == DetectConflicts(decided, lib)
<1>1. ~Locked /\ UNCHANGED <<disk, jobs, wpc, job, scan, agreed>>
  BY DEF Classify, Candidate
<1>2. src \in SUBSET Files /\ Root \notin src
  BY FilesAssumption DEF IInv, Types
<1>3. Good(plan) /\ Truthful(plan, src)
  <2>1. Good(Listed(src)) /\ Truthful(Listed(src), src) /\ Root \notin DOMAIN Listed(src)
    BY <1>2, ListedGood DEF Truthful
  <2>2. Good(decided) /\ NoneNew(Listed(src), decided)
    BY <2>1, DecidedGood
  <2>3. Truthful(decided, src)
    BY <2>1, <2>2, StaysTrue
  <2> HIDE DEF decided
  <2>4. Good(plan) /\ NoneNew(decided, plan)
    BY <2>2, DetectGood DEF Good, NoneNew
  <2> QED
    BY <2>3, <2>4, StaysTrue
<1>4. \/ NewRow("pending_review", TRUE, plan, d) /\ UNCHANGED exec
      \/ /\ NewRow("moving", TRUE, plan, d) /\ epc' = Turn(plan)
         /\ mem' = [files |-> plan, status |-> "moving"]
  BY DEF Classify
<1> HIDE DEF decided, plan
<1>5. CASE NewRow("pending_review", TRUE, plan, d) /\ UNCHANGED exec
  BY <1>1, <1>3, <1>5, NewRowKeeps DEF Statuses
<1>6. CASE /\ NewRow("moving", TRUE, plan, d) /\ epc' = Turn(plan)
           /\ mem' = [files |-> plan, status |-> "moving"]
  <2>1. /\ mem'.files = plan /\ mem'.status = "moving" /\ files' = plan
        /\ mem' = [files |-> mem'.files, status |-> mem'.status]
    BY <1>6 DEF NewRow
  <2>2. /\ epc' \in {"replace", "act", "cleanup"}
        /\ epc' \in {"replace", "act"} => Pending(plan) # {}
    BY <1>6, TurnFacts
  <2>3. Types'
    BY <1>1, <1>6, <2>1, <2>2 DEF NewRow, IInv, Types, Statuses, disk, scan
  <2>4. Plans' /\ Journal'
    BY <1>1, <1>3, <2>1 DEF IInv, Plans, Journal, disk, scan
  <2>5. wpc' # "hold"
    BY <1>1, UnlockedFacts
  <2>6. Copy'
    BY <2>1, <2>2, <2>5 DEF Copy
  <2> QED
    BY <2>3, <2>4, <2>6 DEF IInv
<1> QED
  BY <1>4, <1>5, <1>6

LEMMA SweepLeftoverKeeps == ASSUME IInv, SweepLeftover PROVE IInv'
<1>1. ~Locked /\ folder' = FALSE /\ UNCHANGED <<row, src, lib, jobs, wpc, job, scan, exec, agreed>>
  BY DEF SweepLeftover
<1>2. Types'
  BY <1>1 DEF IInv, Types, row, scan, exec
<1>3. Plans' /\ Journal' /\ Copy'
  BY <1>1 DEF IInv, Plans, Journal, Copy, row, scan, exec
<1> QED
  BY <1>2, <1>3 DEF IInv

LEMMA RefreshItemKeeps == ASSUME IInv, RefreshItem PROVE IInv'
<1>1. ~Locked /\ UNCHANGED <<disk, wpc, job, scan, exec, agreed>>
  BY DEF RefreshItem
<1>2. /\ Good(files) /\ Good(snap) /\ Truthful(files, src) /\ src \in SUBSET Files
      /\ wpc # "hold"
  BY <1>1, UnlockedFacts DEF IInv, Plans, Journal, Types
<1>3. CASE Running = {} /\ jobs' = {} /\ UNCHANGED row
  <2>1. wpc = "idle" /\ job = <<"none">>
    BY <1>3 DEF Running, IInv, Types
  <2>2. Types'
    BY <1>1, <1>3, <2>1 DEF IInv, Types, row, disk, scan, exec
  <2> QED
    BY <1>1, <1>2, <1>3, <2>2, Unlocked DEF row, disk, scan
<1>4. CASE Running = {} /\ jobs' = {} /\ NewRow("absent", FALSE, Unlisted, NoDir)
  <2>1. wpc = "idle" /\ job = <<"none">>
    BY <1>4 DEF Running, IInv, Types
  <2>2. Types'
    BY <1>1, <1>4, <2>1 DEF NewRow, IInv, Types, Statuses, disk, scan, exec
  <2>3. Good(files') /\ Truthful(files', src')
    BY <1>4, UnlistedGood DEF NewRow, Truthful
  <2> QED
    BY <1>1, <1>2, <2>2, <2>3, Unlocked DEF scan
<1>5. CASE /\ jobs' = {w \in jobs : StillThere(w) \/ w \in Running}
           /\ files' = Reconcile(files, src) /\ UNCHANGED <<status, target, typed>>
  <2>1. Good(files') /\ Truthful(files', src')
    BY <1>1, <1>2, <1>5, ReconcileGood DEF disk
  <2>2. job \in jobs' \cup {<<"none">>}
    BY <1>5 DEF IInv, Types, Running
  <2>3. jobs' \in SUBSET Works
    BY <1>5 DEF IInv, Types
  <2>4. Types'
    BY <1>1, <1>5, <2>2, <2>3 DEF IInv, Types, disk, scan, exec
  <2> QED
    BY <1>1, <1>2, <2>1, <2>4, Unlocked DEF scan
<1> QED
  BY <1>3, <1>4, <1>5 DEF RefreshItem

----------------------------------------------------------------------------
(* The environment.                                                         *)

LEMMA CrashKeeps == ASSUME IInv, Crash PROVE IInv'
<1>1. /\ wpc' = "idle" /\ job' = <<"none">> /\ snap' = Unlisted /\ attempt' = 0
      /\ epc' = "idle" /\ mem' = NoCopy /\ UNCHANGED <<row, disk, jobs, agreed>>
  BY DEF Crash, Unlock
<1>2. mem' = [files |-> mem'.files, status |-> mem'.status] /\ mem'.status \in Statuses
      /\ mem'.files = Unlisted
  BY <1>1, NoCopyGood DEF Statuses
<1>3. Plans' /\ Journal' /\ Copy'
  BY <1>1, <1>2, UnlistedGood DEF IInv, Plans, Journal, Copy, Truthful, row, disk
<1>4. Types'
  BY <1>1, <1>2 DEF IInv, Types, row, disk
<1> QED
  BY <1>3, <1>4 DEF IInv

LEMMA ArriveKeeps == ASSUME IInv, NEW f \in Files, Arrive(f) PROVE IInv'
<1>1. /\ f \notin DOMAIN files /\ src' = src \cup {f}
      /\ UNCHANGED <<row, folder, lib, jobs, wpc, job, scan, exec, agreed>>
  BY DEF Arrive
<1>2. Types'
  BY <1>1 DEF IInv, Types, row, scan, exec
<1>3. f \notin DOMAIN mem.files
  BY <1>1 DEF IInv, Copy
<1>4. Journal'
  BY <1>1, <1>3 DEF IInv, Journal, Truthful, row, exec
<1>5. Plans' /\ Copy'
  BY <1>1 DEF IInv, Plans, Copy, row, scan, exec
<1> QED
  BY <1>2, <1>4, <1>5 DEF IInv

----------------------------------------------------------------------------
(* The theorems.                                                            *)

LEMMA NextKeeps == ASSUME IInv, Next PROVE IInv'
<1>1. CASE User
  BY <1>1, PlanFileActionKeeps, SetItemTargetKeeps, ResolveConflictKeeps, EnqueueKeeps,
     RejectItemKeeps DEF User
<1>2. CASE Execution
  BY <1>2, RemoveExistingKeeps, MoveFileKeeps, MoveRefusedKeeps, DeleteFileKeeps,
     PersistKeeps, CleanupKeeps, ConfirmKeeps DEF Execution
<1>3. CASE Work
  BY <1>3, ClaimKeeps, RefusedKeeps, ApplyFileActionKeeps, MergeConflictsKeeps,
     ApplyPlanKeeps, ScanConflictsKeeps, ReclassifyItemKeeps, CreateTargetFolderKeeps,
     RecordKeeps DEF Work
<1>4. CASE Scanner
  BY <1>4, FindWithoutAIKeeps, ClassifyFailsKeeps, SweepLeftoverKeeps, RefreshItemKeeps,
     ClassifyKeeps DEF Scanner
<1>5. CASE Environment
  BY <1>5, CrashKeeps, StorageFailsKeeps, ArriveKeeps DEF Environment
<1> QED
  BY <1>1, <1>2, <1>3, <1>4, <1>5 DEF Next

THEOREM Invariant == Spec => []IInv
<1>1. IInv /\ [Next]_vars => IInv'
  <2> SUFFICES ASSUME IInv, [Next]_vars PROVE IInv'
    OBVIOUS
  <2>1. CASE UNCHANGED vars
    BY <2>1 DEF vars, row, disk, scan, exec, IInv, Types, Plans, Journal, Copy
  <2> QED
    BY <2>1, NextKeeps
<1> QED
  BY <1>1, InitIInv, PTL DEF Spec

\* The row, the copy, the queue and the disk keep their types.
THEOREM TypeCorrect == Spec => []TypeOK
<1>1. IInv => TypeOK
  <2> SUFFICES ASSUME IInv PROVE TypeOK
    OBVIOUS
  <2>1. \A plan \in {files, snap, mem.files} :
          DOMAIN plan \subseteq Entry /\ plan \in [DOMAIN plan -> FileRec]
    BY DEF IInv, Plans, Good, IsPlan
  <2> QED
    BY <2>1 DEF IInv, Types, TypeOK, Statuses, Contents, Works
<1> QED
  BY <1>1, Invariant, PTL

\* A file recorded as done has left the source, however the execution was
\* interrupted, and whatever is listed, planned or classified meanwhile.
THEOREM JournalIsTrue == Spec => []DoneIsTrue
<1>1. IInv => DoneIsTrue
  BY DEF IInv, Journal, Truthful, DoneIsTrue
<1> QED
  BY <1>1, Invariant, PTL

\* A recorded collision belongs to the plan it stands in, although scans read the
\* plan without the lock and write what they have found later.
THEOREM CollisionsMatch == Spec => []ConflictMatchesPlan
<1>1. IInv => ConflictMatchesPlan
  <2> SUFFICES ASSUME IInv PROVE ConflictMatchesPlan
    OBVIOUS
  <2>1. ASSUME NEW f \in DOMAIN files
        PROVE  files[f].done \in BOOLEAN /\ files[f].over \in BOOLEAN
    BY DEF IInv, Plans, Good, IsPlan, FileRec
  <2> QED
    BY <2>1 DEF IInv, Plans, Good, Sound, ConflictMatchesPlan
<1> QED
  BY <1>1, Invariant, PTL

----------------------------------------------------------------------------
(* The queue as ItemPlan sees it implements WorkQueue: what the worker has  *)
(* claimed stays open under it, and only an item that is there has works,   *)
(* also while an execution is about to write its row.                       *)

Registered ==
  /\ wpc # "idle" => job \in jobs
  /\ status = "absent" => jobs = {} /\ DOMAIN files = {}
  /\ Locked => status # "absent" /\ mem.status # "absent"

\* Nothing that WorkQueue speaks of.
Quiet ==
  /\ UNCHANGED <<jobs, job>>
  /\ wpc' = "idle" <=> wpc = "idle"
  /\ status' = "absent" <=> status = "absent"

\* The actions in which the queue plays no part.
Unconcerned(listing, c, d) ==
  \/ RejectItem \/ Execution \/ StorageFails \/ Refused \/ ApplyFileAction \/ MergeConflicts
  \/ ApplyPlan(listing) \/ ScanConflicts(listing) \/ ReclassifyItem(c, d)
  \/ CreateTargetFolder(d) \/ SweepLeftover
  \/ (\E f \in DOMAIN files : ResolveConflict(f)) \/ (\E f \in Files : Arrive(f))

LEMMA AbortQuiet ==
  ASSUME IInv, Registered, Locked, NEW how \in {"ended", "again"}, Abort(how)
  PROVE  Quiet /\ Registered'
<1>1. status' = "error" /\ epc' = "idle" /\ UNCHANGED <<jobs, job>>
  BY DEF Abort, Unlock
<1>2. wpc' = "idle" <=> wpc = "idle"
  BY DEF Abort, WorkerEnds, ByWorker
<1>3. Quiet
  BY <1>1, <1>2 DEF Registered, Quiet
<1>4. Registered'
  BY <1>1, <1>2 DEF Registered, Locked
<1> QED
  BY <1>3, <1>4

LEMMA UnconcernedQuiet ==
  ASSUME IInv, Registered, NEW listing, NEW c, NEW d, Unconcerned(listing, c, d)
  PROVE  Quiet /\ Registered'
<1>1. ASSUME Quiet, UNCHANGED files, Locked' => Locked, mem' = mem PROVE Registered'
  BY <1>1 DEF Quiet, Registered
<1>2. ASSUME Quiet, status # "absent", Locked' => mem'.status # "absent" PROVE Registered'
  BY <1>2 DEF Quiet, Registered
<1>3. CASE RejectItem \/ Refused \/ ScanConflicts(listing) \/ SweepLeftover
           \/ \E f \in Files : Arrive(f)
  <2>1. Quiet /\ UNCHANGED files /\ epc' = epc /\ mem' = mem
    BY <1>3 DEF RejectItem, Refused, ScanConflicts, Starts, SweepLeftover, Arrive, Quiet,
       row, exec
  <2> QED
    BY <1>1, <2>1 DEF Locked
<1>4. CASE Execution
  <2>1. CASE MoveRefused
    <3>1. PICK how \in {"ended", "again"} : Abort(how)
      BY <2>1 DEF MoveRefused
    <3> QED
      BY <2>1, <3>1, AbortQuiet DEF MoveRefused, Locked
  <2>2. CASE RemoveExisting \/ MoveFile \/ DeleteFile \/ Cleanup
    <3>1. Quiet /\ UNCHANGED files /\ Locked
      BY <2>2 DEF RemoveExisting, MoveFile, DeleteFile, Cleanup, Quiet, row, Locked
    <3>2. mem'.status = mem.status
      <4>1. CASE mem' = mem
        BY <4>1
      <4>2. CASE MoveFile \/ DeleteFile
        <5>1. PICK e : mem' = [mem EXCEPT !.files[Current] = e]
          BY <4>2 DEF MoveFile, DeleteFile, Did
        <5> QED
          BY <5>1 DEF IInv, Types
      <4> QED
        BY <2>2, <4>1, <4>2 DEF RemoveExisting, Cleanup
    <3> QED
      BY <3>1, <3>2 DEF Registered, Quiet
  <2>3. CASE Persist
    <3>1. Quiet /\ Locked /\ mem' = mem
      BY <2>3 DEF Persist, Quiet, Registered, Locked
    <3> QED
      BY <1>2, <3>1 DEF Registered
  <2>4. CASE Confirm
    <3>1. Locked /\ status' # "absent" /\ epc' = "idle" /\ UNCHANGED <<jobs, job>>
      BY <2>4 DEF Confirm, Registered, Unlock, Locked
    <3>2. wpc' = "idle" <=> wpc = "idle"
      BY <2>4 DEF Confirm, WorkerEnds, ByWorker
    <3>3. Quiet /\ status # "absent"
      BY <3>1, <3>2 DEF Quiet, Registered
    <3> QED
      BY <1>2, <3>1, <3>3 DEF Locked
  <2> QED
    BY <1>4, <2>1, <2>2, <2>3, <2>4 DEF Execution
<1>5. CASE StorageFails
  BY <1>5, AbortQuiet DEF StorageFails, Locked
<1>6. CASE MergeConflicts
  <2>1. Quiet /\ UNCHANGED status /\ epc' = epc /\ mem' = mem
    BY <1>6 DEF MergeConflicts, Quiet, exec
  <2>2. status = "absent" => UNCHANGED files
    BY <1>6 DEF MergeConflicts
  <2> QED
    BY <1>1, <1>2, <2>1, <2>2 DEF Locked, Registered
<1>7. CASE ApplyPlan(listing) \/ ApplyFileAction \/ ReclassifyItem(c, d) \/ CreateTargetFolder(d)
  <2>1. status # "absent" /\ ~Locked /\ UNCHANGED <<jobs, job>> /\ wpc # "idle" /\ wpc' # "idle"
    BY <1>7 DEF ApplyPlan, ApplyFileAction, ReclassifyItem, CreateTargetFolder, Starts
  <2>2. status' # "absent"
    BY <1>7, <2>1 DEF ApplyPlan, ApplyFileAction, ReclassifyItem, CreateTargetFolder,
       Reviewed, row
  <2>3. \/ UNCHANGED exec
        \/ \E q : mem' = [files |-> q, status |-> status]
    BY <1>7 DEF ApplyPlan, ApplyFileAction, ReclassifyItem, CreateTargetFolder
  <2>4. Locked' => mem'.status # "absent"
    BY <2>1, <2>3 DEF exec, Locked
  <2> QED
    BY <1>2, <2>1, <2>2, <2>4 DEF Quiet
<1>8. ASSUME NEW f \in DOMAIN files, ResolveConflict(f) PROVE Quiet /\ Registered'
  <2>1. status # "absent" /\ Quiet /\ epc' = epc /\ ~Locked
    BY <1>8 DEF ResolveConflict, Quiet, Registered, exec
  <2> QED
    BY <1>2, <2>1 DEF Locked
<1> QED
  BY <1>3, <1>4, <1>5, <1>6, <1>7, <1>8 DEF Unconcerned

LEMMA QuietIsHidden ==
  ASSUME Quiet PROVE UNCHANGED <<knownBar, openBar, runningBar>>
BY DEF Quiet, knownBar, openBar, runningBar

\* Of an item that is there, w becomes open.
LEMMA Accepting ==
  ASSUME status # "absent", status' # "absent", UNCHANGED <<wpc, job>>,
         NEW w \in Works, jobs' = jobs \cup {w}
  PROVE  Abs!Accept(TheItem, w)
<1>1. knownBar = {TheItem} /\ knownBar' = {TheItem}
  BY DEF knownBar
<1>2. openBar' = openBar \cup {<<TheItem, w>>}
  BY DEF openBar
<1>3. runningBar' = runningBar
  BY DEF runningBar
<1> QED
  BY <1>1, <1>2, <1>3 DEF Abs!Accept

LEMMA ItemQueueStep ==
  ASSUME IInv, Registered, [Next]_vars
  PROVE  /\ Registered'
         /\ Abs!QueueNext \/ UNCHANGED <<knownBar, openBar, runningBar>>
<1> USE DEF Abs!QueueNext
<1> DEFINE Step == Abs!QueueNext \/ UNCHANGED <<knownBar, openBar, runningBar>>
           Goal == Registered' /\ Step
<1>1. ASSUME NEW listing, NEW c, NEW d, Unconcerned(listing, c, d) PROVE Goal
  BY <1>1, UnconcernedQuiet, QuietIsHidden
<1>2. CASE User
  <2>1. ASSUME NEW w \in Works, status # "absent", status' # "absent", UNCHANGED <<wpc, job>>,
               jobs' = jobs \cup {w}, epc' = epc, mem' = mem
        PROVE  Goal
    <3>1. Registered'
      BY <2>1 DEF Registered, Locked
    <3>2. TheItem \in {TheItem} /\ w \in Requests \cup {<<"detect">>}
      BY DEF Works
    <3>3. Abs!Accept(TheItem, w)
      BY <2>1, Accepting
    <3> QED
      BY <3>1, <3>2, <3>3
  <2>2. ASSUME NEW f \in DOMAIN files, NEW a \in Actions, PlanFileAction(f, a) PROVE Goal
    <3>1. status # "absent"
      BY DEF Registered
    <3>2. <<"detect">> \in Works /\ jobs' = jobs \cup {<<"detect">>} /\ status' = Reviewed
          /\ UNCHANGED <<wpc, job, epc, mem>>
      BY <2>2 DEF PlanFileAction, Works, exec
    <3> QED
      BY <2>1, <3>1, <3>2 DEF Reviewed
  <2>3. ASSUME NEW d \in Dirs, SetItemTarget(d) PROVE Goal
    <3>1. <<"detect">> \in Works /\ jobs' = jobs \cup {<<"detect">>} /\ status' = Reviewed
          /\ status # "absent" /\ UNCHANGED <<wpc, job, epc, mem>>
      BY <2>3 DEF SetItemTarget, Works, exec
    <3> QED
      BY <2>1, <3>1 DEF Reviewed
  <2>4. ASSUME NEW w \in Requests, Enqueue(w) PROVE Goal
    <3>1. w \in Works /\ jobs' = jobs \cup {w} /\ status # "absent"
          /\ UNCHANGED <<status, wpc, job, epc, mem>>
      BY <2>4 DEF Enqueue, Works, row, exec
    <3> QED
      BY <2>1, <3>1
  <2>5. CASE RejectItem \/ \E f \in DOMAIN files : ResolveConflict(f)
    BY <1>1, <2>5 DEF Unconcerned
  <2> QED
    BY <1>2, <2>2, <2>3, <2>4, <2>5 DEF User
<1>3. CASE Work
  <2>1. ASSUME NEW w \in jobs, Claim(w) PROVE Goal
    <3>1. Registered'
      BY <2>1 DEF Claim, Registered, row, exec, Locked
    <3>2. runningBar = {} /\ runningBar' = {<<TheItem, w>>}
      BY <2>1 DEF Claim, runningBar
    <3>3. UNCHANGED <<knownBar, openBar>> /\ <<TheItem, w>> \in openBar
      BY <2>1 DEF Claim, knownBar, openBar, row
    <3>4. Abs!Begin(<<TheItem, w>>)
      BY <3>2, <3>3 DEF Abs!Begin
    <3> QED
      BY <3>1, <3>3, <3>4
  <2>2. CASE Record
    <3>1. Registered'
      BY <2>2 DEF Record, Registered, row, exec, Locked
    <3>2. runningBar = {<<TheItem, job>>} /\ runningBar' = {} /\ knownBar' = knownBar
      BY <2>2 DEF Record, runningBar, knownBar, row
    <3>3. CASE wpc = "ended"
      <4>1. openBar' = openBar \ {<<TheItem, job>>}
        BY <2>2, <3>3 DEF Record, openBar
      <4> QED
        BY <3>1, <3>2, <4>1 DEF Abs!Finish
    <3>4. CASE wpc # "ended"
      <4>1. openBar' = openBar
        BY <2>2, <3>4 DEF Record, openBar
      <4> QED
        BY <3>1, <3>2, <4>1 DEF Abs!Return
    <3> QED
      BY <3>3, <3>4
  <2>3. CASE Refused \/ ApplyFileAction \/ MergeConflicts
    BY <1>1, <2>3 DEF Unconcerned
  <2>4. ASSUME NEW listing \in Listings, ApplyPlan(listing) \/ ScanConflicts(listing) PROVE Goal
    BY <1>1, <2>4 DEF Unconcerned
  <2>5. ASSUME NEW c \in [Files -> Actions], NEW d \in Dirs \cup {NoDir},
               ReclassifyItem(c, d) \/ CreateTargetFolder(d)
        PROVE  Goal
    BY <1>1, <2>5 DEF Unconcerned
  <2>6. ASSUME NEW d \in Dirs, CreateTargetFolder(d) PROVE Goal
    BY <1>1, <2>6 DEF Unconcerned
  <2> QED
    BY <1>3, <2>1, <2>2, <2>3, <2>4, <2>5, <2>6 DEF Work
<1>4. CASE Scanner
  <2>1. ASSUME NEW s, NEW t, NEW p, NEW d, NewRow(s, t, p, d), ~Locked, s # "absent",
               UNCHANGED <<jobs, wpc, job>>,
               UNCHANGED exec \/ mem'.status # "absent"
        PROVE  Goal
    <3>1. Registered'
      BY <2>1 DEF NewRow, Registered, exec, Locked
    <3>2. UNCHANGED <<openBar, runningBar>> /\ knownBar' = {TheItem}
      BY <2>1 DEF NewRow, openBar, runningBar, knownBar
    <3>3. CASE status = "absent"
      <4>1. knownBar = {}
        BY <3>3 DEF knownBar
      <4>2. Abs!Register(TheItem)
        BY <3>2, <4>1 DEF Abs!Register
      <4> QED
        BY <3>1, <4>2
    <3>4. CASE status # "absent"
      <4>1. knownBar = {TheItem}
        BY <3>4 DEF knownBar
      <4> QED
        BY <3>1, <3>2, <4>1
    <3> QED
      BY <3>3, <3>4
  <2>2. CASE FindWithoutAI \/ ClassifyFails
    <3>1. PICK s \in {"pending_review", "error"}, t \in BOOLEAN, p \in {EmptyFolder, Listed(src)} :
            NewRow(s, t, p, NoDir)
      BY <2>2 DEF FindWithoutAI, ClassifyFails
    <3>2. UNCHANGED <<jobs, wpc, job, exec>> /\ ~Locked
      BY <2>2 DEF FindWithoutAI, ClassifyFails, Candidate
    <3> QED
      BY <2>1, <3>1, <3>2
  <2>3. ASSUME NEW c \in [Files -> Actions], NEW d \in Dirs \cup {NoDir}, Classify(c, d)
        PROVE  Goal
    <3> DEFINE plan == DetectConflicts(Decided(Listed(src), c, d), lib)
    <3>1. /\ UNCHANGED <<jobs, wpc, job>> /\ ~Locked
          /\ \/ NewRow("pending_review", TRUE, plan, d) /\ UNCHANGED exec
             \/ NewRow("moving", TRUE, plan, d) /\ mem' = [files |-> plan, status |-> "moving"]
      BY <2>3 DEF Classify, Candidate
    <3> HIDE DEF plan
    <3>2. CASE NewRow("pending_review", TRUE, plan, d) /\ UNCHANGED exec
      BY <2>1, <3>1, <3>2
    <3>3. CASE NewRow("moving", TRUE, plan, d) /\ mem' = [files |-> plan, status |-> "moving"]
      <4>1. mem'.status # "absent"
        BY <3>3
      <4> QED
        BY <2>1, <3>1, <3>3, <4>1
    <3> QED
      BY <3>1, <3>2, <3>3
  <2>4. CASE SweepLeftover
    BY <1>1, <2>4 DEF Unconcerned
  <2>5. CASE RefreshItem
    <3>1. ~Locked /\ UNCHANGED <<wpc, job, epc, mem>> /\ jobs' \subseteq jobs
      BY <2>5 DEF RefreshItem, exec
    <3>2. wpc # "idle" => job \in jobs'
      BY <2>5 DEF RefreshItem, Running, Registered
    <3>3. status' = "absent" => jobs' = {} /\ DOMAIN files' = {}
      <4>1. CASE ~folder /\ Running = {} /\ jobs' = {}
        BY <2>5, <4>1, UnlistedGood DEF RefreshItem, NewRow, History, row
      <4>2. CASE UNCHANGED status
        BY <2>5, <4>2 DEF RefreshItem
      <4> QED
        BY <2>5, <4>1, <4>2 DEF RefreshItem
    <3>4. Registered'
      BY <3>1, <3>2, <3>3 DEF Registered, Locked
    <3>5. openBar' \subseteq openBar /\ knownBar' \subseteq knownBar
      BY <2>5, <3>1 DEF RefreshItem, openBar, knownBar
    <3>6. runningBar' = runningBar /\ runningBar \subseteq openBar'
      BY <3>1, <3>2 DEF runningBar, openBar
    <3>7. \A p \in openBar' : p[1] \in knownBar'
      BY <3>3 DEF openBar, knownBar
    <3>8. Abs!Withdraw
      BY <3>5, <3>6, <3>7 DEF Abs!Withdraw
    <3> QED
      BY <3>4, <3>8
  <2> QED
    BY <1>4, <2>2, <2>3, <2>4, <2>5 DEF Scanner
<1>5. CASE Environment
  <2>1. CASE Crash
    <3>1. Registered'
      BY <2>1 DEF Crash, Unlock, Registered, Locked, row
    <3>2. UNCHANGED <<knownBar, openBar>> /\ runningBar' = {}
      BY <2>1 DEF Crash, knownBar, openBar, runningBar, row
    <3>3. runningBar = {} \/ Abs!Return
      BY <3>2 DEF Abs!Return
    <3> QED
      BY <3>1, <3>2, <3>3
  <2>2. CASE StorageFails \/ \E f \in Files : Arrive(f)
    BY <1>1, <2>2 DEF Unconcerned
  <2> QED
    BY <1>5, <2>1, <2>2 DEF Environment
<1>6. CASE UNCHANGED vars
  <2>1. Quiet /\ UNCHANGED <<files, status, mem>> /\ (Locked' <=> Locked)
    BY <1>6 DEF vars, row, exec, Quiet, Locked
  <2>2. Registered'
    BY <2>1 DEF Quiet, Registered
  <2> QED
    BY <2>1, <2>2, QuietIsHidden
<1>7. CASE Execution
  BY <1>1, <1>7 DEF Unconcerned
<1> QED
  BY <1>2, <1>3, <1>4, <1>5, <1>6, <1>7 DEF Next

\* User, scanner, executions and crashes do to the works of an item only what
\* WorkQueue allows, which JobQueue has been shown to keep (handlers.go,
\* reconcile.go, queue.go).
THEOREM WorksAreKept == Spec => ImplementsWorkQueue
<1>1. Init => Registered /\ Abs!QueueInit
  BY UnlistedGood DEF Init, Registered, Locked, Abs!QueueInit, knownBar, openBar, runningBar
<1>2. IInv /\ Registered /\ [Next]_vars => Registered' /\ [Abs!QueueNext]_(Abs!queueVars)
  BY ItemQueueStep DEF Abs!queueVars
<1> QED
  BY <1>1, <1>2, Invariant, PTL DEF Spec, ImplementsWorkQueue, Abs!QueueSpec
=============================================================================
