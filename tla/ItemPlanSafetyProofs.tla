------------------------- MODULE ItemPlanSafetyProofs -------------------------
(***************************************************************************)
(* What ItemPlan promises about files: none is lost or moved past a        *)
(* collision without a decision, the row tells which have left, a          *)
(* collision is never with the item's own file, a plan leads to the target *)
(* - for any files, folders and names, and for all events but those that   *)
(* each theorem names, without which it is false.                          *)
(*                                                                         *)
(* First, what the functions of FilePlan leave alone (Revises).  Then the  *)
(* steps of ItemPlan are sorted by what they do to plan and disk (Steps),  *)
(* so that each invariant is shown for eight kinds of steps and not for    *)
(* twenty-eight actions.                                                   *)
(***************************************************************************)
EXTENDS ItemPlanProofs

\* A revision q of plan p, with the files s in the source: nothing is marked as
\* done, what is open was open or is there, what is done gets no new collision.
Revises(p, q, s) ==
  /\ NoneNew(p, q)
  /\ Root \in DOMAIN q => s = {} \/ DOMAIN q \subseteq DOMAIN p
  /\ \A f \in DOMAIN q :
       /\ q[f].done = FALSE =>
            f = Root \/ f \in s \/ (f \in DOMAIN p /\ p[f].done = FALSE)
       /\ q[f].conflict # NoPath =>
            q[f].done = FALSE \/ (f \in DOMAIN p /\ p[f].conflict # NoPath)

\* No decision to replace is new.
Overs(p, q) == \A f \in DOMAIN q : q[f].over = TRUE =>
  f \in DOMAIN p /\ p[f].over = TRUE /\ q[f].overPath = p[f].overPath

\* The names an existing file may have that the file f collides with.
Colliding(f) == {n \in Names : n = Base[f] \/ <<n, Base[f]>> \in SameEpisode}

\* Paths in a plan have the names of their files, or collide with them.
Placed(p) == \A f \in DOMAIN p :
  /\ p[f].dest # NoPath => f \in Files /\ p[f].dest[2] = Base[f]
  /\ p[f].conflict # NoPath => f \in Files /\ p[f].conflict[2] \in Colliding(f)
  /\ p[f].overPath # NoPath => f \in Files /\ p[f].overPath[2] \in Colliding(f)

\* What is done collides with nothing, as far as a scan tells.
Closed(p) == \A f \in DOMAIN p : p[f].done = TRUE => p[f].conflict = NoPath

\* PlanFollowsTarget, of plan p and target d.
Follows(p, d) == \A f \in DOMAIN p :
  p[f].action = "move" /\ p[f].done = FALSE /\ p[f].dest # NoPath => p[f].dest[1] = d

----------------------------------------------------------------------------
(* The functions of FilePlan.                                               *)

LEMMA RevisesTwice ==
  ASSUME NEW p, NEW q, NEW r, NEW s, Good(q), Revises(p, q, s), Overs(p, q),
         Revises(q, r, s), Overs(q, r)
  PROVE  Revises(p, r, s) /\ Overs(p, r)
<1>1. \A f \in DOMAIN q : q[f].done \in BOOLEAN
  BY DEF Good, IsPlan, FileRec
<1>2. NoneNew(p, r)
  BY DEF Revises, NoneNew
<1>3. Root \in DOMAIN r => s = {} \/ DOMAIN r \subseteq DOMAIN p
  BY DEF Revises
<1>4. ASSUME NEW f \in DOMAIN r
      PROVE  /\ r[f].done = FALSE =>
                  f = Root \/ f \in s \/ (f \in DOMAIN p /\ p[f].done = FALSE)
             /\ r[f].conflict # NoPath =>
                  r[f].done = FALSE \/ (f \in DOMAIN p /\ p[f].conflict # NoPath)
  BY <1>1 DEF Revises, NoneNew
<1>5. Overs(p, r)
  BY DEF Overs
<1> QED
  BY <1>2, <1>3, <1>4, <1>5 DEF Revises

LEMMA RevisesSelf ==
  ASSUME NEW p, Good(p), NEW s PROVE Revises(p, p, s) /\ Overs(p, p)
<1>1. \A f \in DOMAIN p : p[f].done \in BOOLEAN
  BY DEF Good, IsPlan, FileRec
<1> QED
  BY <1>1 DEF Revises, Overs, NoneNew

\* The record of a file that has just been planned.
Fresh(f, r) ==
  /\ r.done = FALSE /\ r.conflict = NoPath /\ r.over = FALSE /\ r.overPath = NoPath
  /\ r.dest # NoPath => f \in Files /\ r.dest[2] = Base[f]

LEMMA PlannedFresh ==
  ASSUME NEW f, NEW a, NEW d, d # NoPath => f \in Files /\ d[2] = Base[f]
  PROVE  Fresh(f, Planned(a, d)) /\ Planned(a, d).dest = d
BY DEF Fresh, Planned

\* A plan whose records are p's or have just been planned, for what is open or
\* in the source.
LEMMA ReplannedRevises ==
  ASSUME NEW p, Good(p), Placed(p), NEW q, NEW s,
         Root \in DOMAIN q => s = {} \/ DOMAIN q \subseteq DOMAIN p,
         \A f \in DOMAIN q :
           \/ f \in DOMAIN p /\ q[f] = p[f]
           \/ /\ f = Root \/ f \in s \/ (f \in DOMAIN p /\ p[f].done = FALSE)
              /\ Fresh(f, q[f])
  PROVE  Revises(p, q, s) /\ Overs(p, q) /\ Placed(q)
<1>1. \A f \in DOMAIN p : p[f].done \in BOOLEAN
  BY DEF Good, IsPlan, FileRec
<1>2. ASSUME NEW f \in DOMAIN q
      PROVE  /\ q[f].done = TRUE => f \in DOMAIN p /\ p[f].done = TRUE
             /\ q[f].done = FALSE =>
                  f = Root \/ f \in s \/ (f \in DOMAIN p /\ p[f].done = FALSE)
             /\ q[f].conflict # NoPath =>
                  q[f].done = FALSE \/ (f \in DOMAIN p /\ p[f].conflict # NoPath)
             /\ q[f].over = TRUE =>
                  f \in DOMAIN p /\ p[f].over = TRUE /\ q[f].overPath = p[f].overPath
             /\ q[f].dest # NoPath => f \in Files /\ q[f].dest[2] = Base[f]
             /\ q[f].conflict # NoPath => f \in Files /\ q[f].conflict[2] \in Colliding(f)
             /\ q[f].overPath # NoPath => f \in Files /\ q[f].overPath[2] \in Colliding(f)
  BY <1>1 DEF Fresh, Placed
<1>3. Revises(p, q, s)
  BY <1>2 DEF Revises, NoneNew
<1> QED
  BY <1>2, <1>3 DEF Overs, Placed

LEMMA DestInPlaced ==
  ASSUME NEW f \in Entry, NEW d, DestIn(f, d) # NoPath
  PROVE  f \in Files /\ DestIn(f, d)[1] = d /\ DestIn(f, d)[2] = Base[f]
BY DEF DestIn, Entry

LEMMA PlanOneFits ==
  ASSUME NEW p, Good(p), Placed(p), NEW f \in DOMAIN p, ~p[f].done, NEW a \in Actions,
         NEW d \in Dirs \cup {NoDir}, NEW s, NEW q, q = PlanOne(p, f, a, d)
  PROVE  Revises(p, q, s) /\ Overs(p, q) /\ Placed(q) /\ (Follows(p, d) => Follows(q, d))
<1> DEFINE to == IF a = "move" THEN DestIn(f, d) ELSE NoPath
<1>1. p = [g \in DOMAIN p |-> p[g]] /\ f \in Entry
  BY DEF Good, IsPlan
<1>2. DOMAIN q = DOMAIN p /\ \A g \in DOMAIN q : q[g] = IF g = f THEN Planned(a, to) ELSE p[g]
  BY <1>1 DEF PlanOne
<1>3. to # NoPath => f \in Files /\ to[1] = d /\ to[2] = Base[f]
  BY <1>1, DestInPlaced
<1>4. \A g \in DOMAIN p : p[g].done \in BOOLEAN
  BY DEF Good, IsPlan, FileRec
<1> HIDE DEF to
<1>5. Fresh(f, Planned(a, to)) /\ Planned(a, to).dest = to
  BY <1>3, PlannedFresh
<1>6. Revises(p, q, s) /\ Overs(p, q) /\ Placed(q)
  BY <1>2, <1>4, <1>5, ReplannedRevises
<1>7. ASSUME Follows(p, d) PROVE Follows(q, d)
  BY <1>2, <1>3, <1>5, <1>7 DEF Follows
<1> QED
  BY <1>6, <1>7

LEMMA RouteToFits ==
  ASSUME NEW p, Good(p), Placed(p), NEW d \in Dirs \cup {NoDir}, NEW s, NEW q,
         q = RouteTo(p, d)
  PROVE  Revises(p, q, s) /\ Overs(p, q) /\ Placed(q) /\ Follows(q, d)
<1>1. \A f \in DOMAIN p : p[f].done \in BOOLEAN /\ f \in Entry
  BY DEF Good, IsPlan, FileRec
<1>2. DOMAIN q = DOMAIN p /\ \A f \in DOMAIN q : q[f] =
        IF p[f].done \/ f = Root \/ p[f].action = "delete" THEN p[f]
        ELSE Planned("move", DestIn(f, d))
  BY DEF RouteTo
<1>3. \A f \in DOMAIN q : DestIn(f, d) # NoPath =>
        f \in Files /\ DestIn(f, d)[1] = d /\ DestIn(f, d)[2] = Base[f]
  BY <1>1, <1>2, DestInPlaced
<1>4. \A f \in DOMAIN q : /\ Fresh(f, Planned("move", DestIn(f, d)))
                          /\ Planned("move", DestIn(f, d)).dest = DestIn(f, d)
  BY <1>3, PlannedFresh
<1>5. Revises(p, q, s) /\ Overs(p, q) /\ Placed(q)
  BY <1>1, <1>2, <1>4, ReplannedRevises
<1>6. ASSUME NEW f \in DOMAIN q, q[f].action = "move", q[f].done = FALSE, q[f].dest # NoPath
      PROVE  q[f].dest[1] = d
  <2>1. f # Root
    BY <1>5, <1>6, FilesAssumption DEF Placed
  <2>2. q[f] = Planned("move", DestIn(f, d))
    BY <1>2, <1>6, <2>1
  <2>3. q[f].dest = DestIn(f, d)
    BY <2>2, <1>4
  <2> QED
    BY <1>3, <1>6, <2>3
<1> QED
  BY <1>5, <1>6 DEF Follows

LEMMA DecidedFits ==
  ASSUME NEW p, Good(p), Placed(p), NEW c \in [Files -> Actions],
         NEW d \in Dirs \cup {NoDir}, NEW s, Root \notin DOMAIN p, NEW q,
         q = Decided(p, c, d)
  PROVE  /\ Revises(p, q, s) /\ Overs(p, q) /\ Placed(q)
         /\ (\A f \in DOMAIN p : p[f].done = FALSE /\ p[f].dest = NoPath) => Follows(q, d)
<1> DEFINE to(f) == IF c[f] = "move" /\ d # NoDir THEN DestIn(f, d) ELSE p[f].dest
<1>1. \A f \in DOMAIN p : p[f].done \in BOOLEAN /\ f \in Entry
  BY DEF Good, IsPlan, FileRec
<1>2. DOMAIN q = DOMAIN p /\ \A f \in DOMAIN q : q[f] =
        IF p[f].done THEN p[f] ELSE Planned(c[f], to(f))
  BY DEF Decided
<1>3. ASSUME NEW f \in DOMAIN q, to(f) # NoPath
      PROVE  f \in Files /\ to(f)[2] = Base[f] /\ (p[f].dest = NoPath => to(f)[1] = d)
  BY <1>1, <1>2, <1>3, DestInPlaced DEF Placed
<1> HIDE DEF to
<1>4. \A f \in DOMAIN q : Fresh(f, Planned(c[f], to(f))) /\ Planned(c[f], to(f)).dest = to(f)
  BY <1>3, PlannedFresh
<1>5. Revises(p, q, s) /\ Overs(p, q) /\ Placed(q)
  BY <1>1, <1>2, <1>4, ReplannedRevises
<1>6. ASSUME \A f \in DOMAIN p : p[f].done = FALSE /\ p[f].dest = NoPath
      PROVE  Follows(q, d)
  <2> SUFFICES ASSUME NEW f \in DOMAIN q, q[f].dest # NoPath PROVE q[f].dest[1] = d
    BY DEF Follows
  <2>1. q[f] = Planned(c[f], to(f))
    BY <1>2, <1>6
  <2>2. q[f].dest = to(f)
    BY <2>1, <1>4
  <2> QED
    BY <1>2, <1>3, <1>6, <2>2
<1> QED
  BY <1>5, <1>6

LEMMA ListedFits ==
  ASSUME NEW p, NEW s \in SUBSET Files, NEW d, NEW q, q = Listed(s)
  PROVE  /\ Revises(p, q, s) /\ Overs(p, q) /\ Placed(q) /\ Follows(q, d)
         /\ \A f \in DOMAIN q : q[f].done = FALSE /\ q[f].dest = NoPath
         /\ DOMAIN q = s /\ Root \notin s
<1>1. DOMAIN q = s /\ Root \notin s
  BY FilesAssumption DEF Listed
<1>2. \A f \in DOMAIN q : /\ q[f].done = FALSE /\ q[f].dest = NoPath /\ q[f].over = FALSE
                          /\ q[f].conflict = NoPath /\ q[f].overPath = NoPath
  BY DEF Listed, Planned
<1> QED
  BY <1>1, <1>2 DEF Revises, Overs, Placed, Follows, NoneNew

LEMMA EmptyFolderFits ==
  ASSUME NEW p, NEW s, s = {}, NEW d, NEW q, q = EmptyFolder
  PROVE  Revises(p, q, s) /\ Overs(p, q) /\ Placed(q) /\ Follows(q, d)
<1>1. DOMAIN q = {Root}
  BY DEF EmptyFolder
<1>2. \A f \in DOMAIN q : /\ q[f].done = FALSE /\ q[f].dest = NoPath /\ q[f].over = FALSE
                          /\ q[f].conflict = NoPath /\ q[f].overPath = NoPath
  BY DEF EmptyFolder, Planned
<1> QED
  BY <1>1, <1>2 DEF Revises, Overs, Placed, Follows, NoneNew

LEMMA ReconcileFits ==
  ASSUME NEW p, Good(p), Placed(p), NEW s \in SUBSET Files, NEW d, NEW q,
         q = Reconcile(p, s)
  PROVE  Revises(p, q, s) /\ Overs(p, q) /\ Placed(q) /\ (Follows(p, d) => Follows(q, d))
<1> DEFINE journal == {f \in DOMAIN p \ s : p[f].done /\ f # Root}
           empty == IF s = {} THEN {Root} ELSE {}
<1>1. DOMAIN q = s \cup journal \cup empty
  BY DEF Reconcile
<1>2. \A f \in DOMAIN q :
        \/ f \in DOMAIN p /\ q[f] = p[f]
        \/ /\ f = Root \/ f \in s
           /\ q[f] = Planned("delete", NoPath) \/ q[f] = Planned("keep", NoPath)
  BY <1>1 DEF Reconcile
<1>3. Root \in DOMAIN q => s = {}
  BY <1>1, FilesAssumption
<1>4. \A f \in Entry : /\ Fresh(f, Planned("delete", NoPath)) /\ Fresh(f, Planned("keep", NoPath))
                      /\ Planned("delete", NoPath).dest = NoPath
                      /\ Planned("keep", NoPath).dest = NoPath
  BY PlannedFresh
<1>5. DOMAIN q \subseteq Entry
  BY <1>1 DEF Good, IsPlan, Entry
<1> HIDE DEF journal, empty
<1>6. Revises(p, q, s) /\ Overs(p, q) /\ Placed(q)
  BY <1>2, <1>3, <1>4, <1>5, ReplannedRevises
<1>7. ASSUME Follows(p, d) PROVE Follows(q, d)
  BY <1>2, <1>4, <1>5, <1>7 DEF Follows
<1> QED
  BY <1>6, <1>7

LEMMA FindConflictFinds ==
  ASSUME NEW p \in Paths, NEW l
  PROVE  /\ FindConflict(p, l) # NoPath =>
              /\ FindConflict(p, l) \in Paths
              /\ FindConflict(p, l)[2] = p[2] \/ <<FindConflict(p, l)[2], p[2]>> \in SameEpisode
         /\ FindConflict(p, l) = NoPath =>
              \A q \in Paths : q[1] = p[1] /\ l[q] # Nothing =>
                q # p /\ <<q[2], p[2]>> \notin SameEpisode
<1> DEFINE episodes == {q \in Paths : /\ q[1] = p[1] /\ l[q] # Nothing
                                      /\ <<q[2], p[2]>> \in SameEpisode}
<1>1. FindConflict(p, l) = IF l[p] # Nothing THEN p
                           ELSE IF episodes # {} THEN CHOOSE q \in episodes : TRUE ELSE NoPath
  BY DEF FindConflict
<1>2. p # NoPath
  BY PathAssumption DEF Paths
<1>3. CASE l[p] # Nothing
  BY <1>1, <1>2, <1>3
<1>4. CASE l[p] = Nothing /\ episodes # {}
  <2>1. FindConflict(p, l) \in episodes
    BY <1>1, <1>4
  <2>2. FindConflict(p, l) # NoPath
    BY <2>1, PathAssumption DEF Paths
  <2> QED
    BY <2>1, <2>2
<1>5. CASE l[p] = Nothing /\ episodes = {}
  BY <1>1, <1>5
<1> QED
  BY <1>3, <1>4, <1>5

\* Nothing but the collision is written, and it is what findConflict found.
Detected(r, l, t) ==
  /\ t.action = r.action /\ t.dest = r.dest /\ t.over = r.over
  /\ t.overPath = r.overPath /\ t.done = r.done
  /\ t.conflict = IF r.action = "move" /\ r.done = FALSE /\ r.over = FALSE /\ r.dest # NoPath
                  THEN FindConflict(r.dest, l) ELSE NoPath

LEMMA DetectDoes ==
  ASSUME NEW p, Good(p), NEW l
  PROVE  /\ DOMAIN DetectConflicts(p, l) = DOMAIN p
         /\ \A f \in DOMAIN p : Detected(p[f], l, DetectConflicts(p, l)[f])
<1> DEFINE q == DetectConflicts(p, l)
<1>1. DOMAIN q = DOMAIN p /\ \A f \in DOMAIN p : q[f] = [p[f] EXCEPT !.conflict =
        IF p[f].action = "move" /\ ~p[f].done /\ ~p[f].over /\ p[f].dest # NoPath
        THEN FindConflict(p[f].dest, l) ELSE NoPath]
  BY DEF DetectConflicts
<1>2. \A f \in DOMAIN p : p[f] \in FileRec
  BY DEF Good, IsPlan
<1> HIDE DEF q
<1>3. DOMAIN q = DOMAIN p /\ \A f \in DOMAIN p : Detected(p[f], l, q[f])
  BY <1>1, <1>2 DEF FileRec, Detected
<1> QED
  BY <1>3 DEF q

LEMMA DetectFits ==
  ASSUME NEW p, Good(p), Placed(p), NEW l, NEW s, NEW d, NEW q, q = DetectConflicts(p, l)
  PROVE  /\ Revises(p, q, s) /\ Overs(p, q) /\ Placed(q) /\ (Follows(p, d) => Follows(q, d))
         /\ Closed(q)
<1>1. DOMAIN q = DOMAIN p /\ \A f \in DOMAIN p : Detected(p[f], l, q[f])
  BY DetectDoes
<1>2. /\ DOMAIN q = DOMAIN p
      /\ \A f \in DOMAIN p :
           /\ q[f].action = p[f].action /\ q[f].dest = p[f].dest /\ q[f].over = p[f].over
           /\ q[f].overPath = p[f].overPath /\ q[f].done = p[f].done
           /\ q[f].conflict = IF p[f].action = "move" /\ p[f].done = FALSE
                                 /\ p[f].over = FALSE /\ p[f].dest # NoPath
                              THEN FindConflict(p[f].dest, l) ELSE NoPath
  BY <1>1 DEF Detected
<1>3. \A f \in DOMAIN p : /\ p[f].done \in BOOLEAN
                          /\ p[f].dest # NoPath => p[f].dest \in Paths
  BY DEF Good, IsPlan, FileRec
<1>4. \A f \in DOMAIN q : q[f].conflict # NoPath => q[f].done = FALSE
  BY <1>2, <1>3
<1>5. ASSUME NEW f \in DOMAIN q, q[f].conflict # NoPath
      PROVE  f \in Files /\ q[f].conflict[2] \in Colliding(f)
  <2>1. /\ f \in DOMAIN p /\ p[f].dest # NoPath /\ p[f].dest \in Paths
        /\ q[f].conflict = FindConflict(p[f].dest, l)
    BY <1>2, <1>3, <1>5
  <2>2. f \in Files /\ p[f].dest[2] = Base[f]
    BY <2>1 DEF Placed
  <2>3. /\ q[f].conflict \in Paths
        /\ q[f].conflict[2] = p[f].dest[2] \/ <<q[f].conflict[2], p[f].dest[2]>> \in SameEpisode
    BY <1>5, <2>1, FindConflictFinds
  <2> QED
    BY <2>2, <2>3 DEF Colliding, Paths
<1>6. Revises(p, q, s)
  BY <1>2, <1>3, <1>4 DEF Revises, NoneNew
<1>7. Overs(p, q)
  BY <1>2 DEF Overs
<1>8. Placed(q)
  BY <1>2, <1>5 DEF Placed
<1>9. ASSUME Follows(p, d) PROVE Follows(q, d)
  BY <1>2, <1>9 DEF Follows
<1>10. Closed(q)
  BY <1>2, <1>3, <1>4 DEF Closed
<1> QED
  BY <1>6, <1>7, <1>8, <1>9, <1>10

LEMMA MergedFits ==
  ASSUME NEW p, Good(p), Placed(p), NEW n, Good(n), Placed(n), SamePlan(p, n),
         Closed(n), NEW s, NEW d, NEW q,
         q = [f \in DOMAIN p |-> [p[f] EXCEPT !.conflict = n[f].conflict]]
  PROVE  Revises(p, q, s) /\ Overs(p, q) /\ Placed(q) /\ (Follows(p, d) => Follows(q, d))
<1>1. DOMAIN q = DOMAIN p /\ \A f \in DOMAIN p : p[f] \in FileRec
  BY DEF Good, IsPlan
<1>2. \A f \in DOMAIN p :
        /\ q[f].action = p[f].action /\ q[f].dest = p[f].dest /\ q[f].over = p[f].over
        /\ q[f].overPath = p[f].overPath /\ q[f].done = p[f].done /\ q[f].done \in BOOLEAN
        /\ q[f].conflict = n[f].conflict
  BY <1>1 DEF FileRec
<1>3. \A f \in DOMAIN p : f \in DOMAIN n /\ n[f].done = p[f].done
  BY DEF SamePlan
<1>4. Revises(p, q, s)
  BY <1>1, <1>2, <1>3 DEF Revises, NoneNew, Closed
<1>5. Overs(p, q)
  BY <1>1, <1>2 DEF Overs
<1>6. Placed(q)
  BY <1>1, <1>2, <1>3 DEF Placed
<1>7. ASSUME Follows(p, d) PROVE Follows(q, d)
  BY <1>1, <1>2, <1>7 DEF Follows
<1> QED
  BY <1>4, <1>5, <1>6, <1>7

Replaced(r, t) ==
  /\ t.action = "move" /\ t.dest = r.dest /\ t.over = TRUE
  /\ t.overPath = r.conflict /\ t.conflict = NoPath /\ t.done = r.done

LEMMA ReplaceDoes ==
  ASSUME NEW p, Good(p), NEW f \in DOMAIN p
  PROVE  /\ DOMAIN Replace(p, f) = DOMAIN p /\ Replaced(p[f], Replace(p, f)[f])
         /\ \A g \in DOMAIN p : g # f => Replace(p, f)[g] = p[g]
<1>1. p = [g \in DOMAIN p |-> p[g]] /\ p[f] \in FileRec
  BY DEF Good, IsPlan
<1> DEFINE r == [p[f] EXCEPT !.action = "move", !.over = TRUE,
                             !.overPath = p[f].conflict, !.conflict = NoPath]
<1>2. Replace(p, f) = [p EXCEPT ![f] = r]
  BY DEF Replace
<1>3. Replaced(p[f], r)
  BY <1>1 DEF FileRec, Replaced
<1> HIDE DEF r
<1> QED
  BY <1>1, <1>2, <1>3

LEMMA ReplaceFits ==
  ASSUME NEW p, Good(p), Placed(p), NEW f \in DOMAIN p, p[f].conflict # NoPath,
         NEW s, NEW d, NEW q, q = Replace(p, f)
  PROVE  Revises(p, q, s) /\ Placed(q) /\ (Follows(p, d) => Follows(q, d))
<1>1. \A g \in DOMAIN p : p[g].done \in BOOLEAN
  BY DEF Good, IsPlan, FileRec
<1>2. /\ DOMAIN q = DOMAIN p /\ \A g \in DOMAIN p : g # f => q[g] = p[g]
      /\ q[f].action = "move" /\ q[f].dest = p[f].dest /\ q[f].over = TRUE
      /\ q[f].overPath = p[f].conflict /\ q[f].conflict = NoPath /\ q[f].done = p[f].done
  BY ReplaceDoes DEF Replaced
<1>3. Revises(p, q, s) /\ Placed(q)
  BY <1>1, <1>2 DEF Revises, Placed, NoneNew
<1>4. p[f].done = FALSE => p[f].action = "move"
  BY DEF Good, Sound
<1>5. ASSUME Follows(p, d) PROVE Follows(q, d)
  BY <1>2, <1>4, <1>5 DEF Follows
<1> QED
  BY <1>3, <1>5

LEMMA GiveWayFits ==
  ASSUME NEW p, Good(p), Placed(p), NEW f \in DOMAIN p, NEW s, NEW d, NEW q,
         q = GiveWay(p, f)
  PROVE  Revises(p, q, s) /\ Overs(p, q) /\ Placed(q) /\ (Follows(p, d) => Follows(q, d))
<1>1. p = [g \in DOMAIN p |-> p[g]] /\ \A g \in DOMAIN p : p[g].done \in BOOLEAN
  BY DEF Good, IsPlan, FileRec
<1>2. /\ DOMAIN q = DOMAIN p /\ \A g \in DOMAIN p : g # f => q[g] = p[g]
      /\ q[f].action = "delete" /\ q[f].dest = NoPath /\ q[f].over = FALSE
      /\ q[f].overPath = NoPath /\ q[f].conflict = NoPath /\ q[f].done = p[f].done
  BY <1>1 DEF GiveWay, Planned
<1>3. Revises(p, q, s) /\ Overs(p, q) /\ Placed(q)
  BY <1>1, <1>2 DEF Revises, Overs, Placed, NoneNew
<1>4. ASSUME Follows(p, d) PROVE Follows(q, d)
  BY <1>2, <1>4 DEF Follows
<1> QED
  BY <1>3, <1>4

----------------------------------------------------------------------------
(* What holds whatever happens: where the paths of a plan may lead, what a  *)
(* scan has kept, that the copy of an execution is the plan that is listed  *)
(* until the file whose turn it is is done, that a file is only removed for *)
(* one that is to replace it, and that the entry of an empty folder is not  *)
(* listed with a file that is there.                                        *)

SameButConflict(r, t) ==
  /\ t.action = r.action /\ t.dest = r.dest /\ t.over = r.over
  /\ t.overPath = r.overPath /\ t.done = r.done

AsListed == epc \in {"replace", "act"} =>
  \A f \in DOMAIN mem.files : SameButConflict(files[f], mem.files[f])

Staged ==
  /\ epc = "replace" => mem.files[Current].over = TRUE
  /\ epc = "persist" => ~OneFile

RootAlone == Root \in DOMAIN files => \A f \in DOMAIN files : f \notin src

BInv ==
  /\ IInv
  /\ Placed(files) /\ Placed(mem.files) /\ Placed(snap) /\ Closed(snap)
  /\ AsListed /\ Staged /\ RootAlone

\* The moves that are left meet no content of others.
ClearOf(p) == \A f \in Pending(p) : p[f].action = "move" =>
  /\ p[f].dest # NoPath
  /\ p[f].over = FALSE => \A q \in Paths : lib[q] \in Others /\ q[1] = p[f].dest[1] =>
       q # p[f].dest /\ <<q[2], p[f].dest[2]>> \notin SameEpisode

----------------------------------------------------------------------------
(* The kinds of steps.  The steps of an execution that touch a file, Crash  *)
(* and Arrive are kinds of their own.                                       *)

\* Neither plan nor disk.
Idle ==
  /\ UNCHANGED <<files, target, src, lib, epc, mem, agreed>>
  /\ Locked => (OneFile' <=> OneFile) /\ (OneFile => UNCHANGED job)

FollowsOn(p, d) == <<"reclassify">> \notin Requests /\ Follows(files, target) => Follows(p, d)

\* The user agrees that f replaces what it collides with.
Agrees(f) ==
  /\ "replace" \in Events /\ files[f].conflict # NoPath
  /\ files' = Replace(files, f)
  /\ agreed' = [agreed EXCEPT ![f] = lib[files[f].conflict]]

\* Nobody executes the plan, and it is changed.
Revision ==
  /\ ~Locked /\ UNCHANGED <<src, lib, epc, mem>>
  /\ Revises(files, files', src) /\ Placed(files') /\ FollowsOn(files', target')
  /\ \/ Overs(files, files') /\ UNCHANGED agreed
     \/ \E f \in DOMAIN files : Agrees(f)

\* An execution begins.
Beginning ==
  /\ ~Locked /\ Locked' /\ UNCHANGED <<src, lib, agreed>>
  /\ Revises(files, files', src) /\ Overs(files, files') /\ Placed(files')
  /\ FollowsOn(files', target')
  /\ Revises(files, mem'.files, src) /\ Overs(files, mem'.files) /\ Placed(mem'.files)
  /\ FollowsOn(mem'.files, target')
  /\ \A f \in DOMAIN mem'.files : SameButConflict(files'[f], mem'.files[f])
  /\ Staged'
  /\ OneFile' \/ ("unreadable" \notin Events => ClearOf(mem'.files))

\* It goes on, and touches no file.
Progressing ==
  /\ epc \in {"persist", "cleanup"} /\ epc' # "idle"
  /\ UNCHANGED <<target, src, lib, mem, agreed, wpc, job>>
  /\ \/ files' = files /\ epc' = "confirm"
     \/ files' = mem.files /\ epc = "persist" /\ epc' = Turn(mem.files)

\* It ends.  It may have left a copy behind, or have removed what Lstat did not see.
Released ==
  /\ Locked /\ epc' = "idle" /\ mem' = NoCopy /\ files' = mem.files
  /\ UNCHANGED <<target, src, agreed>>
  /\ \/ UNCHANGED lib
     \/ /\ "hiccup" \in Events /\ epc = "act" /\ Doing = "move" /\ Current \in src
        /\ Destination # NoPath /\ lib[Destination] = Nothing
        /\ lib' = [lib EXCEPT ![Destination] = Current]
     \/ /\ Blind /\ epc = "act" /\ Doing = "move" /\ Destination # NoPath
        /\ lib' = [lib EXCEPT ![Destination] = Nothing]

Kinds ==
  \/ Idle \/ Revision \/ Beginning \/ RemoveExisting \/ MoveFile \/ DeleteFile
  \/ Progressing \/ Released \/ Crash \/ \E f \in Files : Arrive(f)

LEMMA BInvFacts ==
  ASSUME BInv
  PROVE  /\ IInv /\ Good(files) /\ Good(snap) /\ Good(mem.files)
         /\ Placed(files) /\ Placed(mem.files) /\ Placed(snap) /\ Closed(snap)
         /\ target \in Dirs \cup {NoDir} /\ src \in SUBSET Files
         /\ lib \in [Paths -> Contents] /\ agreed \in [Entry -> Contents]
         /\ AsListed /\ Staged /\ RootAlone
BY DEF BInv, IInv, Plans, Types

LEMMA SameIsSame ==
  ASSUME NEW p PROVE \A f \in DOMAIN p : SameButConflict(p[f], p[f])
BY DEF SameButConflict

\* The next file's turn begins with a removal if it is to replace one.
LEMMA TurnStages ==
  ASSUME NEW p, Good(p)
  PROVE  /\ Turn(p) = "replace" => p[First(Pending(p))].over = TRUE
         /\ Turn(p) # "persist"
<1>1. ASSUME Turn(p) = "replace" PROVE p[First(Pending(p))].over = TRUE
  <2>1. Pending(p) # {} /\ p[First(Pending(p))].over
    BY <1>1 DEF Turn, Stage
  <2>2. Pending(p) \in SUBSET Entry /\ Pending(p) \subseteq DOMAIN p
    BY DEF Good, IsPlan, Pending
  <2>3. p[First(Pending(p))].over \in BOOLEAN
    BY <2>1, <2>2, FirstIsIn DEF Good, IsPlan, FileRec
  <2> QED
    BY <2>1, <2>3
<1> QED
  BY <1>1 DEF Turn, Stage

\* The user.
LEMMA UserKinds == ASSUME BInv, User PROVE Idle \/ Revision
<1> USE BInvFacts
<1>1. ASSUME NEW f \in DOMAIN files, NEW a \in Actions, PlanFileAction(f, a) PROVE Revision
  <2>1. /\ ~Locked /\ ~files[f].done /\ files' = PlanOne(files, f, a, target)
        /\ UNCHANGED <<target, src, lib, epc, mem, agreed>>
    BY <1>1 DEF PlanFileAction, disk, exec
  <2>2. /\ Revises(files, files', src) /\ Overs(files, files') /\ Placed(files')
        /\ Follows(files, target) => Follows(files', target)
    BY <2>1, PlanOneFits
  <2> QED
    BY <2>1, <2>2 DEF Revision, FollowsOn
<1>2. ASSUME NEW d \in Dirs, SetItemTarget(d) PROVE Revision
  <2>1. /\ ~Locked /\ target' = d /\ files' = RouteTo(files, d)
        /\ UNCHANGED <<src, lib, epc, mem, agreed>>
    BY <1>2 DEF SetItemTarget, disk, exec
  <2>2. Revises(files, files', src) /\ Overs(files, files') /\ Placed(files') /\ Follows(files', d)
    BY <2>1, RouteToFits
  <2> QED
    BY <2>1, <2>2 DEF Revision, FollowsOn
<1>3. ASSUME NEW f \in DOMAIN files, ResolveConflict(f) PROVE Revision
  <2>1. /\ ~Locked /\ files[f].conflict # NoPath
        /\ UNCHANGED <<target, src, lib, epc, mem>>
        /\ Agrees(f) \/ (files' = GiveWay(files, f) /\ UNCHANGED agreed)
    <3>1. /\ ~Locked /\ files[f].conflict # NoPath /\ UNCHANGED <<target, disk, exec>>
      BY <1>3 DEF ResolveConflict
    <3>2. Agrees(f) \/ (files' = GiveWay(files, f) /\ UNCHANGED agreed)
      BY <1>3 DEF ResolveConflict, Agrees
    <3> QED
      BY <3>1, <3>2 DEF disk, exec
  <2>2. CASE Agrees(f)
    <3>1. /\ Revises(files, files', src) /\ Placed(files')
          /\ Follows(files, target) => Follows(files', target)
      BY <2>1, <2>2, ReplaceFits DEF Agrees
    <3> QED
      BY <2>1, <2>2, <3>1 DEF Revision, FollowsOn
  <2>3. CASE files' = GiveWay(files, f) /\ UNCHANGED agreed
    <3>1. /\ Revises(files, files', src) /\ Overs(files, files') /\ Placed(files')
          /\ Follows(files, target) => Follows(files', target)
      BY <2>3, GiveWayFits
    <3> QED
      BY <2>1, <2>3, <3>1 DEF Revision, FollowsOn
  <2> QED
    BY <2>1, <2>2, <2>3
<1>4. ASSUME NEW w \in Requests, Enqueue(w) PROVE Idle
  BY <1>4 DEF Enqueue, row, disk, exec, Idle, OneFile, ByWorker
<1>5. ASSUME RejectItem PROVE Idle
  BY <1>5 DEF RejectItem, disk, exec, Idle, OneFile, ByWorker
<1> QED
  BY <1>1, <1>2, <1>3, <1>4, <1>5 DEF User

\* The worker outside an execution.
LEMMA ClearWhenFound ==
  ASSUME NEW p, Good(p), NEW q, q = DetectConflicts(p, lib), Conflicted(q) = {},
         \A f \in Pending(q) : q[f].action = "move" => q[f].dest # NoPath
  PROVE  ClearOf(q)
<1> SUFFICES ASSUME NEW f \in Pending(q), q[f].action = "move", q[f].over = FALSE,
                    NEW e \in Paths, lib[e] \in Others, e[1] = q[f].dest[1]
             PROVE  e # q[f].dest /\ <<e[2], q[f].dest[2]>> \notin SameEpisode
  BY DEF ClearOf
<1>1. DOMAIN q = DOMAIN p /\ \A g \in DOMAIN p : Detected(p[g], lib, q[g])
  BY DetectDoes
<1>2. f \in DOMAIN p /\ ~q[f].done /\ q[f].conflict = NoPath /\ q[f].dest # NoPath
  BY <1>1 DEF Pending, Conflicted
<1>3. p[f].done \in BOOLEAN /\ p[f].dest \in Paths \cup {NoPath}
  BY <1>2 DEF Good, IsPlan, FileRec
<1>4. /\ q[f].dest = p[f].dest /\ p[f].dest # NoPath /\ p[f].over = FALSE
      /\ p[f].action = "move" /\ p[f].done = FALSE
  BY <1>1, <1>2, <1>3 DEF Detected
<1>5. FindConflict(p[f].dest, lib) = NoPath
  BY <1>1, <1>2, <1>4 DEF Detected
<1>6. lib[e] # Nothing
  BY OthersAssumption
<1> QED
  BY <1>3, <1>4, <1>5, <1>6, FindConflictFinds

LEMMA ApplyPlanKinds ==
  ASSUME BInv, NEW listing \in Listings, ApplyPlan(listing) PROVE Idle \/ Revision \/ Beginning
<1> USE BInvFacts
<1> DEFINE found == DetectConflicts(files, listing)
<1>1. /\ ~Locked /\ wpc = "start" /\ job[1] = "plan"
      /\ UNCHANGED <<target, src, lib, agreed, job>>
  BY DEF ApplyPlan, Starts, disk
<1>2. /\ Revises(files, found, src) /\ Overs(files, found) /\ Placed(found)
      /\ Follows(files, target) => Follows(found, target)
  BY DetectFits
<1>3. Revises(files, files, src) /\ Overs(files, files)
  BY RevisesSelf
<1>4. CASE UNCHANGED <<files, exec>>
  BY <1>1, <1>4 DEF Idle, exec
<1>5. CASE files' = found /\ UNCHANGED exec
  <2> HIDE DEF found
  <2> QED
    BY <1>1, <1>2, <1>5 DEF Revision, FollowsOn, exec
<1>6. CASE /\ Homeless(files) = {} /\ Conflicted(found) = {} /\ UNCHANGED files
           /\ mem' = [files |-> found, status |-> status] /\ epc' = Turn(found)
  <2>1. mem'.files = found
    BY <1>6
  <2>2. Locked'
    BY <1>6, TurnFacts DEF Locked
  <2>3. DOMAIN found = DOMAIN files /\ \A f \in DOMAIN files : Detected(files[f], listing, found[f])
    BY DetectDoes
  <2>4. \A f \in DOMAIN found : SameButConflict(files[f], found[f])
    BY <2>3 DEF Detected, SameButConflict
  <2>5. ASSUME "unreadable" \notin Events PROVE ClearOf(found)
    <3>1. listing = lib
      BY <2>5 DEF Listings
    <3>2. \A f \in Pending(found) : found[f].action = "move" => found[f].dest # NoPath
      BY <1>6, <2>3 DEF Pending, Homeless, Detected
    <3> QED
      BY <1>6, <3>1, <3>2, ClearWhenFound
  <2>6. Good(found)
    BY DetectGood DEF Good
  <2> HIDE DEF found
  <2>7. Staged'
    <3>1. ~OneFile'
      BY <1>1 DEF OneFile
    <3>2. Current' = First(Pending(found))
      BY <2>1, <3>1 DEF Current
    <3> QED
      BY <1>6, <2>1, <2>6, <3>1, <3>2, TurnStages DEF Staged
  <2> QED
    BY <1>1, <1>2, <1>3, <1>6, <2>1, <2>2, <2>4, <2>5, <2>7 DEF Beginning, FollowsOn
<1> QED
  BY <1>4, <1>5, <1>6 DEF ApplyPlan

LEMMA ApplyFileActionKinds == ASSUME BInv, ApplyFileAction PROVE Idle \/ Beginning
<1> USE BInvFacts
<1>1. ~Locked /\ wpc = "start" /\ job[1] = "file" /\ UNCHANGED <<files, target, src, lib, agreed, job>>
  BY DEF ApplyFileAction, Starts, row, disk
<1>2. CASE UNCHANGED exec
  BY <1>1, <1>2 DEF Idle, exec
<1>3. CASE /\ mem' = [files |-> files, status |-> status] /\ wpc' = "hold"
           /\ job[2] \in DOMAIN files /\ epc' = Stage(job[2], job[3], files)
  <2>1. mem'.files = files
    BY <1>3
  <2>2. Locked' /\ OneFile'
    BY <1>1, <1>3 DEF Locked, Stage, OneFile, ByWorker
  <2>3. Revises(files, files, src) /\ Overs(files, files)
    BY RevisesSelf
  <2>4. Staged'
    <3>1. Current' = job[2]
      BY <1>1, <2>2 DEF Current
    <3>2. epc' # "persist" /\ (epc' = "replace" => files[job[2]].over)
      BY <1>3 DEF Stage
    <3>3. files[job[2]].over \in BOOLEAN
      BY <1>3 DEF Good, IsPlan, FileRec
    <3> QED
      BY <2>1, <3>1, <3>2, <3>3 DEF Staged
  <2> QED
    BY <1>1, <2>1, <2>2, <2>3, <2>4, SameIsSame DEF Beginning, FollowsOn
<1> QED
  BY <1>2, <1>3 DEF ApplyFileAction

LEMMA MergeConflictsKinds == ASSUME BInv, MergeConflicts PROVE Idle \/ Revision
<1> USE BInvFacts
<1>1. ~Locked /\ UNCHANGED <<target, src, lib, epc, mem, agreed>>
  BY DEF MergeConflicts, disk, exec
<1>2. CASE UNCHANGED files
  BY <1>1, <1>2 DEF Idle
<1>3. CASE /\ SamePlan(files, snap)
           /\ files' = [f \in DOMAIN files |-> [files[f] EXCEPT !.conflict = snap[f].conflict]]
  <2>1. /\ Revises(files, files', src) /\ Overs(files, files') /\ Placed(files')
        /\ Follows(files, target) => Follows(files', target)
    BY <1>3, MergedFits
  <2> QED
    BY <1>1, <2>1 DEF Revision, FollowsOn
<1> QED
  BY <1>2, <1>3 DEF MergeConflicts

\* A work of the worker that leaves plan and disk alone.
LEMMA IdleWork ==
  ASSUME BInv,
         \/ \E w \in jobs : Claim(w)
         \/ \E listing \in Listings : ScanConflicts(listing)
         \/ Refused
         \/ Record
  PROVE  Idle
<1>1. UNCHANGED <<files, target, src, lib, epc, mem, agreed>>
  BY DEF Claim, ScanConflicts, Refused, Record, row, disk, exec
<1>2. wpc # "hold" /\ wpc' # "hold"
  BY DEF Claim, ScanConflicts, Starts, Refused, Record
<1> QED
  BY <1>1, <1>2 DEF Idle, OneFile, ByWorker

LEMMA ReclassifyItemKinds ==
  ASSUME BInv, NEW c \in [Files -> Actions], NEW d \in Dirs \cup {NoDir},
         ReclassifyItem(c, d)
  PROVE  Idle \/ Revision
<1> USE BInvFacts
<1> DEFINE listed == Reconcile(files, src)
           decided == Decided(listed, c, d)
<1>1. ~Locked /\ UNCHANGED <<src, lib, epc, mem, agreed>>
  BY DEF ReclassifyItem, disk, exec
<1>2. wpc = "start" /\ job[1] = "reclassify"
  BY DEF ReclassifyItem, Starts
<1>3. CASE UNCHANGED row
  BY <1>1, <1>3 DEF Idle, row
<1>4. CASE src # {} /\ files' = DetectConflicts(decided, lib)
  <2>1. /\ Revises(files, listed, src) /\ Overs(files, listed) /\ Placed(listed)
        /\ Good(listed) /\ Root \notin DOMAIN listed
    BY <1>4, ReconcileFits, ReconcileGood
  <2> HIDE DEF listed
  <2>2. /\ Revises(listed, decided, src) /\ Overs(listed, decided) /\ Placed(decided)
        /\ Good(decided)
    BY <2>1, DecidedFits, DecidedGood
  <2> HIDE DEF decided
  <2>3. Revises(decided, files', src) /\ Overs(decided, files') /\ Placed(files')
    BY <1>4, <2>2, DetectFits
  <2>4. Revises(files, decided, src) /\ Overs(files, decided)
    BY <2>1, <2>2, RevisesTwice
  <2>5. Revises(files, files', src) /\ Overs(files, files')
    BY <2>2, <2>3, <2>4, RevisesTwice
  <2>6. <<"reclassify">> \in Requests
    <3>1. job \in Works \cup {<<"none">>}
      BY DEF IInv, Types
    <3>2. \A w \in FileJobs : w[1] = "file"
      BY DEF FileJobs
    <3> QED
      BY <1>2, <3>1, <3>2, RequestsAssumption DEF Works
  <2> QED
    BY <1>1, <2>3, <2>5, <2>6 DEF Revision, FollowsOn
<1> QED
  BY <1>3, <1>4 DEF ReclassifyItem

LEMMA CreateTargetFolderKinds ==
  ASSUME BInv, NEW d \in Dirs, CreateTargetFolder(d) PROVE Revision
<1> USE BInvFacts
<1> DEFINE routed == RouteTo(files, d)
<1>1. /\ ~Locked /\ target' = d /\ files' = DetectConflicts(routed, lib)
      /\ UNCHANGED <<src, lib, epc, mem, agreed>>
  BY DEF CreateTargetFolder, disk, exec
<1>2. /\ Revises(files, routed, src) /\ Overs(files, routed) /\ Placed(routed)
      /\ Follows(routed, d) /\ Good(routed)
  BY RouteToFits, RouteToGood
<1> HIDE DEF routed
<1>3. /\ Revises(routed, files', src) /\ Overs(routed, files') /\ Placed(files')
      /\ Follows(files', d)
  BY <1>1, <1>2, DetectFits
<1>4. Revises(files, files', src) /\ Overs(files, files')
  BY <1>2, <1>3, RevisesTwice
<1> QED
  BY <1>1, <1>3, <1>4 DEF Revision, FollowsOn

LEMMA WorkKinds == ASSUME BInv, Work PROVE Idle \/ Revision \/ Beginning
<1>1. ASSUME NEW listing \in Listings, ApplyPlan(listing) \/ ScanConflicts(listing)
      PROVE  Idle \/ Revision \/ Beginning
  BY <1>1, ApplyPlanKinds, IdleWork
<1>2. ASSUME NEW c \in [Files -> Actions], NEW d \in Dirs \cup {NoDir}, ReclassifyItem(c, d)
      PROVE  Idle \/ Revision
  BY <1>2, ReclassifyItemKinds
<1>3. ASSUME NEW d \in Dirs, CreateTargetFolder(d) PROVE Revision
  BY <1>3, CreateTargetFolderKinds
<1> QED
  BY <1>1, <1>2, <1>3, IdleWork, ApplyFileActionKinds, MergeConflictsKinds DEF Work

\* The scanner.
LEMMA FindWithoutAIKinds == ASSUME BInv, FindWithoutAI PROVE Revision
<1> USE BInvFacts
<1>1. ~Locked /\ UNCHANGED <<src, lib, epc, mem, agreed>>
  BY DEF FindWithoutAI, Candidate, disk, exec
<1>2. (src = {} /\ files' = EmptyFolder) \/ files' = Listed(src)
  BY DEF FindWithoutAI, NewRow
<1>3. /\ Revises(files, files', src) /\ Overs(files, files') /\ Placed(files')
      /\ Follows(files', target')
  BY <1>2, EmptyFolderFits, ListedFits
<1> QED
  BY <1>1, <1>3 DEF Revision, FollowsOn

LEMMA ClassifyFailsKinds == ASSUME BInv, ClassifyFails PROVE Revision
<1> USE BInvFacts
<1>1. ~Locked /\ files' = Listed(src) /\ UNCHANGED <<src, lib, epc, mem, agreed>>
  BY DEF ClassifyFails, Candidate, NewRow, disk, exec
<1>2. /\ Revises(files, files', src) /\ Overs(files, files') /\ Placed(files')
      /\ Follows(files', target')
  BY <1>1, ListedFits
<1> QED
  BY <1>1, <1>2 DEF Revision, FollowsOn

\* What a classification plans for the files of a folder: a file that it moves
\* gets a destination, unless no folder is chosen.
LEMMA ClassifiedFits ==
  ASSUME BInv, NEW c \in [Files -> Actions], NEW d \in Dirs \cup {NoDir}, NEW p,
         p = DetectConflicts(Decided(Listed(src), c, d), lib)
  PROVE  /\ Revises(files, p, src) /\ Overs(files, p) /\ Placed(p) /\ Follows(p, d)
         /\ Conflicted(p) = {} /\ d # NoDir => ClearOf(p)
         /\ Good(p)
<1> USE BInvFacts
<1> DEFINE listed == Listed(src)
           decided == Decided(listed, c, d)
<1>1. p = DetectConflicts(decided, lib)
  OBVIOUS
<1>2. /\ Revises(files, listed, src) /\ Overs(files, listed) /\ Placed(listed)
      /\ \A f \in DOMAIN listed : listed[f].done = FALSE /\ listed[f].dest = NoPath
      /\ Good(listed) /\ Root \notin DOMAIN listed /\ DOMAIN listed \subseteq Files
  BY ListedFits, ListedGood
<1> HIDE DEF listed
<1>3. /\ Revises(listed, decided, src) /\ Overs(listed, decided) /\ Placed(decided)
      /\ Follows(decided, d) /\ Good(decided)
  BY <1>2, DecidedFits, DecidedGood
<1>4. ASSUME d # NoDir, NEW f \in DOMAIN decided, decided[f].action = "move"
      PROVE  decided[f].dest # NoPath
  <2>1. f \in DOMAIN listed /\ f \in Files /\ listed[f].done = FALSE
    BY <1>2 DEF decided, Decided
  <2>2. decided[f] = Planned(c[f], IF c[f] = "move" THEN DestIn(f, d) ELSE listed[f].dest)
    BY <1>4, <2>1 DEF decided, Decided
  <2>3. c[f] = "move" /\ decided[f].dest = DestIn(f, d)
    BY <1>4, <2>2 DEF Planned
  <2>4. DestIn(f, d) = <<d, Base[f]>> /\ <<d, Base[f]>> \in Dirs \X Names
    BY <1>4, <2>1, FilesAssumption, BaseAssumption DEF DestIn
  <2> QED
    BY <2>3, <2>4, PathAssumption
<1> HIDE DEF decided
<1>5. Revises(decided, p, src) /\ Overs(decided, p) /\ Placed(p) /\ Follows(p, d)
  BY <1>1, <1>3, DetectFits
<1>6. Revises(files, decided, src) /\ Overs(files, decided)
  BY <1>2, <1>3, RevisesTwice
<1>7. Revises(files, p, src) /\ Overs(files, p)
  BY <1>3, <1>5, <1>6, RevisesTwice
<1>8. Good(p)
  BY <1>1, <1>3, DetectGood DEF Good
<1>9. ASSUME Conflicted(p) = {}, d # NoDir PROVE ClearOf(p)
  <2>1. DOMAIN p = DOMAIN decided /\ \A f \in DOMAIN decided : Detected(decided[f], lib, p[f])
    BY <1>1, <1>3, DetectDoes
  <2>2. \A f \in Pending(p) : p[f].action = "move" => p[f].dest # NoPath
    BY <1>4, <1>9, <2>1 DEF Pending, Detected
  <2> QED
    BY <1>1, <1>3, <1>9, <2>2, ClearWhenFound
<1> QED
  BY <1>5, <1>7, <1>8, <1>9

LEMMA ClassifyKinds ==
  ASSUME BInv, NEW c \in [Files -> Actions], NEW d \in Dirs \cup {NoDir}, Classify(c, d)
  PROVE  Revision \/ Beginning
<1> DEFINE plan == DetectConflicts(Decided(Listed(src), c, d), lib)
<1>1. ~Locked /\ UNCHANGED <<src, lib, wpc, job, agreed>>
  BY DEF Classify, Candidate, disk
<1>2. files' = plan /\ target' = d
  BY DEF Classify, NewRow
<1>3. \/ UNCHANGED exec
      \/ /\ d # NoDir /\ Conflicted(plan) = {} /\ epc' = Turn(plan)
         /\ mem' = [files |-> plan, status |-> "moving"]
  BY DEF Classify
<1>4. /\ Revises(files, plan, src) /\ Overs(files, plan) /\ Placed(plan) /\ Follows(plan, d)
      /\ Conflicted(plan) = {} /\ d # NoDir => ClearOf(plan)
      /\ Good(plan)
  BY ClassifiedFits
<1> HIDE DEF plan
<1>5. CASE UNCHANGED exec
  BY <1>1, <1>2, <1>4, <1>5 DEF Revision, FollowsOn, exec
<1>6. CASE /\ d # NoDir /\ Conflicted(plan) = {} /\ epc' = Turn(plan)
           /\ mem' = [files |-> plan, status |-> "moving"]
  <2>1. mem'.files = plan
    BY <1>6
  <2>2. Locked'
    BY <1>6, TurnFacts DEF Locked
  <2>3. \A f \in DOMAIN plan : SameButConflict(plan[f], plan[f])
    BY SameIsSame
  <2>4. Staged'
    <3>1. ~OneFile'
      BY <1>1, UnlockedFacts, BInvFacts DEF OneFile, ByWorker
    <3>2. Current' = First(Pending(plan))
      BY <2>1, <3>1 DEF Current
    <3> QED
      BY <1>4, <1>6, <2>1, <3>1, <3>2, TurnStages DEF Staged
  <2> QED
    BY <1>1, <1>2, <1>4, <1>6, <2>1, <2>2, <2>3, <2>4 DEF Beginning, FollowsOn
<1> QED
  BY <1>3, <1>5, <1>6

LEMMA RefreshItemKinds == ASSUME BInv, RefreshItem PROVE Idle \/ Revision
<1> USE BInvFacts
<1>1. ~Locked /\ UNCHANGED <<src, lib, epc, mem, agreed>>
  BY DEF RefreshItem, disk, exec
<1>2. CASE UNCHANGED row
  BY <1>1, <1>2 DEF Idle, row
<1>3. CASE files' = Unlisted
  <2>1. DOMAIN files' = {}
    BY <1>3, UnlistedGood
  <2>2. /\ Revises(files, files', src) /\ Overs(files, files') /\ Placed(files')
        /\ Follows(files', target')
    BY <2>1 DEF Revises, NoneNew, Overs, Placed, Follows
  <2> QED
    BY <1>1, <2>2 DEF Revision, FollowsOn
<1>4. CASE files' = Reconcile(files, src) /\ UNCHANGED target
  <2>1. /\ Revises(files, files', src) /\ Overs(files, files') /\ Placed(files')
        /\ Follows(files, target) => Follows(files', target)
    BY <1>4, ReconcileFits
  <2> QED
    BY <1>1, <1>4, <2>1 DEF Revision, FollowsOn
<1> QED
  BY <1>2, <1>3, <1>4 DEF RefreshItem, NewRow

LEMMA ScannerKinds == ASSUME BInv, Scanner PROVE Idle \/ Revision \/ Beginning
<1>1. ASSUME SweepLeftover PROVE Idle
  BY <1>1 DEF SweepLeftover, Idle, row, exec
<1>2. ASSUME NEW c \in [Files -> Actions], NEW d \in Dirs \cup {NoDir}, Classify(c, d)
      PROVE  Revision \/ Beginning
  BY <1>2, ClassifyKinds
<1> QED
  BY <1>1, <1>2, FindWithoutAIKinds, ClassifyFailsKinds, RefreshItemKinds DEF Scanner

\* The holder of the lock.
LEMMA AbortKinds ==
  ASSUME epc # "idle", NEW how, Abort(how)
  PROVE  /\ Locked /\ epc' = "idle" /\ mem' = NoCopy /\ files' = mem.files
         /\ UNCHANGED <<target, agreed>>
BY DEF Abort, Unlock, Locked

LEMMA ReleaseKinds ==
  ASSUME BInv, MoveRefused \/ Confirm \/ StorageFails PROVE Released
<1>1. ASSUME MoveRefused PROVE Released
  <2>1. epc # "idle" /\ (Abort("ended") \/ Abort("again")) /\ src' = src
    BY <1>1 DEF MoveRefused
  <2>2. \/ UNCHANGED lib
        \/ /\ Blind /\ epc = "act" /\ Doing = "move" /\ Destination # NoPath
           /\ lib' = [lib EXCEPT ![Destination] = Nothing]
    <3>1. CASE SeemsFree /\ lib[Destination] # Nothing
      BY <1>1, <3>1 DEF MoveRefused, SeemsFree
    <3>2. CASE SeemsFree /\ lib[Destination] = Nothing
      <4>1. lib = [q \in Paths |-> lib[q]]
        BY BInvFacts
      <4>2. [lib EXCEPT ![Destination] = Nothing] = lib
        BY <3>2, <4>1
      <4> QED
        BY <1>1, <3>2, <4>2 DEF MoveRefused
    <3> QED
      BY <1>1, <3>1, <3>2 DEF MoveRefused
  <2> QED
    BY <2>1, <2>2, AbortKinds DEF Released
<1>2. ASSUME Confirm PROVE Released
  BY <1>2 DEF Confirm, Unlock, Released, Locked, disk
<1>3. ASSUME StorageFails PROVE Released
  <2>1. epc # "idle" /\ Abort("again") /\ src' = src
    BY <1>3 DEF StorageFails
  <2>2. \/ UNCHANGED lib
        \/ /\ "hiccup" \in Events /\ epc = "act" /\ Doing = "move" /\ Current \in src
           /\ Destination # NoPath /\ lib[Destination] = Nothing
           /\ lib' = [lib EXCEPT ![Destination] = Current]
        \/ /\ Blind /\ epc = "act" /\ Doing = "move" /\ Destination # NoPath
           /\ lib' = [lib EXCEPT ![Destination] = Nothing]
    BY <1>3 DEF StorageFails
  <2> QED
    BY <2>1, <2>2, AbortKinds DEF Released
<1> QED
  BY <1>1, <1>2, <1>3

LEMMA ProgressKinds == ASSUME Persist \/ Cleanup PROVE Progressing
<1>1. ASSUME Persist PROVE Progressing
  <2>1. epc' # "idle"
    BY <1>1, TurnFacts DEF Persist
  <2> QED
    BY <1>1, <2>1 DEF Persist, Progressing, disk
<1>2. ASSUME Cleanup PROVE Progressing
  BY <1>2 DEF Cleanup, Progressing, row
<1> QED
  BY <1>1, <1>2

LEMMA Steps == ASSUME BInv, [Next]_vars PROVE Kinds
<1>1. ASSUME UNCHANGED vars PROVE Idle
  BY <1>1 DEF vars, row, disk, exec, Idle, OneFile, ByWorker
<1>2. ASSUME Execution PROVE Kinds
  BY <1>2, ReleaseKinds, ProgressKinds DEF Execution, Kinds
<1>3. ASSUME Environment PROVE Kinds
  BY <1>3, ReleaseKinds DEF Environment, Kinds
<1> QED
  BY <1>1, <1>2, <1>3, UserKinds, WorkKinds, ScannerKinds DEF Next, Kinds

----------------------------------------------------------------------------
(* A file that is done, and what it leaves.                                 *)

\* The copy after Did(a, d): the file whose turn it was is done.
Finished(a, d) ==
  /\ DOMAIN mem'.files = DOMAIN mem.files /\ Current \in DOMAIN mem.files
  /\ \A f \in DOMAIN mem.files : f # Current => mem'.files[f] = mem.files[f]
  /\ mem'.files[Current].done = TRUE
  /\ IF a = "move"
     THEN /\ mem'.files[Current].dest = d /\ mem'.files[Current].over = FALSE
          /\ mem'.files[Current].overPath = NoPath /\ mem'.files[Current].conflict = NoPath
     ELSE /\ mem'.files[Current].dest = mem.files[Current].dest
          /\ mem'.files[Current].over = mem.files[Current].over
          /\ mem'.files[Current].overPath = mem.files[Current].overPath
          /\ mem'.files[Current].conflict = mem.files[Current].conflict

LEMMA DidFinishes ==
  ASSUME IInv, epc = "act", NEW a \in {"move", "delete"}, NEW d \in Paths \cup {NoPath},
         Did(a, d)
  PROVE  Finished(a, d)
<1> DEFINE r == IF a = "move" THEN [Planned("move", d) EXCEPT !.done = TRUE]
                ELSE [mem.files[Current] EXCEPT !.action = a, !.done = TRUE]
           q == [mem.files EXCEPT ![Current] = r]
<1>1. Good(mem.files) /\ Current \in DOMAIN mem.files /\ mem.files[Current] \in FileRec
  BY CurrentFacts DEF IInv, Plans
<1>2. /\ r \in FileRec /\ r.done = TRUE
      /\ IF a = "move"
         THEN r.dest = d /\ r.over = FALSE /\ r.overPath = NoPath /\ r.conflict = NoPath
         ELSE /\ r.dest = mem.files[Current].dest /\ r.over = mem.files[Current].over
              /\ r.overPath = mem.files[Current].overPath
              /\ r.conflict = mem.files[Current].conflict
  BY <1>1 DEF FileRec, Planned
<1>3. mem'.files = q
  <2>1. mem = [files |-> mem.files, status |-> mem.status]
    BY DEF IInv, Types
  <2>2. mem' = [mem EXCEPT !.files = q]
    BY DEF Did
  <2> HIDE DEF q
  <2> QED
    BY <2>1, <2>2
<1> HIDE DEF r
<1>4. mem.files = [f \in DOMAIN mem.files |-> mem.files[f]]
  BY <1>1 DEF Good, IsPlan
<1>5. DOMAIN q = DOMAIN mem.files /\ \A f \in DOMAIN mem.files :
        q[f] = IF f = Current THEN r ELSE mem.files[f]
  BY <1>4
<1> HIDE DEF q
<1> QED
  BY <1>1, <1>2, <1>3, <1>5 DEF Finished

\* What every step of the execution on a file has in common.
Acts == /\ epc = "act" /\ epc' \in {"cleanup", "persist"} /\ (epc' = "persist" => ~OneFile)
        /\ UNCHANGED <<files, target, agreed, jobs, wpc, job>>
        /\ Current \in Entry /\ Current \in DOMAIN mem.files
        /\ src' \in SUBSET src

LEMMA MoveDoes ==
  ASSUME BInv, MoveFile
  PROVE  /\ Acts /\ Doing = "move" /\ Finished("move", Destination)
         /\ Current \in Files /\ Current \in src /\ src' = src \ {Current}
         /\ Destination \in Paths /\ Destination[2] = Base[Current]
         /\ lib[Destination] = Nothing \/ Blind
         /\ lib' = [lib EXCEPT ![Destination] = Current]
<1> USE BInvFacts
<1>1. /\ epc = "act" /\ Doing = "move" /\ Did("move", Destination)
      /\ Destination # NoPath /\ (lib[Destination] = Nothing \/ Blind) /\ Current \in src
      /\ src' = src \ {Current} /\ lib' = [lib EXCEPT ![Destination] = Current]
      /\ UNCHANGED <<files, target, agreed, jobs, wpc, job>>
  BY DEF MoveFile, SeemsFree, row
<1>2. /\ Current \in Entry /\ Current \in DOMAIN mem.files
      /\ Destination \in Paths \cup {NoPath}
  BY <1>1, CurrentFacts
<1>3. Destination[2] = Base[Current]
  <2>1. CASE mem.files[Current].dest = NoPath
    BY <1>1, <1>2, <2>1, DestInPlaced DEF Destination
  <2>2. CASE mem.files[Current].dest # NoPath
    BY <1>2, <2>2 DEF Destination, Placed
  <2> QED
    BY <2>1, <2>2
<1>4. Finished("move", Destination)
  BY <1>1, <1>2, DidFinishes
<1>5. Acts
  BY <1>1, <1>2 DEF Acts, Did
<1> QED
  BY <1>1, <1>2, <1>3, <1>4, <1>5

LEMMA DeleteDoes ==
  ASSUME BInv, DeleteFile
  PROVE  /\ Acts /\ Doing = "delete" /\ Finished("delete", NoPath) /\ UNCHANGED lib
         /\ src' = IF Current = Root THEN {} ELSE src \ {Current}
<1> USE BInvFacts
<1>1. /\ epc = "act" /\ Doing = "delete" /\ Did("delete", NoPath) /\ UNCHANGED lib
      /\ src' = IF Current = Root THEN {} ELSE src \ {Current}
      /\ UNCHANGED <<files, target, agreed, jobs, wpc, job>>
  BY DEF DeleteFile, row
<1>2. Current \in Entry /\ Current \in DOMAIN mem.files
  BY <1>1, CurrentFacts
<1>3. Finished("delete", NoPath)
  BY <1>1, DidFinishes
<1>4. Acts
  BY <1>1, <1>2 DEF Acts, Did
<1> QED
  BY <1>1, <1>3, <1>4

LEMMA RemoveDoes ==
  ASSUME BInv, RemoveExisting
  PROVE  /\ epc = "replace" /\ epc' = "act" /\ Locked /\ Locked'
         /\ UNCHANGED <<files, target, src, mem, agreed, jobs, wpc, job>>
         /\ Current \in DOMAIN mem.files /\ Current \in Entry
         /\ mem.files[Current].over = TRUE
         /\ lib' \in [Paths -> Contents]
         /\ \A q \in Paths : lib'[q] # lib[q] =>
              /\ lib'[q] = Nothing
              /\ mem.files[Current].overPath # NoPath => q = mem.files[Current].overPath
<1> USE BInvFacts
<1>1. /\ epc = "replace" /\ epc' = "act"
      /\ UNCHANGED <<files, target, src, mem, agreed, jobs, wpc, job>>
  BY DEF RemoveExisting, row
<1>2. /\ Current \in DOMAIN mem.files /\ Current \in Entry
      /\ Destination \in Paths \cup {NoPath} /\ mem.files[Current] \in FileRec
  BY <1>1, CurrentFacts
<1> DEFINE gone == IF mem.files[Current].overPath = NoPath THEN Destination
                   ELSE mem.files[Current].overPath
<1>3. lib' = IF gone = NoPath THEN lib ELSE [lib EXCEPT ![gone] = Nothing]
  BY DEF RemoveExisting
<1>4. gone \in Paths \cup {NoPath}
  BY <1>2 DEF FileRec
<1>5. mem.files[Current].overPath # NoPath => gone = mem.files[Current].overPath
  OBVIOUS
<1> HIDE DEF gone
<1>6. /\ lib' \in [Paths -> Contents]
      /\ \A q \in Paths : lib'[q] # lib[q] => lib'[q] = Nothing /\ q = gone
  BY <1>3, <1>4 DEF Contents
<1>7. mem.files[Current].over = TRUE
  BY <1>1 DEF Staged
<1> QED
  BY <1>1, <1>2, <1>5, <1>6, <1>7 DEF Locked

----------------------------------------------------------------------------
(* BInv is inductive.                                                       *)

LEMMA SnapKeeps == ASSUME BInv, [Next]_vars PROVE Placed(snap') /\ Closed(snap')
<1> USE BInvFacts
<1>1. ASSUME NEW l \in Listings, snap' = DetectConflicts(files, l)
      PROVE  Placed(snap') /\ Closed(snap')
  BY <1>1, DetectFits
<1>2. Placed(Unlisted) /\ Closed(Unlisted)
  BY UnlistedGood DEF Placed, Closed
<1>3. ASSUME User PROVE snap' = snap
  BY <1>3 DEF User, PlanFileAction, SetItemTarget, ResolveConflict, Enqueue, RejectItem, scan
<1>4. ASSUME Execution PROVE snap' = snap
  BY <1>4 DEF Execution, RemoveExisting, MoveFile, MoveRefused, DeleteFile, Persist, Cleanup,
              Confirm, Abort, scan
<1>5. ASSUME Work
      PROVE  \/ snap' = snap \/ snap' = Unlisted
             \/ \E l \in Listings : snap' = DetectConflicts(files, l)
  BY <1>5 DEF Work, Claim, Refused, ApplyFileAction, MergeConflicts, ApplyPlan, ScanConflicts,
              ReclassifyItem, CreateTargetFolder, Record, scan
<1>6. ASSUME Scanner PROVE snap' = snap
  BY <1>6 DEF Scanner, FindWithoutAI, ClassifyFails, SweepLeftover, RefreshItem, Classify, scan
<1>7. ASSUME Environment PROVE snap' = snap \/ snap' = Unlisted
  BY <1>7 DEF Environment, Crash, StorageFails, Arrive, Abort, scan
<1>8. ASSUME UNCHANGED vars PROVE snap' = snap
  BY <1>8 DEF vars, scan
<1> QED
  BY <1>1, <1>2, <1>3, <1>4, <1>5, <1>6, <1>7, <1>8 DEF Next

\* The invariants of a copy that is not there.
LEMMA NoCopyFits ==
  ASSUME NEW d PROVE Placed(NoCopy.files) /\ Follows(NoCopy.files, d)
BY NoCopyGood, UnlistedGood DEF Placed, Follows

LEMMA InitBInv == Init => BInv
<1> SUFFICES ASSUME Init PROVE BInv
  OBVIOUS
<1>1. /\ files = Unlisted /\ snap = Unlisted /\ mem = NoCopy /\ epc = "idle"
  BY DEF Init
<1>2. Placed(Unlisted) /\ Closed(Unlisted) /\ DOMAIN Unlisted = {}
  BY UnlistedGood DEF Placed, Closed
<1> QED
  BY <1>1, <1>2, InitIInv, NoCopyFits DEF BInv, AsListed, Staged, RootAlone

LEMMA IInvKeeps == ASSUME IInv, [Next]_vars PROVE IInv'
<1>1. ASSUME UNCHANGED vars PROVE IInv'
  BY <1>1 DEF vars, row, disk, scan, exec, IInv, Types, Plans, Journal, Copy
<1> QED
  BY <1>1, NextKeeps

LEMMA BInvKeeps == ASSUME BInv, [Next]_vars PROVE BInv'
<1> USE BInvFacts
<1>1. IInv' /\ Placed(snap') /\ Closed(snap')
  BY IInvKeeps, SnapKeeps
<1> SUFFICES Placed(files') /\ Placed(mem'.files) /\ AsListed' /\ Staged' /\ RootAlone'
  BY <1>1 DEF BInv
<1>2. DOMAIN mem.files \subseteq DOMAIN files
  BY DEF IInv, Copy
<1>3. CASE Idle
  <2>1. Staged'
    BY <1>3 DEF Idle, Staged, Current, Locked, OneFile
  <2> QED
    BY <1>3, <2>1 DEF Idle, AsListed, RootAlone
<1>4. CASE Revision
  <2>1. epc' = "idle" /\ Placed(mem'.files) /\ Placed(files')
    BY <1>4 DEF Revision, Locked
  <2>2. RootAlone'
    BY <1>4 DEF Revision, Revises, RootAlone
  <2> QED
    BY <2>1, <2>2 DEF AsListed, Staged
<1>5. CASE Beginning
  <2>1. RootAlone'
    BY <1>5 DEF Beginning, Revises, RootAlone
  <2> QED
    BY <1>5, <2>1 DEF Beginning, AsListed
<1>6. CASE RemoveExisting
  BY <1>6, RemoveDoes DEF AsListed, Staged, RootAlone
<1>7. ASSUME Acts, NEW a, NEW d, Finished(a, d), a = "move" => d # NoPath /\ d[2] = Base[Current]
                                                               /\ Current \in Files
      PROVE  Placed(files') /\ Placed(mem'.files) /\ AsListed' /\ Staged' /\ RootAlone'
  <2>1. Placed(mem'.files)
    BY <1>7 DEF Finished, Placed
  <2>2. RootAlone' /\ AsListed' /\ Placed(files')
    BY <1>7 DEF Acts, RootAlone, AsListed
  <2>3. Staged'
    BY <1>7 DEF Acts, Staged, OneFile, ByWorker
  <2> QED
    BY <2>1, <2>2, <2>3
<1>8. CASE MoveFile
  <2>1. Destination # NoPath
    BY <1>8, MoveDoes, PathAssumption DEF Paths
  <2> QED
    BY <1>7, <1>8, <2>1, MoveDoes
<1>9. CASE DeleteFile
  BY <1>7, <1>9, DeleteDoes
<1>10. CASE Progressing
  <2>1. CASE files' = files /\ epc' = "confirm"
    BY <1>10, <2>1 DEF Progressing, AsListed, Staged, RootAlone
  <2>2. CASE files' = mem.files /\ epc = "persist" /\ epc' = Turn(mem.files)
    <3>1. AsListed' /\ RootAlone' /\ Placed(files') /\ Placed(mem'.files)
      BY <1>2, <1>10, <2>2, SameIsSame DEF Progressing, AsListed, RootAlone
    <3>2. ~OneFile /\ ~OneFile' /\ Current' = First(Pending(mem.files))
      BY <1>10, <2>2 DEF Progressing, Staged, OneFile, ByWorker, Current
    <3>3. Staged'
      BY <1>10, <2>2, <3>2, TurnStages DEF Progressing, Staged
    <3> QED
      BY <3>1, <3>3
  <2> QED
    BY <1>10, <2>1, <2>2 DEF Progressing
<1>11. CASE Released
  <2>1. Placed(files') /\ Placed(mem'.files) /\ epc' = "idle"
    BY <1>11, NoCopyFits DEF Released
  <2>2. RootAlone'
    BY <1>2, <1>11 DEF Released, RootAlone
  <2> QED
    BY <2>1, <2>2 DEF AsListed, Staged
<1>12. CASE Crash
  BY <1>12, NoCopyFits DEF Crash, Unlock, row, disk, AsListed, Staged, RootAlone
<1>13. ASSUME NEW f \in Files, Arrive(f)
       PROVE  Placed(files') /\ Placed(mem'.files) /\ AsListed' /\ Staged' /\ RootAlone'
  <2>1. f \notin DOMAIN files /\ src' = src \cup {f} /\ UNCHANGED <<files, epc, mem, wpc, job>>
    BY <1>13 DEF Arrive, row, exec
  <2>2. RootAlone' /\ AsListed' /\ Placed(files') /\ Placed(mem'.files)
    BY <2>1 DEF RootAlone, AsListed
  <2>3. Staged'
    BY <2>1 DEF Staged, OneFile, ByWorker, Current
  <2> QED
    BY <2>2, <2>3
<1> QED
  BY <1>3, <1>4, <1>5, <1>6, <1>8, <1>9, <1>10, <1>11, <1>12, <1>13, Steps DEF Kinds

\* Paths fit their files, the copy of an execution is the plan that is listed, a
\* file is removed only for one that replaces it: what the theorems below rest on.
THEOREM BroadInvariant == Spec => []BInv
<1>1. BInv /\ [Next]_vars => BInv'
  BY BInvKeeps
<1> QED
  BY InitBInv, <1>1, PTL DEF Spec

----------------------------------------------------------------------------
(* The row tells which files have left.  The plan that is current is the    *)
(* copy while there is an execution; if the process dies then, what the     *)
(* copy had and the row had not is lost.                                    *)

Live == IF Locked THEN mem.files ELSE files

Exact(p) == \A f \in DOMAIN p : f \notin src => f = Root \/ p[f].done = TRUE

LEMMA LiveFacts ==
  ASSUME BInv PROVE Good(Live) /\ Placed(Live) /\ DOMAIN Live \subseteq DOMAIN files
BY BInvFacts DEF Live, IInv, Copy

\* What Kinds says of the plan that is current.
LEMMA LiveKinds ==
  ASSUME BInv
  PROVE  /\ Idle \/ RemoveExisting \/ Progressing \/ (\E f \in Files : Arrive(f)) =>
              Live' = Live /\ (Locked' <=> Locked)
         /\ Released => Live' = Live
         /\ Revision => Live = files /\ Live' = files'
         /\ Beginning => Live = files /\ Live' = mem'.files
         /\ Acts => Live = mem.files /\ Live' = mem'.files
         /\ Crash => Live' = files
<1>1. ASSUME Idle PROVE Live' = Live /\ (Locked' <=> Locked)
  BY <1>1 DEF Idle, Live, Locked
<1>2. ASSUME RemoveExisting PROVE Live' = Live /\ (Locked' <=> Locked)
  BY <1>2, RemoveDoes DEF Live
<1>3. ASSUME Progressing PROVE Live' = Live /\ (Locked' <=> Locked)
  BY <1>3 DEF Progressing, Live, Locked
<1>4. ASSUME NEW f \in Files, Arrive(f) PROVE Live' = Live /\ (Locked' <=> Locked)
  BY <1>4 DEF Arrive, row, exec, Live, Locked
<1>5. ASSUME Released PROVE Live' = Live
  BY <1>5 DEF Released, Live, Locked
<1>6. ASSUME Revision PROVE Live = files /\ Live' = files'
  BY <1>6 DEF Revision, Live, Locked
<1>7. ASSUME Beginning PROVE Live = files /\ Live' = mem'.files
  BY <1>7 DEF Beginning, Live
<1>8. ASSUME Acts PROVE Live = mem.files /\ Live' = mem'.files
  BY <1>8 DEF Acts, Live, Locked
<1>9. ASSUME Crash PROVE Live' = files
  BY <1>9 DEF Crash, Unlock, Live, Locked, row
<1> QED
  BY <1>1, <1>2, <1>3, <1>4, <1>5, <1>6, <1>7, <1>8, <1>9

LEMMA RevisedExact ==
  ASSUME NEW q, Exact(files), Good(q), Revises(files, q, src) PROVE Exact(q)
<1>1. \A f \in DOMAIN q : q[f].done \in BOOLEAN
  BY DEF Good, IsPlan, FileRec
<1> QED
  BY <1>1 DEF Exact, Revises

LEMMA ExactKeeps ==
  ASSUME "crash" \notin Events, BInv, BInv', [Next]_vars, Exact(Live) PROVE Exact(Live)'
<1>1. CASE Idle \/ RemoveExisting \/ Progressing \/ Released
  <2>1. Live' = Live /\ src' = src
    BY <1>1, LiveKinds, RemoveDoes DEF Idle, Progressing, Released
  <2> QED
    BY <2>1 DEF Exact
<1>2. CASE Revision \/ Beginning
  <2>1. /\ Live = files /\ src' = src /\ Revises(files, Live', src)
        /\ Good(Live')
    BY <1>2, LiveKinds, BInvFacts DEF Revision, Beginning, BInv, IInv, Plans
  <2> QED
    BY <2>1, RevisedExact DEF Exact
<1>3. CASE MoveFile
  BY <1>3, LiveKinds, MoveDoes DEF Exact, Finished
<1>4. CASE DeleteFile
  <2>1. /\ Live = mem.files /\ Live' = mem'.files /\ Finished("delete", NoPath)
        /\ DOMAIN mem.files \subseteq DOMAIN files /\ Current \in DOMAIN mem.files
    BY <1>4, LiveKinds, LiveFacts, DeleteDoes DEF Acts
  <2>2. CASE Current = Root
    <3>1. \A f \in DOMAIN mem.files : f \notin src
      BY <2>1, <2>2 DEF BInv, RootAlone
    <3> QED
      BY <2>1, <2>2, <3>1 DEF Exact, Finished
  <2>3. CASE Current # Root
    <3>1. src' = src \ {Current}
      BY <1>4, <2>3, DeleteDoes
    <3> QED
      BY <2>1, <3>1 DEF Exact, Finished
  <2> QED
    BY <2>2, <2>3
<1>5. ASSUME NEW f \in Files, Arrive(f) PROVE Exact(Live)'
  <2>1. Live' = Live /\ src \subseteq src'
    BY <1>5, LiveKinds DEF Arrive
  <2> QED
    BY <2>1 DEF Exact
<1>6. ~Crash
  BY DEF Crash
<1> QED
  BY <1>1, <1>2, <1>3, <1>4, <1>5, <1>6, Steps DEF Kinds

LEMMA InitExact == ASSUME Init PROVE Exact(Live)
BY UnlistedGood DEF Init, Live, Locked, Exact

\* The row tells exactly which files have left the source, whatever the storage
\* and the user do meanwhile, as long as the process does not die between a
\* transfer and the write (executePlan, finalize in plan.go).
THEOREM JournalIsExact ==
  ASSUME "crash" \notin Events PROVE Spec => []JournalExact
<1>1. Init => Exact(Live)
  BY InitExact
<1>2. BInv /\ BInv' /\ [Next]_vars /\ Exact(Live) => Exact(Live)'
  BY ExactKeeps
<1>3. BInv /\ Exact(Live) => JournalExact
  <2> SUFFICES ASSUME BInv, Exact(Live), ~Locked, NEW f \in DOMAIN files \ {Root}
               PROVE  files[f].done <=> f \notin src
    BY DEF JournalExact
  <2>1. files[f].done \in BOOLEAN
    BY DEF BInv, IInv, Plans, Good, IsPlan, FileRec
  <2>2. f \notin src => files[f].done = TRUE
    BY DEF Exact, Live
  <2>3. files[f].done = TRUE => f \notin src
    BY DEF BInv, IInv, Journal, Truthful
  <2> QED
    BY <2>1, <2>2, <2>3
<1> QED
  BY <1>1, <1>2, <1>3, BroadInvariant, PTL DEF Spec

----------------------------------------------------------------------------
(* A plan leads to the target.                                              *)

Following == Follows(files, target) /\ Follows(mem.files, target)

LEMMA FollowingKeeps ==
  ASSUME <<"reclassify">> \notin Requests, BInv, BInv', [Next]_vars, Following
  PROVE  Following'
<1>1. CASE Idle \/ RemoveExisting \/ (\E f \in Files : Arrive(f)) \/ Progressing
  <2>1. target' = target /\ mem' = mem /\ files' \in {files, mem.files}
    BY <1>1, RemoveDoes DEF Idle, Arrive, Progressing, row, exec
  <2> QED
    BY <2>1 DEF Following
<1>2. CASE Revision
  <2>1. Follows(files', target') /\ mem' = mem /\ ~Locked
    BY <1>2 DEF Revision, FollowsOn, Following
  <2>2. mem = NoCopy
    BY <2>1, UnlockedFacts DEF BInv
  <2> QED
    BY <2>1, <2>2, NoCopyFits DEF Following
<1>3. CASE Beginning
  BY <1>3 DEF Beginning, FollowsOn, Following
<1>4. ASSUME Acts, NEW a, NEW d, Finished(a, d) PROVE Following'
  BY <1>4 DEF Acts, Finished, Following, Follows
<1>5. CASE MoveFile \/ DeleteFile
  BY <1>4, <1>5, MoveDoes, DeleteDoes
<1>6. CASE Released
  BY <1>6, NoCopyFits DEF Released, Following
<1>7. CASE Crash
  BY <1>7, NoCopyFits DEF Crash, Unlock, row, Following
<1> QED
  BY <1>1, <1>2, <1>3, <1>5, <1>6, <1>7, Steps DEF Kinds

\* Unless the AI is asked again, a file moves only to the folder that is the
\* item's target: every change of the target routes the plan anew.
THEOREM PlansFollowTarget ==
  ASSUME <<"reclassify">> \notin Requests PROVE Spec => []PlanFollowsTarget
<1>1. Init => Following
  BY UnlistedGood, NoCopyFits DEF Init, Following, Follows
<1>2. BInv /\ BInv' /\ [Next]_vars /\ Following => Following'
  BY FollowingKeeps
<1>3. BInv /\ Following => PlanFollowsTarget
  <2> SUFFICES ASSUME BInv, Following, NEW f \in DOMAIN files
               PROVE  files[f].action = "move" /\ ~files[f].done /\ files[f].dest # NoPath
                        => files[f].dest[1] = target
    BY DEF PlanFollowsTarget
  <2>1. files[f].done \in BOOLEAN
    BY DEF BInv, IInv, Plans, Good, IsPlan, FileRec
  <2> QED
    BY <2>1 DEF Following, Follows
<1> QED
  BY <1>1, <1>2, <1>3, BroadInvariant, PTL DEF Spec

----------------------------------------------------------------------------
(* A file is in one place, so that what is in the library and has the name  *)
(* of a file of the item is what the item has put there.                    *)

Elsewhere == \A p \in Paths : lib[p] \notin src

\* An execution that ends without having left a copy has added nothing.
LEMMA ReleaseFrees ==
  ASSUME BInv, Released, "hiccup" \notin Events
  PROVE  /\ src' = src /\ \A q \in Paths : lib'[q] \in {lib[q], Nothing}
         /\ Live' = Live /\ agreed' = agreed
<1>1. Live' = Live /\ agreed' = agreed /\ src' = src
  BY BInvFacts, LiveKinds DEF Released
<1>2. lib' = lib \/ lib' = [lib EXCEPT ![Destination] = Nothing]
  BY DEF Released
<1> QED
  BY <1>1, <1>2, BInvFacts

LEMMA InitElsewhere == ASSUME Init PROVE Elsewhere
BY OthersAssumption DEF Init, Elsewhere

LEMMA ElsewhereKeeps ==
  ASSUME "hiccup" \notin Events, BInv, [Next]_vars, Elsewhere PROVE Elsewhere'
<1> USE BInvFacts
<1>1. CASE Idle \/ Revision \/ Beginning \/ Progressing \/ Crash
  <2>1. UNCHANGED <<src, lib>>
    BY <1>1 DEF Idle, Revision, Beginning, Progressing, Crash, disk
  <2> QED
    BY <2>1 DEF Elsewhere
<1>2. CASE RemoveExisting
  BY <1>2, RemoveDoes, OthersAssumption DEF Elsewhere
<1>3. CASE MoveFile
  <2>1. /\ Destination \in Paths /\ src' = src \ {Current}
        /\ lib' = [lib EXCEPT ![Destination] = Current]
    BY <1>3, MoveDoes
  <2> QED
    BY <2>1 DEF Elsewhere
<1>4. CASE DeleteFile
  BY <1>4, DeleteDoes DEF Elsewhere
<1>5. ASSUME NEW f \in Files, Arrive(f) PROVE Elsewhere'
  <2>1. lib' = lib /\ src' = src \cup {f} /\ f \notin {lib[p] : p \in Paths}
    BY <1>5 DEF Arrive, Present
  <2> QED
    BY <2>1 DEF Elsewhere
<1>6. CASE Released
  BY <1>6, ReleaseFrees, OthersAssumption DEF Elsewhere
<1> QED
  BY <1>1, <1>2, <1>3, <1>4, <1>5, <1>6, Steps DEF Kinds

----------------------------------------------------------------------------
(* Nobody is asked to choose between a file and itself.                     *)

Settled(p) == \A f \in DOMAIN p : \A q \in Paths : lib[q] = f => p[f].conflict = NoPath

\* A file of the library is not in the source, so that no revision opens it.
LEMMA RevisedSettled ==
  ASSUME BInv, Elsewhere, Exact(files), Settled(files), NEW q, Placed(q),
         Revises(files, q, src)
  PROVE  Settled(q)
<1> SUFFICES ASSUME NEW f \in DOMAIN q, NEW e \in Paths, lib[e] = f, q[f].conflict # NoPath
             PROVE  FALSE
  BY DEF Settled
<1>1. f \in Files /\ f # Root /\ f \notin src
  BY FilesAssumption DEF Placed, Elsewhere
<1>2. f \in DOMAIN files /\ files[f].conflict = NoPath => files[f].done = TRUE
  BY <1>1 DEF Exact
<1>3. f \in DOMAIN files => files[f].conflict = NoPath
  BY DEF Settled
<1> QED
  BY <1>1, <1>2, <1>3 DEF Revises

LEMMA SettledKeeps ==
  ASSUME BInv, BInv', [Next]_vars, "crash" \notin Events, "hiccup" \notin Events,
         Elsewhere, Exact(Live), Settled(Live)
  PROVE  Settled(Live)'
<1> USE BInvFacts
<1>1. CASE Idle \/ Progressing \/ \E f \in Files : Arrive(f)
  <2>1. Live' = Live /\ lib' = lib
    BY <1>1, LiveKinds DEF Idle, Progressing, Arrive
  <2> QED
    BY <2>1 DEF Settled
<1>2. CASE Revision \/ Beginning
  <2>1. /\ Live = files /\ lib' = lib /\ Revises(files, Live', src) /\ Placed(Live')
    BY <1>2, LiveKinds DEF Revision, Beginning
  <2>2. Settled(Live')
    BY <2>1, RevisedSettled
  <2> QED
    BY <2>1, <2>2 DEF Settled
<1>3. CASE RemoveExisting \/ Released
  <2>1. Live' = Live /\ Placed(Live)
    BY <1>3, LiveKinds, LiveFacts, ReleaseFrees
  <2>2. \A q \in Paths : lib'[q] # lib[q] => lib'[q] = Nothing
    BY <1>3, RemoveDoes, ReleaseFrees
  <2>3. \A f \in DOMAIN Live : Live[f].conflict # NoPath => f # Nothing
    BY <2>1, OthersAssumption DEF Placed
  <2> QED
    BY <2>1, <2>2, <2>3 DEF Settled
<1>4. CASE MoveFile
  <2>1. /\ Live = mem.files /\ Live' = mem'.files /\ Finished("move", Destination)
        /\ Destination \in Paths /\ lib' = [lib EXCEPT ![Destination] = Current]
    BY <1>4, MoveDoes, LiveKinds
  <2>2. \A q \in Paths : lib'[q] = IF q = Destination THEN Current ELSE lib[q]
    BY <2>1
  <2> QED
    BY <2>1, <2>2 DEF Settled, Finished
<1>5. CASE DeleteFile
  <2>1. /\ Live = mem.files /\ Live' = mem'.files /\ Finished("delete", NoPath)
        /\ lib' = lib
    BY <1>5, DeleteDoes, LiveKinds
  <2> QED
    BY <2>1 DEF Settled, Finished
<1>6. ~Crash
  BY DEF Crash
<1> QED
  BY <1>1, <1>2, <1>3, <1>4, <1>5, <1>6, Steps DEF Kinds

LEMMA InitSettled == ASSUME Init PROVE Settled(Live)
BY UnlistedGood DEF Init, Live, Locked, Settled

\* A recorded collision is never with the item's own file, as long as a transfer
\* is either recorded or has not left a copy (detectConflicts, moveOne): without
\* these, the file would be proposed for the path where it is.
THEOREM CollisionsAreWithOthers ==
  ASSUME "crash" \notin Events, "hiccup" \notin Events PROVE Spec => []NoSelfConflict
<1> DEFINE Inv == Elsewhere /\ Exact(Live) /\ Settled(Live)
<1>1. Init => Inv
  BY InitElsewhere, InitExact, InitSettled
<1>2. BInv /\ BInv' /\ [Next]_vars /\ Inv => Inv'
  BY ElsewhereKeeps, ExactKeeps, SettledKeeps
<1>3. BInv /\ Inv => NoSelfConflict
  <2> SUFFICES ASSUME BInv, Inv, ~Locked, NEW f \in DOMAIN files, files[f].conflict # NoPath
               PROVE  lib[files[f].conflict] # f
    BY DEF NoSelfConflict
  <2>1. files[f].conflict \in Paths
    BY BInvFacts DEF Good, IsPlan, FileRec
  <2> QED
    BY <2>1 DEF Settled, Live
<1> HIDE DEF Inv
<1> QED
  BY <1>1, <1>2, <1>3, BroadInvariant, PTL DEF Spec

----------------------------------------------------------------------------
(* Nothing is moved past an unreviewed collision.                           *)

Clear == Locked /\ ~OneFile => ClearOf(mem.files)

LEMMA ClearKeeps ==
  ASSUME "unreadable" \notin Events, BInv, [Next]_vars, Clear PROVE Clear'
<1> USE BInvFacts
<1>1. CASE Idle \/ Progressing \/ \E f \in Files : Arrive(f)
  <2>1. lib' = lib /\ mem' = mem /\ (Locked' /\ ~OneFile' => Locked /\ ~OneFile)
    BY <1>1 DEF Idle, Progressing, Arrive, exec, Locked, OneFile, ByWorker
  <2> QED
    BY <2>1 DEF Clear, ClearOf
<1>2. CASE Revision \/ Released \/ Crash
  <2>1. ~Locked'
    BY <1>2 DEF Revision, Released, Crash, Unlock, Locked
  <2> QED
    BY <2>1 DEF Clear
<1>3. CASE Beginning
  BY <1>3 DEF Beginning, Clear, ClearOf
<1>4. CASE RemoveExisting
  <2>1. /\ mem' = mem /\ Locked /\ (OneFile' <=> OneFile)
        /\ \A q \in Paths : lib'[q] # lib[q] => lib'[q] = Nothing
    BY <1>4, RemoveDoes DEF OneFile, ByWorker
  <2>2. Nothing \notin Others
    BY OthersAssumption
  <2> QED
    BY <2>1, <2>2 DEF Clear, ClearOf
<1>5. ASSUME Acts, NEW a, NEW d, Finished(a, d),
             \A q \in Paths : lib'[q] \in Others => lib[q] = lib'[q]
      PROVE  Clear'
  <2>1. Locked /\ (OneFile' <=> OneFile)
    BY <1>5 DEF Acts, Locked, OneFile, ByWorker
  <2>2. \A f \in Pending(mem'.files) : f \in Pending(mem.files) /\ mem'.files[f] = mem.files[f]
    BY <1>5 DEF Finished, Pending
  <2> QED
    BY <1>5, <2>1, <2>2 DEF Clear, ClearOf
<1>6. CASE MoveFile
  <2>1. \A q \in Paths : lib'[q] # lib[q] => lib'[q] \in Files
    BY <1>6, MoveDoes
  <2> QED
    BY <1>5, <1>6, <2>1, MoveDoes, OthersAssumption
<1>7. CASE DeleteFile
  BY <1>5, <1>7, DeleteDoes
<1> QED
  BY <1>1, <1>2, <1>3, <1>4, <1>6, <1>7, Steps DEF Kinds

\* A file that enters the library is the one whose turn it is, and moves.
LEMMA EntersByMove ==
  ASSUME BInv, [Next]_vars, NEW f \in Files, NEW p \in Paths, lib[p] # f, lib'[p] = f
  PROVE  epc = "act" /\ Doing = "move" /\ f = Current /\ p = Destination
<1> USE BInvFacts
<1>1. CASE Idle \/ Revision \/ Beginning \/ Progressing \/ Crash \/ DeleteFile
           \/ \E g \in Files : Arrive(g)
  <2>1. lib' = lib
    BY <1>1, DeleteDoes DEF Idle, Revision, Beginning, Progressing, Crash, Arrive, disk
  <2> QED
    BY <2>1
<1>2. CASE RemoveExisting
  BY <1>2, RemoveDoes, OthersAssumption
<1>3. CASE MoveFile
  BY <1>3, MoveDoes DEF Acts
<1>4. CASE Released
  <2>1. /\ epc = "act" /\ Doing = "move"
        /\ lib' = [lib EXCEPT ![Destination] = Current]
    BY <1>4, OthersAssumption DEF Released
  <2> QED
    BY <2>1
<1> QED
  BY <1>1, <1>2, <1>3, <1>4, Steps DEF Kinds

LEMMA MovesClear ==
  ASSUME \A f \in Entry : <<"file", f, "move">> \notin Requests,
         BInv, Clear, [Next]_vars, NEW f \in Files, NEW p \in Paths,
         lib[p] # f, lib'[p] = f, NEW q \in Paths, lib[q] \in Others, q[1] = p[1],
         q = p \/ <<q[2], p[2]>> \in SameEpisode
  PROVE  f \in DOMAIN files /\ files[f].over
<1> USE BInvFacts
<1>1. epc = "act" /\ Locked /\ Doing = "move" /\ f = Current
  BY EntersByMove DEF Locked
<1>2. p = Destination
  BY EntersByMove
<1>3. f \in DOMAIN files /\ f \in DOMAIN mem.files
  BY <1>1, CurrentFacts DEF IInv, Copy
<1>4. ~OneFile
  <2> SUFFICES ASSUME OneFile PROVE FALSE
    OBVIOUS
  <2>1. job[1] = "file" /\ job[3] = "move" /\ job \in Works \cup {<<"none">>}
    BY <1>1 DEF OneFile, Doing, IInv, Types
  <2>2. job \in Requests /\ job \in FileJobs
    BY <2>1, RequestsAssumption DEF Works
  <2>3. job = <<"file", job[2], "move">> /\ job[2] \in Entry
    BY <2>1, <2>2 DEF FileJobs
  <2> QED
    BY <2>2, <2>3
<1>5. ClearOf(mem.files) /\ mem.files[f].action = "move"
  BY <1>1, <1>4 DEF Clear, Doing
<1>6. f \in Pending(mem.files)
  <2>1. Pending(mem.files) # {} /\ Pending(mem.files) \in SUBSET Entry
    BY <1>1, <1>4 DEF IInv, Copy, OneFile, ByWorker, Pending, Good, IsPlan
  <2> QED
    BY <1>1, <1>4, <2>1, FirstIsIn DEF Current
<1>7. mem.files[f].dest = Destination
  BY <1>1, <1>5, <1>6 DEF ClearOf, Destination
<1>8. mem.files[f].over # FALSE
  BY <1>2, <1>5, <1>6, <1>7 DEF ClearOf
<1>9. mem.files[f].over = files[f].over
  BY <1>1, <1>3 DEF AsListed, SameButConflict
<1>10. files[f].over \in BOOLEAN
  BY <1>3 DEF Good, IsPlan, FileRec
<1> QED
  BY <1>3, <1>8, <1>9, <1>10

\* "Nothing is moved past an unreviewed collision" (README), as long as folders
\* can be read and no single file is moved by itself, whatever crashes and fails:
\* the check of applyPlan covers all of the plan, and the plan it has checked is
\* executed under the same lock.
THEOREM CollisionsAreReviewed ==
  ASSUME "unreadable" \notin Events,
         \A f \in Entry : <<"file", f, "move">> \notin Requests
  PROVE  Spec => NoUnreviewedCollision
<1> DEFINE Reviews == \A f \in Files : \A p \in Paths :
             lib[p] # f /\ lib'[p] = f =>
               \A q \in Paths : lib[q] \in Others /\ q[1] = p[1]
                                /\ (q = p \/ <<q[2], p[2]>> \in SameEpisode)
                                => f \in DOMAIN files /\ files[f].over
<1>1. Init => Clear
  BY DEF Init, Clear, Locked
<1>2. BInv /\ [Next]_vars /\ Clear => Clear'
  BY ClearKeeps
<1>3. BInv /\ [Next]_vars /\ Clear => Reviews
  BY MovesClear
<1>4. BInv /\ [Next]_vars /\ Clear => [Reviews]_vars
  BY <1>3
<1> QED
  BY <1>1, <1>2, <1>4, BroadInvariant, PTL DEF Spec, NoUnreviewedCollision

----------------------------------------------------------------------------
(* Nothing is destroyed without a decision.                                 *)

\* The entry of an empty folder is listed only while the folder is empty.
RootEmpty == Root \in DOMAIN files => src = {}

\* A decision to replace is for what the user has seen, or for what is gone.
Bound(p) == \A f \in DOMAIN p : p[f].over = TRUE =>
  p[f].overPath # NoPath /\ lib[p[f].overPath] \in {agreed[f], Nothing}

Unforced(p) == \A f \in DOMAIN p : p[f].over = FALSE

Bounding == IF "replace" \in Events THEN Bound(Live)
            ELSE Unforced(files) /\ Unforced(mem.files)

\* No two files may collide with the same content.
Apart == \A f, g \in Files : f # g => Colliding(f) \cap Colliding(g) = {}

LEMMA RootEmptyKeeps ==
  ASSUME "arrival" \notin Events, BInv, [Next]_vars, RootEmpty PROVE RootEmpty'
<1> USE BInvFacts
<1>1. CASE Idle \/ RemoveExisting \/ Crash
  BY <1>1, RemoveDoes DEF Idle, Crash, row, disk, RootEmpty
<1>2. CASE Revision \/ Beginning
  <2>1. Revises(files, files', src) /\ src' = src
    BY <1>2 DEF Revision, Beginning
  <2> QED
    BY <2>1 DEF Revises, RootEmpty
<1>3. CASE MoveFile \/ DeleteFile
  <2>1. files' = files /\ src' \in SUBSET src
    BY <1>3, MoveDoes, DeleteDoes DEF Acts
  <2> QED
    BY <2>1 DEF RootEmpty
<1>4. CASE Progressing \/ Released
  <2>1. src' = src /\ files' \in {files, mem.files}
    BY <1>4 DEF Progressing, Released
  <2> QED
    BY <2>1 DEF RootEmpty, IInv, Copy
<1>5. ~(\E f \in Files : Arrive(f))
  BY DEF Arrive
<1> QED
  BY <1>1, <1>2, <1>3, <1>4, <1>5, Steps DEF Kinds

LEMMA OversUnforced ==
  ASSUME NEW p, Unforced(p), NEW q, Good(q), Overs(p, q) PROVE Unforced(q)
<1>1. \A f \in DOMAIN q : q[f].over \in BOOLEAN
  BY DEF Good, IsPlan, FileRec
<1> QED
  BY <1>1 DEF Unforced, Overs

LEMMA UnforcedKeeps ==
  ASSUME "replace" \notin Events, BInv, BInv', [Next]_vars, Unforced(files),
         Unforced(mem.files)
  PROVE  Unforced(files') /\ Unforced(mem'.files)
<1> USE BInvFacts
<1>1. Good(files') /\ Good(mem'.files)
  BY DEF BInv, IInv, Plans
<1>2. Unforced(NoCopy.files)
  BY NoCopyGood, UnlistedGood DEF Unforced
<1>3. CASE Idle \/ RemoveExisting \/ (\E f \in Files : Arrive(f)) \/ Progressing
  <2>1. mem' = mem /\ files' \in {files, mem.files}
    BY <1>3, RemoveDoes DEF Idle, Arrive, Progressing, row, exec
  <2> QED
    BY <2>1
<1>4. CASE Revision
  <2>1. mem' = mem /\ Overs(files, files')
    BY <1>4 DEF Revision, Agrees
  <2> QED
    BY <1>1, <2>1, OversUnforced
<1>5. CASE Beginning
  BY <1>1, <1>5, OversUnforced DEF Beginning
<1>6. ASSUME Acts, NEW a, NEW d, Finished(a, d) PROVE Unforced(files') /\ Unforced(mem'.files)
  BY <1>6 DEF Acts, Finished, Unforced
<1>7. CASE MoveFile \/ DeleteFile
  BY <1>6, <1>7, MoveDoes, DeleteDoes
<1>8. CASE Released \/ Crash
  BY <1>2, <1>8 DEF Released, Crash, Unlock, row
<1> QED
  BY <1>3, <1>4, <1>5, <1>7, <1>8, Steps DEF Kinds

\* The user agrees that f replaces what is at the path of its collision.
LEMMA AgreedBound ==
  ASSUME BInv, NEW f \in DOMAIN files, Agrees(f), lib' = lib, Bound(files)
  PROVE  Bound(files)'
<1> USE BInvFacts
<1>1. /\ files[f].conflict # NoPath /\ files' = Replace(files, f)
      /\ agreed' = [agreed EXCEPT ![f] = lib[files[f].conflict]]
  BY DEF Agrees
<1>2. /\ DOMAIN files' = DOMAIN files /\ Replaced(files[f], files'[f])
      /\ \A g \in DOMAIN files : g # f => files'[g] = files[g]
  BY <1>1, ReplaceDoes
<1>3. f \in Entry /\ agreed'[f] = lib[files[f].conflict]
      /\ \A g \in Entry : g # f => agreed'[g] = agreed[g]
  BY <1>1 DEF Good, IsPlan
<1>4. DOMAIN files \subseteq Entry
  BY DEF Good, IsPlan
<1> QED
  BY <1>1, <1>2, <1>3, <1>4 DEF Bound, Replaced

LEMMA BoundKeeps ==
  ASSUME "replace" \in Events, "crash" \notin Events, "hiccup" \notin Events, Apart,
         BInv, BInv', [Next]_vars, Bound(Live)
  PROVE  Bound(Live)'
<1> USE BInvFacts
<1>1. CASE Idle \/ Progressing \/ \E f \in Files : Arrive(f)
  <2>1. Live' = Live /\ lib' = lib /\ agreed' = agreed
    BY <1>1, LiveKinds DEF Idle, Progressing, Arrive
  <2> QED
    BY <2>1 DEF Bound
<1>2. ASSUME Revision \/ Beginning, Overs(files, Live'), agreed' = agreed PROVE Bound(Live)'
  <2>1. Live = files /\ lib' = lib
    BY <1>2, LiveKinds DEF Revision, Beginning
  <2> QED
    BY <1>2, <2>1 DEF Bound, Overs
<1>3. CASE Revision
  <2>1. Live = files /\ Live' = files' /\ lib' = lib
    BY <1>3, LiveKinds DEF Revision
  <2>2. CASE Overs(files, files') /\ UNCHANGED agreed
    BY <1>2, <1>3, <2>1, <2>2
  <2>3. ASSUME NEW f \in DOMAIN files, Agrees(f) PROVE Bound(Live)'
    BY <2>1, <2>3, AgreedBound DEF Bound
  <2> QED
    BY <1>3, <2>2, <2>3 DEF Revision
<1>4. CASE Beginning
  BY <1>2, <1>4, LiveKinds DEF Beginning
<1>5. CASE RemoveExisting \/ Released
  <2>1. /\ Live' = Live /\ agreed' = agreed
        /\ \A q \in Paths : lib'[q] # lib[q] => lib'[q] = Nothing
    BY <1>5, LiveKinds, RemoveDoes, ReleaseFrees
  <2>2. \A f \in DOMAIN Live : Live[f].overPath # NoPath => Live[f].overPath \in Paths
    BY LiveFacts DEF Good, IsPlan, FileRec
  <2> QED
    BY <2>1, <2>2 DEF Bound
<1>6. CASE MoveFile
  <2>1. /\ Live = mem.files /\ Live' = mem'.files /\ Finished("move", Destination)
        /\ agreed' = agreed /\ Current \in Files
        /\ Destination \in Paths /\ Destination[2] = Base[Current]
        /\ lib' = [lib EXCEPT ![Destination] = Current]
    BY <1>6, MoveDoes, LiveKinds DEF Acts
  <2> SUFFICES ASSUME NEW f \in DOMAIN mem'.files, mem'.files[f].over = TRUE
               PROVE  /\ mem'.files[f].overPath # NoPath
                      /\ lib'[mem'.files[f].overPath] \in {agreed'[f], Nothing}
    BY <2>1 DEF Bound
  <2>2. f # Current /\ f \in DOMAIN mem.files /\ mem'.files[f] = mem.files[f]
    BY <2>1 DEF Finished
  <2> DEFINE over == mem.files[f].overPath
  <2>3. over # NoPath /\ lib[over] \in {agreed[f], Nothing}
    BY <2>1, <2>2 DEF Bound
  <2>4. over \in Paths /\ f \in Files /\ over[2] \in Colliding(f)
    BY <2>2, <2>3 DEF Placed, Good, IsPlan, FileRec
  <2>5. Base[Current] \in Colliding(Current)
    BY <2>1, BaseAssumption DEF Colliding
  <2>6. over # Destination
    BY <2>1, <2>2, <2>4, <2>5 DEF Apart
  <2> QED
    BY <2>1, <2>2, <2>3, <2>4, <2>6
<1>7. CASE DeleteFile
  <2>1. /\ Live = mem.files /\ Live' = mem'.files /\ Finished("delete", NoPath)
        /\ lib' = lib /\ agreed' = agreed
    BY <1>7, DeleteDoes, LiveKinds DEF Acts
  <2> QED
    BY <2>1 DEF Bound, Finished
<1>8. ~Crash
  BY DEF Crash
<1> QED
  BY <1>1, <1>3, <1>4, <1>5, <1>6, <1>7, <1>8, Steps DEF Kinds

\* What OnlyAgreedLosses says of one content.
Agreed(c) ==
  \/ c \in src /\ (\/ c \in DOMAIN files /\ files[c].action = "delete"
                   \/ <<"file", c, "delete">> \in jobs)
  \/ \E f \in DOMAIN files : agreed[f] = c /\ files[f].over

LEMMA PresentFacts ==
  /\ \A c : c \in Present <=> c \in src \/ \E p \in Paths : lib[p] = c
  /\ \A c : c \in Present' <=> c \in src' \/ \E p \in Paths : lib'[p] = c
BY DEF Present

LEMMA RemovalAgreed ==
  ASSUME BInv, Bounding, RemoveExisting, NEW c \in Present, c \notin Present', c # Nothing
  PROVE  Agreed(c)
<1> USE BInvFacts
<1>1. PICK p \in Paths : lib[p] = c /\ lib'[p] # c
  BY PresentFacts, RemoveDoes
<1>2. /\ Current \in DOMAIN mem.files /\ mem.files[Current].over = TRUE /\ Live = mem.files
      /\ mem.files[Current].overPath # NoPath => p = mem.files[Current].overPath
  BY <1>1, RemoveDoes DEF Live
<1>3. "replace" \in Events /\ Bound(mem.files)
  BY <1>2 DEF Bounding, Unforced
<1>4. c = agreed[Current]
  BY <1>1, <1>2, <1>3 DEF Bound
<1>5. Current \in DOMAIN files /\ files[Current].over = TRUE
  BY <1>2, RemoveDoes DEF IInv, Copy, AsListed, SameButConflict
<1> QED
  BY <1>4, <1>5 DEF Agreed

LEMMA DeletionAgreed ==
  ASSUME BInv, RootEmpty, DeleteFile, NEW c \in Present, c \notin Present'
  PROVE  Agreed(c)
<1> USE BInvFacts
<1>1. /\ Acts /\ Doing = "delete" /\ lib' = lib
      /\ src' = IF Current = Root THEN {} ELSE src \ {Current}
  BY DeleteDoes
<1>2. Current \in DOMAIN files /\ Current \in DOMAIN mem.files
  BY <1>1 DEF Acts, IInv, Copy
<1>3. c \in src \ src'
  BY <1>1, PresentFacts
<1>4. c = Current
  BY <1>1, <1>2, <1>3 DEF RootEmpty
<1>5. CASE OneFile
  <2>1. job[1] = "file" /\ job[2] = c /\ job[3] = "delete" /\ job \in jobs \cup {<<"none">>}
    BY <1>1, <1>4, <1>5 DEF OneFile, Doing, Current, IInv, Types
  <2>2. job \in jobs /\ job \in FileJobs
    BY <2>1, RequestsAssumption DEF IInv, Types, Works
  <2>3. job = <<"file", c, "delete">>
    BY <2>1, <2>2 DEF FileJobs
  <2> QED
    BY <1>3, <2>2, <2>3 DEF Agreed
<1>6. CASE ~OneFile
  <2>1. mem.files[c].action = "delete"
    BY <1>1, <1>4, <1>6 DEF Doing
  <2>2. files[c].action = "delete"
    BY <1>1, <1>2, <1>4, <2>1 DEF Acts, AsListed, SameButConflict
  <2> QED
    BY <1>2, <1>3, <1>4, <2>2 DEF Agreed
<1> QED
  BY <1>5, <1>6

\* All other steps leave what is there, somewhere, if Lstat tells the truth.
LEMMA OthersKeep ==
  ASSUME "blind" \notin Events, BInv, [Next]_vars, ~RemoveExisting, ~DeleteFile, NEW c \in Present, c # Nothing
  PROVE  c \in Present'
<1> USE BInvFacts
<1>1. CASE Idle \/ Revision \/ Beginning \/ Progressing \/ Crash
  <2>1. UNCHANGED <<src, lib>>
    BY <1>1 DEF Idle, Revision, Beginning, Progressing, Crash, disk
  <2> QED
    BY <2>1, PresentFacts
<1>2. ASSUME src' = src \/ src' = src \ {Current}, Destination \in Paths,
             lib[Destination] = Nothing, lib' = [lib EXCEPT ![Destination] = Current]
      PROVE  c \in Present'
  <2>1. lib'[Destination] = Current /\ \A p \in Paths : p # Destination => lib'[p] = lib[p]
    BY <1>2
  <2> QED
    BY <1>2, <2>1, PresentFacts
<1>3. CASE MoveFile
  BY <1>2, <1>3, MoveDoes DEF Blind
<1>4. CASE Released
  <2>1. CASE UNCHANGED lib
    BY <1>4, <2>1, PresentFacts DEF Released
  <2>2. CASE /\ epc = "act" /\ Destination # NoPath /\ lib[Destination] = Nothing
             /\ lib' = [lib EXCEPT ![Destination] = Current]
    <3>1. Destination \in Paths
      BY <2>2, CurrentFacts
    <3> QED
      BY <1>2, <1>4, <2>2, <3>1 DEF Released
  <2> QED
    BY <1>4, <2>1, <2>2 DEF Released, Blind
<1>5. CASE \E f \in Files : Arrive(f)
  <2>1. src \subseteq src' /\ lib' = lib
    BY <1>5 DEF Arrive
  <2> QED
    BY <2>1, PresentFacts
<1> QED
  BY <1>1, <1>3, <1>4, <1>5, Steps DEF Kinds

\* Nothing is destroyed without a decision that stands in the database: a file is
\* deleted because the plan or a queued work says so, what is in the library is
\* removed because the user agreed that this very content be replaced - if Lstat
\* tells what is there ("blind": mover.Move removes what it did not see).  Where
\* content may be replaced, a transfer must be recorded and no two files of the
\* item may replace the same; a file that arrives in an empty folder goes with it.
THEOREM LossesAreAgreed ==
  ASSUME "arrival" \notin Events, "blind" \notin Events,
         "replace" \in Events => "crash" \notin Events /\ "hiccup" \notin Events /\ Apart
  PROVE  Spec => OnlyAgreedLosses
<1> DEFINE Inv == RootEmpty /\ Bounding
           Losses == \A c \in Present \ (Present' \cup {Nothing}) :
             \/ c \in src /\ (\/ c \in DOMAIN files /\ files[c].action = "delete"
                              \/ <<"file", c, "delete">> \in jobs)
             \/ \E f \in DOMAIN files : agreed[f] = c /\ files[f].over
<1>1. Init => Inv
  <2> SUFFICES ASSUME Init PROVE Inv
    OBVIOUS
  <2>1. DOMAIN files = {} /\ DOMAIN mem.files = {} /\ DOMAIN Live = {}
    BY UnlistedGood, NoCopyGood DEF Init, Live
  <2> QED
    BY <2>1 DEF RootEmpty, Bounding, Bound, Unforced
<1>2. BInv /\ BInv' /\ [Next]_vars /\ Inv => Inv'
  <2> SUFFICES ASSUME BInv, BInv', [Next]_vars, RootEmpty, Bounding PROVE Inv'
    OBVIOUS
  <2>1. RootEmpty'
    BY RootEmptyKeeps
  <2>2. CASE "replace" \in Events
    BY <2>1, <2>2, BoundKeeps DEF Bounding
  <2>3. CASE "replace" \notin Events
    BY <2>1, <2>3, UnforcedKeeps DEF Bounding
  <2> QED
    BY <2>2, <2>3
<1>3. BInv /\ [Next]_vars /\ Inv => Losses
  BY RemovalAgreed, DeletionAgreed, OthersKeep DEF Agreed
<1> HIDE DEF Inv
<1>4. BInv /\ [Next]_vars /\ Inv => [Losses]_vars
  BY <1>3
<1> QED
  BY <1>1, <1>2, <1>4, BroadInvariant, PTL DEF Spec, OnlyAgreedLosses
=============================================================================
