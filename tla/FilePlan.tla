------------------------------ MODULE FilePlan ------------------------------
(***************************************************************************)
(* The per-file plan of one item (store.File, internal/engine/plan.go,     *)
(* conflicts.go, reconcile.go) as data: what is planned for each file of a *)
(* source entry, and the pure functions the engine applies to the plan.    *)
(*                                                                         *)
(* A plan is a function from the files the item lists to their records.    *)
(* The destination of file f in folder d is <<d, Base[f]>>: the code always*)
(* joins a folder with the base name of the relative path.  Root is the    *)
(* entry with the empty relative path that stands for an empty folder.     *)
(***************************************************************************)
EXTENDS Naturals

CONSTANTS
  Files,        \* the files of the source entry, numbered in listing order
  Root,         \* the listing position of the empty-folder entry
  Dirs,         \* library folders
  Names,        \* file names
  Base,         \* Base[f]: the file name of f
  SameEpisode,  \* <<x, y>>: existing video x is the same episode as incoming y
  NoPath, NoDir, Nothing

ASSUME FilesAssumption == Files \subseteq Nat /\ Root \in Nat \ Files
ASSUME BaseAssumption == Base \in [Files -> Names]
ASSUME EpisodeAssumption == SameEpisode \subseteq Names \X Names
ASSUME PathAssumption == NoPath \notin Dirs \X Names /\ NoDir \notin Dirs

Paths == Dirs \X Names
Entry == Files \cup {Root}

FileRec == [action: {"none", "move", "delete", "keep"},
            dest: Paths \cup {NoPath}, over: BOOLEAN,
            overPath: Paths \cup {NoPath}, conflict: Paths \cup {NoPath},
            done: BOOLEAN]

\* A record with an action and a destination and nothing decided beyond that.
Planned(a, d) == [action |-> a, dest |-> d, over |-> FALSE, overPath |-> NoPath,
                  conflict |-> NoPath, done |-> FALSE]

DestIn(f, d) == IF d = NoDir \/ f = Root THEN NoPath ELSE <<d, Base[f]>>

----------------------------------------------------------------------------
(* pendingWork, anyUnresolvedMove, anyUnresolvedConflict, hasMovable.       *)

Pending(files) ==
  {f \in DOMAIN files : ~files[f].done /\ files[f].action \in {"move", "delete"}}
Homeless(files) ==
  {f \in Pending(files) : files[f].action = "move" /\ files[f].dest = NoPath}
\* Mutant: anyUnresolvedConflict looks at the wrong files.
ConflictedDone(files) == {f \in DOMAIN files : files[f].done /\ files[f].conflict # NoPath}

Conflicted(files) ==
  {f \in Pending(files) : files[f].action = "move" /\ files[f].conflict # NoPath}
Movable(files) == {f \in DOMAIN files : files[f].action = "move" /\ files[f].dest # NoPath}

\* executePlan works in listing order.
First(S) == CHOOSE f \in S : \A g \in S : f <= g

----------------------------------------------------------------------------
(* Collisions.  lib maps the paths of the library to what is there.         *)

\* findConflict: the same name wins over the same episode.
FindConflict(p, lib) ==
  LET episodes == {q \in Paths : /\ q[1] = p[1] /\ lib[q] # Nothing
                                 /\ <<q[2], p[2]>> \in SameEpisode}
  IN IF lib[p] # Nothing THEN p
     ELSE IF episodes # {} THEN CHOOSE q \in episodes : TRUE
     ELSE NoPath

\* Mutant: detectConflicts scans for completed files too.
DetectAgain(files, lib) ==
  [f \in DOMAIN files |-> [files[f] EXCEPT !.conflict =
     IF files[f].action = "move" /\ ~files[f].over /\ files[f].dest # NoPath
     THEN FindConflict(files[f].dest, lib) ELSE NoPath]]

\* detectConflicts: a decided or idle file has no conflict.
DetectConflicts(files, lib) ==
  [f \in DOMAIN files |-> [files[f] EXCEPT !.conflict =
     IF files[f].action = "move" /\ ~files[f].done /\ ~files[f].over
        /\ files[f].dest # NoPath
     THEN FindConflict(files[f].dest, lib) ELSE NoPath]]

\* mergeConflicts: a scan counts if the plan is still the one it was made for.
SamePlan(files, scanned) ==
  \A f \in DOMAIN files :
    /\ f \in DOMAIN scanned
    /\ files[f].action = scanned[f].action /\ files[f].dest = scanned[f].dest
    /\ files[f].done = scanned[f].done /\ files[f].over = scanned[f].over

----------------------------------------------------------------------------
(* Changes of the plan.                                                     *)

\* Mutant: a file that is to be moved already keeps its destination.
RouteIdle(files, d) ==
  [f \in DOMAIN files |->
     IF files[f].done \/ f = Root \/ files[f].action \in {"delete", "move"} THEN files[f]
     ELSE Planned("move", DestIn(f, d))]

\* routeFilesToTarget: choosing a folder is the decision to move.
RouteTo(files, d) ==
  [f \in DOMAIN files |->
     IF files[f].done \/ f = Root \/ files[f].action = "delete" THEN files[f]
     ELSE Planned("move", DestIn(f, d))]

\* Mutant: the collision of the old plan is kept.
PlanKeepingConflict(files, f, a, target) ==
  [files EXCEPT ![f] = [Planned(a, IF a = "move" THEN DestIn(f, target) ELSE NoPath)
                          EXCEPT !.conflict = files[f].conflict]]

\* PlanFileAction on one file.
PlanOne(files, f, a, target) ==
  [files EXCEPT ![f] = Planned(a, IF a = "move" THEN DestIn(f, target) ELSE NoPath)]

\* ResolveConflict: the incoming file replaces the existing one, or gives way.
Replace(files, f) ==
  [files EXCEPT ![f] = [@ EXCEPT !.action = "move", !.over = TRUE,
                                 !.overPath = files[f].conflict, !.conflict = NoPath]]
GiveWay(files, f) ==
  [files EXCEPT ![f] = [Planned("delete", NoPath) EXCEPT !.done = files[f].done]]

\* applyDecisions: the AI's answer for each file; what is done stays, and a
\* destination is written only where there is one to write.
Decided(files, decisions, d) ==
  [f \in DOMAIN files |->
     IF files[f].done THEN files[f]
     ELSE Planned(decisions[f], IF decisions[f] = "move" /\ d # NoDir
                                THEN DestIn(f, d) ELSE files[f].dest)]

\* The listing of a scan, with no action yet.
Listed(disk) == [f \in disk |-> Planned("none", NoPath)]
EmptyFolder == [f \in {Root} |-> Planned("delete", NoPath)]

\* reconcileFiles: unchanged files keep their record, new ones want a review,
\* and what is done stays as the journal of the transfer.
Reconcile(files, disk) ==
  LET journal == {f \in DOMAIN files \ disk : files[f].done /\ f # Root}
      empty == IF disk = {} THEN {Root} ELSE {}
  IN [f \in disk \cup journal \cup empty |->
        IF f = Root THEN Planned("delete", NoPath)
        ELSE IF f \in journal \/ (f \in DOMAIN files /\ ~files[f].done) THEN files[f]
        ELSE Planned("keep", NoPath)]
=============================================================================
