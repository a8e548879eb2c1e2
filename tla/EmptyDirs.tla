----------------------------- MODULE EmptyDirs -----------------------------
(***************************************************************************)
(* mover.RemoveEmptyDirs: the folders an executed plan leaves behind are   *)
(* removed, the deepest first, while downloads may still add files and     *)
(* folders to them.  Between the listing of a folder and its removal       *)
(* anything may happen; rmdir refuses a folder that is not empty.          *)
(***************************************************************************)
EXTENDS Naturals, FiniteSets

CONSTANTS
  Dirs, Base,  \* the folders that may exist, and the source folder
  Above,       \* Above[d]: the folders d is in, up to the source folder
  None

ASSUME DirsAssumption ==
  /\ Base \in Dirs /\ None \notin Dirs
  /\ Above \in [Dirs -> SUBSET Dirs] /\ Above[Base] = {}
  /\ \A d \in Dirs \ {Base} : d \notin Above[d] /\ Base \in Above[d]
  /\ \A d \in Dirs : \A a \in Above[d] : Above[a] \subseteq Above[d]

VARIABLES
  tree,     \* the folders that exist
  holds,    \* those with a file directly in them
  locked,   \* those that cannot be listed
  stage, pending, listed  \* the walk: folders to visit, the one found empty

dirVars == <<tree, holds, locked, stage, pending, listed>>

Depth(d) == Cardinality(Above[d])
Empty(d) == d \notin holds /\ \A c \in tree : d \notin Above[c]

DirsInit ==
  /\ tree = {} /\ holds = {} /\ locked = {}
  /\ stage = "idle" /\ pending = {} /\ listed = None

\* finalize and the scanner call it for the source folder of an item.
Call ==
  /\ stage = "idle"
  /\ tree' \in {t \in SUBSET Dirs : Base \in t /\ \A d \in t : Above[d] \subseteq t}
  /\ holds' \in SUBSET tree' /\ locked' \in SUBSET tree'
  /\ stage' = "walk"
  /\ UNCHANGED <<pending, listed>>

\* WalkDir does not enter a folder it cannot list, and reports it.
Walk ==
  /\ stage = "walk"
  /\ pending' = {d \in tree : Above[d] \cap locked = {}}
  /\ stage' = "sweep"
  /\ UNCHANGED <<tree, holds, locked, listed>>

Look(d) ==
  /\ stage = "sweep" /\ listed = None
  /\ d \in pending /\ \A o \in pending : Depth(o) <= Depth(d)
  /\ pending' = pending \ {d}
  /\ listed' = IF d \notin locked /\ Empty(d) THEN d ELSE None
  /\ UNCHANGED <<tree, holds, locked, stage>>

\* Mutant: RemoveAll instead of Remove.
RemoveTree ==
  /\ listed # None
  /\ tree' = {d \in tree : d # listed /\ listed \notin Above[d]}
  /\ holds' = holds \cap tree'
  /\ listed' = None
  /\ UNCHANGED <<locked, stage, pending>>

Remove ==
  /\ listed # None
  /\ tree' = IF Empty(listed) THEN tree \ {listed} ELSE tree
  /\ listed' = None
  /\ UNCHANGED <<holds, locked, stage, pending>>

\* All visited, or the context has ended.
Finish ==
  /\ stage = "sweep" /\ listed = None
  /\ stage' \in IF pending = {} THEN {"done"} ELSE {"cancelled"}
  /\ UNCHANGED <<tree, holds, locked, pending, listed>>

\* A download adds a file or a folder.
AddFile(d) ==
  /\ d \in tree \ holds
  /\ holds' = holds \cup {d}
  /\ UNCHANGED <<tree, locked, stage, pending, listed>>

AddDir(d) ==
  /\ d \in Dirs \ tree /\ d # Base /\ Above[d] \subseteq tree
  /\ tree' = tree \cup {d}
  /\ UNCHANGED <<holds, locked, stage, pending, listed>>

Sweep == Call \/ Walk \/ (\E d \in Dirs : Look(d)) \/ Remove \/ Finish
Download == \E d \in Dirs : AddFile(d) \/ AddDir(d)

----------------------------------------------------------------------------
DirsSpec == DirsInit /\ [][Sweep \/ Download]_dirVars

\* "It never deletes a directory that holds files" (mover.go), also files that
\* arrive after the folder was listed, in it or below it.
FilesStay ==
  [][\A d \in holds : d \in holds' /\ {d} \cup Above[d] \subseteq tree']_dirVars
=============================================================================
