--------------------------- MODULE Classification ---------------------------
(***************************************************************************)
(* From the AI's answer to the plan of an item (internal/ai/classifier.go, *)
(* internal/engine/target.go, plan.go, engine.go): a scan or a             *)
(* reclassification takes its settings and libraries once, asks the AI,    *)
(* and turns the answer into a folder of the library and an action for     *)
(* each file.  Meanwhile the settings change and folders come and go on    *)
(* the share.  ItemPlan has the user's own changes and the execution of a  *)
(* plan in detail, and takes the decisions as given.                       *)
(*                                                                         *)
(* A path is <<directory, base name>>.  A folder of the library is         *)
(* <<title, spelling>>: the spellings of a title differ only in case.      *)
(***************************************************************************)
EXTENDS Naturals, FiniteSetsExt, SequencesExt

CONSTANTS
  Entries,     \* source entries: file |-> [path, size, video], in listing order
  SampleNames, \* base names that say "sample", "trailer", "proof" or "teaser"
  NamedPaths,  \* the paths an answer may name
  Folders,     \* the folders the library may have
  Root,        \* the library's own path
  NoDir,       \* no target
  NoReply,
  MaxNamed,    \* bound: files named in an answer
  MaxAsked,    \* bound: questions to the AI
  MaxChanges   \* bound: changes of settings and share

ASSUME EntriesAssumption == \A e \in Entries :
  /\ DOMAIN e \subseteq Nat /\ DOMAIN e # {} /\ IsFiniteSet(DOMAIN e)
  /\ \A f \in DOMAIN e : e[f].size \in Nat
ASSUME FoldersAssumption == \A d \in Folders : d = <<d[1], d[2]>> /\ d[2] \in Nat
ASSUME DirAssumption == Root \notin Folders /\ NoDir \notin Folders \cup {Root}

VARIABLES
  entry,   \* the files on disk
  files,   \* items.files: action, destination folder, done
  status,  \* items.status
  target,  \* items.target_path
  nested,  \* the library's use_subfolders
  whatIf,  \* the dry_run setting
  folders, \* the folders the library has
  asking,  \* "no", or the operation that waits for the AI
  reply,   \* what the AI has answered
  sc,      \* the operation's scanContext: nested and whatIf as they were
  spent    \* questions asked and changes made

world == <<nested, whatIf, folders>>
classVars == <<entry, files, status, target, world, asking, reply, sc, spent>>

Actions == {"move", "delete", "keep"}
\* An action that is none of the three means "keep" (parseResult), so that "keep"
\* itself need not be among the answers.
FileAnswers == SeqOf([path : NamedPaths, action : {"move", "delete", "other"}], MaxNamed)
Fresh == [f \in DOMAIN entry |-> [action |-> "none", dest |-> NoDir, done |-> FALSE]]

ClassInit ==
  /\ entry \in Entries /\ files = Fresh /\ status = "absent" /\ target = NoDir
  /\ nested \in BOOLEAN /\ whatIf \in BOOLEAN /\ folders \in SUBSET Folders
  /\ asking = "no" /\ reply = NoReply /\ sc = [nested |-> FALSE, whatIf |-> FALSE]
  /\ spent = [asked |-> 0, changes |-> 0]

----------------------------------------------------------------------------
(* The answer for one file (parseResult, applyDecisions): the last decision *)
(* for its path, or else the first for a file of that name; an action that  *)
(* is none means "keep".                                                    *)

ForPath(answer, p) == {i \in DOMAIN answer : answer[i].path = p}
ForName(answer, p) == {i \in DOMAIN answer : answer[i].path[2] = p[2]}
Meant(d) == IF d.action \in Actions THEN d.action ELSE "keep"

\* Mutant: the base name decides.
DecisionByName(answer, p) ==
  IF ForName(answer, p) # {} THEN Meant(answer[Min(ForName(answer, p))]) ELSE "keep"

Decision(answer, p) ==
  IF ForPath(answer, p) # {} THEN Meant(answer[Max(ForPath(answer, p))])
  ELSE IF ForName(answer, p) # {} THEN Meant(answer[Min(ForName(answer, p))])
  ELSE "keep"

\* The destination is written only for a move that has one.
Decide(plan, answer, dir) ==
  [f \in DOMAIN plan |->
     LET a == Decision(answer, entry[f].path)
     IN IF plan[f].done THEN plan[f]
        ELSE [action |-> a, done |-> FALSE,
              dest |-> IF a = "move" /\ dir # NoDir THEN dir ELSE plan[f].dest]]

\* protectMainVideo: the first of the largest videos, done or not.
Videos == {f \in DOMAIN entry : entry[f].video}

\* Mutant: the sizes are not compared.
FirstVideo == Min(Videos)

MainVideo ==
  CHOOSE f \in Videos : \A g \in Videos :
    entry[g].size < entry[f].size \/ (entry[g].size = entry[f].size /\ f <= g)
IsSample(f) == entry[f].path[2] \in SampleNames

Protect(plan) ==
  IF Videos # {} /\ ~plan[MainVideo].done /\ plan[MainVideo].action = "delete"
     /\ ~IsSample(MainVideo)
  THEN [plan EXCEPT ![MainVideo].action = "keep", ![MainVideo].dest = NoDir]
  ELSE plan

\* resolveTarget: the folder as the library spells it (the first in the
\* listing); the root only of a library without sub-folders.
Match(folder) == {d \in folders : folder \in Folders /\ d[1] = folder[1]}

\* Mutant: the answer's folder is taken as it stands.
ResolveAsNamed(folder) == IF folder = Root /\ sc.nested THEN NoDir ELSE folder

ResolveTarget(folder) ==
  IF folder = NoDir THEN NoDir
  ELSE IF Match(folder) # {} THEN <<folder[1], Min({d[2] : d \in Match(folder)})>>
  ELSE IF sc.nested THEN NoDir ELSE Root

----------------------------------------------------------------------------
(* The operations.                                                          *)

\* newScanContext; a scan takes up an entry that has no item yet.
Begin(op) ==
  /\ asking = "no" /\ spent.asked < MaxAsked
  /\ \/ op = "scan" /\ status = "absent"
     \/ op = "reclassify" /\ status # "absent"
        /\ \E f \in DOMAIN files : ~files[f].done
  /\ asking' = op
  /\ sc' = [nested |-> nested, whatIf |-> whatIf]
  /\ spent' = [spent EXCEPT !.asked = @ + 1]
  /\ UNCHANGED <<entry, files, status, target, world, reply>>

\* The AI answers: a folder of the library, the library alone (Root) or none that
\* exists (NoDir), actions for files, and a confidence above the threshold or not.
Reply ==
  /\ asking # "no" /\ reply = NoReply
  /\ reply' \in [actions : FileAnswers, folder : Folders \cup {Root, NoDir},
                 sure : IF asking = "scan" THEN BOOLEAN ELSE {FALSE}]
  /\ UNCHANGED <<entry, files, status, target, world, asking, sc, spent>>

\* The request fails: a new item is recorded as an error, an old one stays.
AskFails ==
  /\ asking # "no" /\ reply = NoReply
  /\ asking' = "no" /\ status' = IF asking = "scan" THEN "error" ELSE status
  /\ UNCHANGED <<entry, files, target, world, reply, sc, spent>>

\* processCandidate and ReclassifyItem from the answer on.  A scan executes a
\* confident plan at once; a collision would send it to review (ItemPlan).
Answer ==
  LET dir == ResolveTarget(reply.folder)
      plan == Protect(Decide(files, reply.actions, dir))
      movable == \E f \in DOMAIN plan : plan[f].action = "move" /\ plan[f].dest # NoDir
      auto == asking = "scan" /\ reply.sure /\ dir # NoDir /\ movable /\ ~sc.whatIf
  IN /\ reply # NoReply /\ reply' = NoReply
     /\ asking' = "no"
     /\ files' = plan /\ target' = dir
     /\ status' = IF auto THEN "moving" ELSE "pending_review"
     /\ UNCHANGED <<entry, world, sc, spent>>

Pending == {f \in DOMAIN files : ~files[f].done /\ files[f].action \in {"move", "delete"}}

\* executePlan to the end, by the scan at once or by the queue (ApplyPlan: not
\* in what-if mode, no move without a destination, every destination there).
Execute ==
  /\ asking = "no"
  /\ \/ status = "moving" /\ status' = "auto_moved"
     \/ /\ status \in {"pending_review", "error"} /\ status' = "confirmed"
        /\ ~whatIf /\ Pending # {}
        /\ \A f \in Pending : files[f].action = "move" =>
             files[f].dest \in folders \cup {Root}
  /\ files' = [f \in DOMAIN files |-> [files[f] EXCEPT !.done = @ \/ f \in Pending]]
  /\ UNCHANGED <<entry, target, world, asking, reply, sc, spent>>

\* handleUpdateLibrary, SetDryRun, and folders made or removed on the share; a
\* change after the reply has no other effect than one just before it.
Change ==
  /\ reply = NoReply /\ spent.changes < MaxChanges
  /\ spent' = [spent EXCEPT !.changes = @ + 1]
  /\ \/ nested' = ~nested /\ UNCHANGED <<whatIf, folders>>
     \/ whatIf' = ~whatIf /\ UNCHANGED <<nested, folders>>
     \/ \E d \in Folders : /\ folders' \in {folders \cup {d}, folders \ {d}}
                           /\ folders' # folders
        /\ UNCHANGED <<nested, whatIf>>
  /\ UNCHANGED <<entry, files, status, target, asking, reply, sc>>

ClassNext ==
  \/ \E op \in {"scan", "reclassify"} : Begin(op)
  \/ Reply \/ Answer \/ AskFails \/ Execute \/ Change

ClassSpec == ClassInit /\ [][ClassNext]_classVars

----------------------------------------------------------------------------
\* "The largest video is never deleted automatically" (README.md): whatever the
\* AI answers, and whatever was executed before, it does not plan the deletion
\* of a video that is larger than every other and not named a sample.
FeatureKept == [][reply # NoReply => \A f \in Videos :
  (\A g \in Videos \ {f} : entry[g].size < entry[f].size) /\ ~IsSample(f)
    => files'[f].action # "delete" \/ files[f].done]_classVars

\* A file that the AI names by its path gets the action it is named with, even
\* if another file has the same name; only the safety net turns a deletion of
\* the largest video into "keep".
NamedByPath == [][reply # NoReply => \A f \in DOMAIN files, i \in DOMAIN reply.actions :
  /\ ForPath(reply.actions, entry[f].path) = {i} /\ ~files[f].done
  => \/ files'[f].action = Meant(reply.actions[i])
     \/ /\ Meant(reply.actions[i]) = "delete" /\ files'[f].action = "keep"
        /\ \A g \in Videos : entry[g].size <= entry[f].size]_classVars

\* "The item is only filed into an already existing subfolder" (README.md): a
\* destination that the AI's answer brings is there at that moment, although the
\* folders offered to it were listed before it was asked.
IntoExisting == [][reply # NoReply => \A f \in DOMAIN files :
  files'[f].dest # files[f].dest => files'[f].dest \in folders \cup {Root, NoDir}]_classVars
=============================================================================
