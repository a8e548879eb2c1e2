------------------------------- MODULE Mover -------------------------------
(***************************************************************************)
(* internal/mover: Move at the level of system calls.  Several calls go to *)
(* the same destination path - the same item tried again, or two items     *)
(* whose entries have the same name, executed by the worker and by the     *)
(* scanner.  A call is interrupted by the storage, by its context, by the  *)
(* end of the process and by a power cut.  A system call that reports an   *)
(* error has done nothing, but for RemoveAll, which may have done a part.  *)
(*                                                                         *)
(* A moved entry is a file (its only name is Top) or a folder with some    *)
(* files in it.  A name at the destination leads to a content or to        *)
(* nothing; a copy goes on writing to its file when the name has been      *)
(* taken away from it, as file descriptors do.                             *)
(***************************************************************************)
EXTENDS Naturals

CONSTANTS
  Movers,    \* the calls of Move, each with an entry of its own
  Names,     \* of files within an entry
  Entry,     \* Entry[m]: what m moves
  Top,       \* the name of the entry itself, when it is a file
  Nothing,
  Rivals,    \* whether two calls run at the same time
  Blind      \* whether Lstat fails where something is

ASSUME MoverAssumption ==
  /\ Top \in Names /\ Nothing \notin Movers /\ {Rivals, Blind} \subseteq BOOLEAN
  /\ Entry \in [Movers -> SUBSET Names]
  /\ \A m \in Movers : Top \in Entry[m] => Entry[m] = {Top}

VARIABLES
  src,       \* what is left at the source
  dest,      \* whose content is at the destination, name by name
  made,      \* the destination is a folder
  whole,     \* the contents <<m, n>> that are complete
  safe,      \* ... and on stable storage
  across,    \* source and destination are on different filesystems
  ended,     \* the context is cancelled
  pc, todo, file, \* of each call: where it is, what it has to copy, and copies
  exposed,   \* history: whose only place was a destination that Lstat failed on
  misled     \* history: Lstat has failed where something was

disk == <<src, dest, made, whole, safe, across>>
call == <<pc, todo, file>>
vars == <<disk, ended, call, exposed, misled>>

Folder(m) == Top \notin Entry[m]
Taken == made \/ dest[Top] # Nothing
At(m, l) == pc[m] = l
Go(m, l) == pc' = [pc EXCEPT ![m] = l]
Results == {"done", "exists", "failed", "dirty", "left"}
Running(m) == pc[m] \notin {"start"} \cup Results

Init ==
  /\ src = Entry /\ dest = [n \in Names |-> Nothing] /\ made = FALSE
  /\ whole = {} /\ safe = {} /\ across \in [Movers -> BOOLEAN] /\ ended = FALSE
  /\ pc = [m \in Movers |-> "start"]
  /\ todo = [m \in Movers |-> {}] /\ file = [m \in Movers |-> Top]
  /\ exposed = {} /\ misled = FALSE

----------------------------------------------------------------------------
\* The context is checked and the destination folder created.
Begin(m) ==
  /\ At(m, "start") /\ (Rivals \/ \A o \in Movers : ~Running(o))
  /\ Go(m, IF ended THEN "failed" ELSE "check")
  /\ UNCHANGED <<disk, ended, todo, file, exposed, misled>>

\* Whatever error Lstat returns, the destination counts as free.
Lstat(m) ==
  /\ At(m, "check")
  /\ \/ Go(m, IF Taken THEN "exists" ELSE "rename") /\ UNCHANGED <<exposed, misled>>
     \/ /\ Blind /\ Taken /\ Go(m, "rename")
        /\ exposed' = exposed \cup {o \in Movers : src[o] # Entry[o]} /\ misled' = TRUE
  /\ UNCHANGED <<disk, ended, todo, file>>

\* rename(2) replaces a file by a file and an empty folder by a folder.
Renames(m) ==
  /\ ~across[m]
  /\ IF Folder(m) THEN \A n \in Names : dest[n] = Nothing ELSE ~made /\ src[m] # {}

Rename(m) ==
  /\ At(m, "rename") /\ Renames(m)
  /\ src' = [src EXCEPT ![m] = {}]
  /\ dest' = [n \in Names |-> IF n \in src[m] THEN m ELSE dest[n]]
  /\ made' = Folder(m)
  /\ whole' = whole \cup {<<m, n>> : n \in src[m]}
  /\ safe' = safe \cup {<<m, n>> : n \in src[m]}
  /\ Go(m, "done")
  /\ UNCHANGED <<across, ended, todo, file, exposed, misled>>

\* copyPath: whatever made the rename fail, the copy is tried, if there is a
\* source; for a folder it begins with MkdirAll, which does not mind a folder that
\* is there.
CopyPath(m) ==
  /\ At(m, "rename") /\ ~Renames(m)
  /\ \/ /\ IF Folder(m) THEN dest[Top] = Nothing ELSE src[m] # {}
        /\ made' = (made \/ Folder(m))
        /\ todo' = [todo EXCEPT ![m] = src[m]]
        /\ Go(m, "copy")
     \/ Go(m, "undo") /\ UNCHANGED <<made, todo>>
  /\ UNCHANGED <<src, dest, whole, safe, across, ended, file, exposed, misled>>

\* copyFile: O_EXCL creates a new file or fails.
Open(m, n) ==
  /\ At(m, "copy") /\ n \in todo[m] /\ ~ended
  /\ dest[n] = Nothing /\ (Folder(m) <=> made)
  /\ dest' = [dest EXCEPT ![n] = m]
  /\ whole' = whole \ {<<m, n>>} /\ safe' = safe \ {<<m, n>>}
  /\ file' = [file EXCEPT ![m] = n]
  /\ todo' = [todo EXCEPT ![m] = @ \ {n}]
  /\ Go(m, "write")
  /\ UNCHANGED <<src, made, across, ended, exposed, misled>>

\* The context has ended, the file cannot be read or created.
CopyFails(m) ==
  /\ At(m, "copy") /\ todo[m] # {}
  /\ Go(m, "undo")
  /\ UNCHANGED <<disk, ended, todo, file, exposed, misled>>

\* copyChunked reached the end of the file.
Write(m) ==
  /\ At(m, "write")
  /\ whole' = whole \cup {<<m, file[m]>>}
  /\ Go(m, "flush")
  /\ UNCHANGED <<src, dest, made, safe, across, ended, todo, file, exposed, misled>>

\* Mutant: the copy is not flushed.
FlushNothing(m) ==
  /\ At(m, "flush")
  /\ Go(m, "copy")
  /\ UNCHANGED <<disk, ended, todo, file, exposed, misled>>

Flush(m) ==
  /\ At(m, "flush")
  /\ safe' = safe \cup {<<m, file[m]>>}
  /\ Go(m, "copy")
  /\ UNCHANGED <<src, dest, made, whole, across, ended, todo, file, exposed, misled>>

\* A chunk or the flush fails or the context has ended: the file is removed,
\* whose it may be; so it is not when only Close failed.
WriteFails(m) ==
  /\ pc[m] \in {"write", "flush"}
  /\ \/ dest' = [dest EXCEPT ![file[m]] = Nothing]
     \/ UNCHANGED dest
  /\ Go(m, "undo")
  /\ UNCHANGED <<src, made, whole, safe, across, ended, todo, file, exposed, misled>>

CopyDone(m) ==
  /\ At(m, "copy") /\ todo[m] = {}
  /\ Go(m, "remove")
  /\ UNCHANGED <<disk, ended, todo, file, exposed, misled>>

\* Mutant: the copy that failed stays.
UndoNothing(m) ==
  /\ At(m, "undo")
  /\ Go(m, "failed")
  /\ UNCHANGED <<disk, ended, todo, file, exposed, misled>>

\* RemoveAll(dest) removes all that is there, or some of it, and says so.
Undo(m) ==
  /\ At(m, "undo")
  /\ \/ /\ dest' = [n \in Names |-> Nothing] /\ made' = FALSE
        /\ Go(m, "failed")
     \/ /\ \E kept \in SUBSET Names :
             dest' = [n \in Names |-> IF n \in kept THEN dest[n] ELSE Nothing]
        /\ UNCHANGED made
        /\ Go(m, "dirty")
  /\ UNCHANGED <<src, whole, safe, across, ended, todo, file, exposed, misled>>

\* RemoveAll(src), which may stop half way.
RemoveSource(m) ==
  /\ At(m, "remove")
  /\ \/ src' = [src EXCEPT ![m] = {}] /\ Go(m, "done")
     \/ \E kept \in SUBSET src[m] :
          src' = [src EXCEPT ![m] = kept] /\ Go(m, "left")
  /\ UNCHANGED <<dest, made, whole, safe, across, ended, todo, file, exposed, misled>>

----------------------------------------------------------------------------
Cancel == ended = FALSE /\ ended' = TRUE /\ UNCHANGED <<disk, call, exposed, misled>>

\* The process ends and is started again; a power cut also takes what has not
\* been flushed.
Crash ==
  /\ pc' = [m \in Movers |-> IF At(m, "done") THEN "done" ELSE "start"]
  /\ \/ UNCHANGED whole
     \/ whole' = whole \cap safe
  /\ ended' = FALSE
  /\ UNCHANGED <<src, dest, made, safe, across, todo, file, exposed, misled>>

\* The queue runs the job again.
Retry(m) ==
  /\ pc[m] \in Results \ {"done"} /\ src[m] # {}
  /\ Go(m, "start")
  /\ UNCHANGED <<disk, ended, todo, file, exposed, misled>>

Step(m) ==
  \/ Begin(m) \/ Lstat(m) \/ Rename(m) \/ CopyPath(m)
  \/ \E n \in Names : Open(m, n)
  \/ CopyFails(m) \/ Write(m) \/ Flush(m) \/ WriteFails(m) \/ CopyDone(m)
  \/ Undo(m) \/ RemoveSource(m) \/ Retry(m)

Next == Cancel \/ Crash \/ \E m \in Movers : Step(m)

Spec == Init /\ [][Next]_vars

----------------------------------------------------------------------------
TypeOK ==
  /\ src \in [Movers -> SUBSET Names] /\ dest \in [Names -> Movers \cup {Nothing}]
  /\ made \in BOOLEAN /\ across \in [Movers -> BOOLEAN] /\ ended \in BOOLEAN
  /\ whole \subseteq Movers \X Names /\ safe \subseteq Movers \X Names
  /\ pc \in [Movers -> {"start", "check", "rename", "copy", "write", "flush",
                        "undo", "remove"} \cup Results]
  /\ todo \in [Movers -> SUBSET Names] /\ file \in [Movers -> Names]
  /\ exposed \subseteq Movers /\ misled \in BOOLEAN

Arrived(m, n) == dest[n] = m /\ <<m, n>> \in whole

\* A file is never gone from both places: it is at the source, or complete at
\* the destination, however calls fail and crash.  An Lstat that fails puts at risk
\* what has nothing left at its source, and nothing else.
Kept == \A m \in Movers \ exposed : \A n \in Entry[m] : n \in src[m] \/ Arrived(m, n)

\* A folder is moved as a whole: nothing of the source is removed before all of
\* it has arrived, also when calls that failed half way are repeated.
AllOrNothing == \A m \in Movers \ exposed :
  src[m] # Entry[m] => \A n \in Entry[m] : Arrived(m, n)

\* "If a colliding entry already exists in destDir, an error is returned so that
\* nothing is silently overwritten" (mover.go): what a name leads to is not
\* replaced by something else.
NothingOverwritten == [][\A n \in Names :
  dest'[n] \in {dest[n], Nothing} \/ dest[n] = Nothing]_vars
=============================================================================
